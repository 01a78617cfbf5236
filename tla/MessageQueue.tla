---------------------------- MODULE MessageQueue ----------------------------
(***************************************************************************)
(* What the buffers promise the radio and the layers of the stack: a       *)
(* first-in-first-out queue of messages, and one owner for each buffer.    *)
(* The radio fills a buffer, hands it over as a message only in exchange   *)
(* for another one, and the stack gets every message once.                 *)
(***************************************************************************)
EXTENDS Sequences

CONSTANTS Buf, State, NULL, Received   (* Received: the radio's messages   *)

VARIABLES
  queue,   (* the messages: pairs of a buffer and a state                  *)
  free,    (* the buffers nobody owns                                      *)
  held,    (* those the stack and the application own                      *)
  rx       (* the one the radio receives into                              *)

qVars == <<queue, free, held, rx>>

Init == queue = <<>> /\ free = Buf /\ held = {} /\ rx = NULL

GiveRadio ==
  /\ rx = NULL
  /\ \E b \in free : rx' = b /\ free' = free \ {b}
  /\ UNCHANGED <<queue, held>>

Receive ==
  /\ rx # NULL
  /\ queue' = Append(queue, <<rx, Received>>)
  /\ \E b \in free : rx' = b /\ free' = free \ {b}
  /\ UNCHANGED held

Take ==
  /\ \E b \in free : held' = held \cup {b} /\ free' = free \ {b}
  /\ UNCHANGED <<queue, rx>>

Release ==
  /\ \E b \in held : held' = held \ {b} /\ free' = free \cup {b}
  /\ UNCHANGED <<queue, rx>>

Send ==
  /\ \E b \in held, m \in State : held' = held \ {b} /\ queue' = Append(queue, <<b, m>>)
  /\ UNCHANGED <<free, rx>>

Deliver ==
  /\ queue # <<>>
  /\ queue' = Tail(queue)
  /\ held' = held \cup {Head(queue)[1]}
  /\ UNCHANGED <<free, rx>>

Next == GiveRadio \/ Receive \/ Take \/ Release \/ Send \/ Deliver

Spec == Init /\ [][Next]_qVars
=============================================================================
