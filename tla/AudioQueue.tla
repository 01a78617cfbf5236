----------------------------- MODULE AudioQueue -----------------------------
(***************************************************************************)
(* What the ring of recorded packets promises the sender of the audio      *)
(* data: a first-in-first-out queue of at most Capacity packets that drops *)
(* the oldest packet to make room for a new one.                           *)
(*                                                                         *)
(* The one exception is the start of a session on the TL321X: while the    *)
(* first packets of the microphone are skipped, packets that were left in  *)
(* the queue are replaced by others.                                       *)
(***************************************************************************)
EXTENDS Naturals, Sequences

CONSTANTS Packet, Capacity, Discards, None

VARIABLES
  queue,   (* the packets to be sent, the oldest first                     *)
  out,     (* the packet taken last                                        *)
  skip     (* packets of the microphone still to be skipped                *)

qVars == <<queue, out, skip>>

Init == queue = <<>> /\ out = None /\ skip = 0

(* What the queue may be after a pass of the recorder. *)
Recorded ==
  {queue} \cup {Append(IF Len(queue) < Capacity THEN queue ELSE Tail(queue), p) : p \in Packet}

Pass ==
  /\ \E now \in Recorded :
       \/ queue' = now /\ out' = out
       \/ now # <<>> /\ out' = Head(now) /\ queue' = Tail(now)
  /\ UNCHANGED skip

Skip ==
  /\ skip > 0
  /\ skip' = skip - 1
  /\ queue' \in [1..Len(queue) -> Packet]
  /\ UNCHANGED out

Open ==
  /\ skip' = Discards
  /\ UNCHANGED <<queue, out>>

Next == Pass \/ Skip \/ Open

Spec == Init /\ [][Next]_qVars
=============================================================================
