------------------------------ MODULE EvBuffer ------------------------------
(***************************************************************************)
(* The event buffers (proj/os/ev_buffer.c): a pool of buffers, each with a *)
(* table of states, and a queue of messages threaded through them.  A      *)
(* message is a buffer and the layer it is for; buf_message_post sets that *)
(* state of the buffer and links it, buf_message_poll takes the head.      *)
(*                                                                         *)
(* Every operation disables interrupts: one step each.                     *)
(*                                                                         *)
(* A buffer has one link here.  The radio posts a pointer 128 bytes into   *)
(* its buffer, so that its link and table lie in the room before the       *)
(* frame; as a buffer is one message at a time, either serves.             *)
(***************************************************************************)
EXTENDS Integers

CONSTANTS
  Buf,        (* the buffers: 0..BUFFER_NUM - 1 (14)                       *)
  State,      (* the states that are messages, PHY2MAC (1) .. MAC2CSMA (7) *)
  NULL

ASSUME BufferAssumption ==
  /\ Buf \subseteq Nat /\ State \subseteq Nat /\ State # {}
  /\ NULL \notin Buf

VARIABLES
  busy,       (* the buffers in state BUSY                                 *)
  tbl,        (* the other states set in the table of each buffer          *)
  next,       (* the link of each buffer                                   *)
  head, tail, num   (* ev_pool                                             *)

queueVars == <<tbl, next, head, tail, num>>
poolVars  == <<busy, queueVars>>

Lowest(S) == CHOOSE x \in S : \A y \in S : x <= y

ev_buf_reset ==
  /\ busy = {}
  /\ tbl = [b \in Buf |-> {}]
  /\ next = [b \in Buf |-> NULL]
  /\ head = NULL /\ tail = NULL /\ num = 0

(* The first buffer that is not busy; none returns NULL. *)
Available == Buf \ busy

Claim_Unmarked(b) == (* mutant: BUSY is not set *)
  Available # {} /\ b = Lowest(Available) /\ busy' = busy
Claim(b) ==
  Available # {} /\ b = Lowest(Available) /\ busy' = busy \cup {b}

ev_buf_allocate(b) == Claim(b) /\ UNCHANGED queueVars

(* Neither the states nor the queue are looked at. *)
ev_buf_free(b) == busy' = busy \ {b} /\ UNCHANGED queueVars

(* buf_message_post; the radio's handler also allocates in the same step.  *)
IsEmpty_ByTail == tail = NULL (* mutant: poll does not reset the tail *)
IsEmpty == head = NULL

Counted_Not == num (* mutant: the message is not counted *)
Counted == num + 1

Enqueue(b, m) ==
  /\ tbl' = [tbl EXCEPT ![b] = @ \cup {m}]
  /\ tail' = b
  /\ \/ IsEmpty /\ head' = b /\ next' = [next EXCEPT ![b] = NULL]
     \/ ~IsEmpty /\ head' = head /\ next' = [next EXCEPT ![b] = NULL, ![tail] = b]
  /\ num' = Counted

buf_message_post(b, m) == Enqueue(b, m) /\ UNCHANGED busy

(* The lowest state of the head is its message. *)
buf_message_poll_Uncounted(b) == (* mutant: num is not decremented *)
  /\ head = b /\ tbl[b] # {}
  /\ tbl' = [tbl EXCEPT ![b] = @ \ {Lowest(@)}]
  /\ head' = next[b]
  /\ next' = [next EXCEPT ![b] = NULL]
  /\ UNCHANGED <<busy, tail, num>>

buf_message_poll(b) ==
  /\ head = b /\ tbl[b] # {}
  /\ tbl' = [tbl EXCEPT ![b] = @ \ {Lowest(@)}]
  /\ head' = next[b]
  /\ next' = [next EXCEPT ![b] = NULL]
  /\ num' = num - 1
  /\ UNCHANGED <<busy, tail>>

ev_isTaskDone == num = 0
=============================================================================
