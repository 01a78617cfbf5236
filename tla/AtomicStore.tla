----------------------------- MODULE AtomicStore -----------------------------
(***************************************************************************)
(* What an NV item module promises its callers: a dictionary.  A write     *)
(* takes effect at one instant between its call and its return, or not at  *)
(* all: when it returns an error, or when the supply fails first.  A read  *)
(* is a look at kv.  Nothing but a write of an item changes its value, and *)
(* nothing but a reset of the module removes it.  A reset is not atomic:   *)
(* until it returns the items may show values they had before.             *)
(*                                                                         *)
(* With CrashReverts one item may be lost or go back when the supply fails. *)
(***************************************************************************)
CONSTANTS Ids, Vals, None, CrashReverts

VARIABLES
  kv,    (* the value of each item, or None                                *)
  call,  (* the call in progress                                           *)
  res    (* what the last call returned                                    *)

Idle        == [kind |-> "none"]
Write(i, v) == [kind |-> "write", id |-> i, val |-> v]
Reset       == [kind |-> "reset"]
Empty       == [i \in Ids |-> None]

Init == kv = Empty /\ call = Idle /\ res = "none"

Begin(c) == call = Idle /\ call' = c /\ res' = "none" /\ kv' = kv

Stores == call.kind = "write" /\ kv' = [kv EXCEPT ![call.id] = call.val]
Clears == call = Reset /\ kv' = Empty

Resurfaces == call = Reset /\ kv' \in [Ids -> Vals \cup {None}]

Commit == (Stores \/ Resurfaces) /\ UNCHANGED <<call, res>>

(* Success is reported only of an effect that took place.                  *)
EndOk    == (Stores \/ Clears) /\ call' = Idle /\ res' = "ok"
EndError == call.kind = "write" /\ kv' = kv /\ call' = Idle /\ res' = "error"
Reverts  == /\ CrashReverts
            /\ \E i \in Ids, v \in Vals \cup {None} : kv' = [kv EXCEPT ![i] = v]
Crash    == (kv' = kv \/ Reverts) /\ call' = Idle /\ res' = "none"

Next ==
  \/ \E i \in Ids, v \in Vals : Begin(Write(i, v))
  \/ Begin(Reset)
  \/ Commit
  \/ EndOk
  \/ EndError
  \/ Crash

Spec == Init /\ [][Next]_<<kv, call, res>>
=============================================================================
