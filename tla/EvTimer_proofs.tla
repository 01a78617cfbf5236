--------------------------- MODULE EvTimer_proofs ---------------------------
(***************************************************************************)
(* Proofs about the software timers, for every number of slots, every set  *)
(* of clients and every choice of those that start timers from an          *)
(* interrupt or keep a handle their callback should have cleared.          *)
(*                                                                         *)
(* The inductive invariant has two parts.  Owned holds whatever the        *)
(* interrupt and the kept handles do: an armed slot belongs to a running   *)
(* timer.  Kept is its converse, a running timer has an armed slot, and    *)
(* needs that no interrupt came inside a window and that no kept handle    *)
(* was cancelled.                                                          *)
(*                                                                         *)
(* That a search finds a slot is a count of the slots that are taken and   *)
(* of the handles that can still cancel a free one: Counted, with the      *)
(* state of the table (Table) it rests on.                                 *)
(***************************************************************************)
EXTENDS EvTimer, FiniteSetTheorems, NaturalsInduction, TLAPS

Claiming ==
  claim.at # "none" =>
    /\ main.at \in {"app", "call"}
    /\ claim.who \in Clients \ Isr
    /\ handle[claim.who] = None /\ claim.who # main.who
    /\ claim.at = "claimed" => busy[claim.slot] = 1 /\ cb[claim.slot] = claim.who

Calling ==
  main.at = "call" => main.who \in Clients /\ handle[main.who] \in {None, main.slot}

(* A slot that is armed, but for the one the main loop is arming. *)
Owned ==
  \A s \in Slot :
    valid[s] = 1 /\ ~(claim.at = "claimed" /\ claim.slot = s) =>
      cb[s] \in runs /\ handle[cb[s]] = s

(* The slot the main loop is at is as its last step left it. *)
Undisturbed ==
  /\ claim.at = "found" => busy[claim.slot] = 0
  /\ main.at = "freeing" => valid[main.slot] = 2
  /\ main.at = "call" => busy[main.slot] # 0 /\ cb[main.slot] = main.who

Kept == ~raced /\ ~stolen => EveryTimerKept /\ Undisturbed

(* The types but for the two flags and the count of starts. *)
Types ==
  /\ valid \in [Slot -> 0..2] /\ busy \in [Slot -> 0..2]
  /\ cb \in [Slot -> Clients \cup {None}]
  /\ pos \in Slot /\ due \subseteq Slot
  /\ main \in [at : {"app", "free", "freeing", "scan", "call"}, slot : Slot,
               who : Clients \cup {None}]
  /\ claim \in [at : {"none", "search", "found", "claimed"}, slot : Slot,
                who : Clients \cup {None}]
  /\ handle \in [Clients -> Slot \cup {None}]
  /\ runs \subseteq Clients

Rest == raced \in BOOLEAN /\ stolen \in BOOLEAN

Inv == Types /\ starts \in 0..MaxStarts /\ Claiming /\ Calling /\ Owned

IInv == Inv /\ Kept /\ Rest

-----------------------------------------------------------------------------
(* The table is not empty, and a search that succeeds finds a free slot.   *)

(* A set of natural numbers that is not empty has a least one.             *)
LEMMA Least ==
  ASSUME NEW T, T \subseteq Nat, T # {}
  PROVE  \E n \in T : \A k \in T : n <= k
<1>1. PICK n \in T : \A k \in T : ~(<<k, n>> \in OpToRel(<, Nat))
  BY WFMin, NatLessThanWellFounded, Zenon
<1>2. \A k \in T : ~(k < n)
  BY <1>1, Zenon DEF OpToRel
<1> QED BY <1>2

(* The search ends at a free slot, wherever it begins.                     *)
LEMMA Found ==
  ASSUME pos \in Slot, FreeSlots # {}
  PROVE  FirstFree \in FreeSlots
<1> DEFINE T == {Distance(s) : s \in FreeSlots}
<1>1. \A s \in FreeSlots : Distance(s) \in Nat
  BY TimerAssumption DEF FreeSlots, Slot, Distance
<1>2. T \subseteq Nat /\ T # {}
  BY <1>1
<1>3. PICK n \in T : \A k \in T : n <= k
  BY <1>2, Least
<1>4. PICK s \in FreeSlots : n = Distance(s)
  BY <1>3
<1>5. \A u \in FreeSlots : Distance(s) <= Distance(u)
  BY <1>3, <1>4
<1> QED BY <1>5 DEF FirstFree

(* Facts about the constants.                                              *)
LEMMA Slots ==
  /\ 0 \in Slot /\ N \in Nat \ {0} /\ None \notin Clients /\ None \notin Slot
  /\ \A s \in Slot : NextPos(s) \in Slot /\ (s # N - 1 => s + 1 \in Slot)
BY TimerAssumption DEF Slot, NextPos

(* Where a pass of the table goes.                                         *)
LEMMA Goes ==
  ASSUME NEW at, NEW end, main.slot \in Slot, NextSlot(at, end)
  PROVE  /\ main'.at \in {at, end} /\ main'.slot \in Slot /\ main'.who = None
         /\ main' = [at |-> main'.at, slot |-> main'.slot, who |-> None]
BY Slots DEF NextSlot, Goto

-----------------------------------------------------------------------------
(* Timers are started and stopped.                                         *)

(* A stop cancels the slot of its own timer or, through a kept handle,     *)
(* somebody else's, which stolen remembers.                                *)
LEMMA StopStep ==
  ASSUME Inv, Kept, NEW c \in Clients, ev_unon_timer(c), Running,
         handle' = [handle EXCEPT ![c] = None], runs' = runs \ {c},
         UNCHANGED <<pos, main, raced>>,
         \/ claim' = claim
         \/ claim' = [at |-> "search", slot |-> 0, who |-> c] /\ c # Current /\ c \notin Isr,
         starts' \in 0..MaxStarts
  PROVE  Inv' /\ Kept'
<1> USE Slots DEF Inv, Types, Running, Current
<1>1. Types' /\ Claiming' /\ Calling'
  BY DEF ev_unon_timer, Cancel, Claiming, Calling
<1>2. Owned'
  BY DEF ev_unon_timer, Cancel, Owned
<1>3. CASE handle[c] = None
  BY <1>1, <1>2, <1>3 DEF ev_unon_timer, Kept, EveryTimerKept, Armed, Undisturbed
<1>4. CASE handle[c] # None
  <2>1. /\ valid' = [valid EXCEPT ![handle[c]] = 2] /\ busy' = [busy EXCEPT ![handle[c]] = 2]
        /\ cb' = cb /\ handle[c] \in Slot
    BY <1>4 DEF ev_unon_timer, Cancel
  <2>2. ~raced' /\ ~stolen' => ~raced /\ ~stolen /\ c \in runs
    BY <1>4 DEF ev_unon_timer
  <2>3. ~raced' /\ ~stolen' => EveryTimerKept' /\ Undisturbed'
    BY <2>1, <2>2 DEF Kept, EveryTimerKept, Armed, Undisturbed
  <2> QED BY <1>1, <1>2, <2>3 DEF Kept
<1> QED BY <1>3, <1>4

(* The search finds a slot and claims it.                                  *)
LEMMA ClaimStep ==
  ASSUME Inv, Kept, FindSlot \/ ClaimSlot \/ start_timer
  PROVE  Inv' /\ Kept'
<1> USE Slots DEF Inv, Types, slots, NoClaim
<1>1. CASE FindSlot
  <2>1. FirstFree \in Slot /\ busy[FirstFree] = 0
    BY <1>1, Found DEF FindSlot, FreeSlots
  <2>2. Types' /\ Claiming' /\ Calling'
    BY <1>1, <2>1 DEF FindSlot, Claiming, Calling
  <2>3. Owned'
    BY <1>1, <2>1 DEF FindSlot, Owned
  <2>4. Kept'
    BY <1>1, <2>1 DEF FindSlot, Kept, EveryTimerKept, Armed, Undisturbed
  <2> QED BY <1>1, <2>2, <2>3, <2>4 DEF FindSlot
<1>2. CASE ClaimSlot
  <2>1. Types' /\ Claiming' /\ Calling'
    BY <1>2 DEF ClaimSlot, Claiming, Calling
  <2>2. Owned'
    BY <1>2 DEF ClaimSlot, Owned
  <2>3. Kept'
    BY <1>2 DEF ClaimSlot, Kept, EveryTimerKept, Armed, Undisturbed
  <2> QED BY <1>2, <2>1, <2>2, <2>3 DEF ClaimSlot
<1>3. CASE start_timer
  <2>1. Types' /\ Claiming' /\ Calling'
    BY <1>3 DEF start_timer, Claiming, Calling
  <2>2. Owned'
    BY <1>3 DEF start_timer, Owned, Claiming
  <2>3. Kept'
    BY <1>3 DEF start_timer, Kept, EveryTimerKept, Armed, Undisturbed, Claiming
  <2> QED BY <1>3, <2>1, <2>2, <2>3 DEF start_timer
<1> QED BY <1>1, <1>2, <1>3

(* An interrupt takes a free slot; inside a window raced remembers it.     *)
LEMMA IsrStep ==
  ASSUME Inv, Kept, NEW c \in Clients, IsrStart(c)
  PROVE  Inv' /\ Kept'
<1> USE Slots DEF Inv, Types, Current
<1>1. PICK s \in Slot :
        /\ s = FirstFree /\ busy[s] = 0
        /\ busy' = [busy EXCEPT ![s] = 1] /\ valid' = [valid EXCEPT ![s] = 1]
        /\ cb' = [cb EXCEPT ![s] = c] /\ due' = due \ {s} /\ pos' = NextPos(s)
        /\ handle' = [handle EXCEPT ![c] = s]
  BY Found DEF IsrStart, FreeSlots
<1>2. /\ c \in Isr /\ handle[c] = None /\ c # main.who /\ runs' = runs \cup {c}
      /\ UNCHANGED <<main, claim>>
  BY DEF IsrStart
<1>3. Types' /\ Claiming' /\ Calling'
  BY <1>1, <1>2 DEF Claiming, Calling
<1>4. Owned'
  BY <1>1, <1>2 DEF Owned, Claiming
<1>5. Kept'
  <2>1. ~raced' /\ ~stolen' => ~raced /\ ~stolen /\ claim.at # "found" /\ main.at # "freeing"
    BY DEF IsrStart, InWindow
  <2> QED BY <1>1, <1>2, <2>1 DEF Kept, EveryTimerKept, Armed, Undisturbed
<1>6. starts' \in 0..MaxStarts
  BY TimerAssumption DEF IsrStart
<1> QED BY <1>3, <1>4, <1>5, <1>6

-----------------------------------------------------------------------------
(* The main loop goes through the table.                                   *)

(* Cancelled slots are freed.                                              *)
LEMMA FreeStep ==
  ASSUME Inv, Kept, ProcessBegin \/ SkipFree \/ ClearBusy \/ ClearValid
  PROVE  Inv' /\ Kept'
<1> USE Slots DEF Inv, Types, slots
<1>1. CASE ProcessBegin
  <2>1. main' = [at |-> "free", slot |-> 0, who |-> None]
    BY <1>1 DEF ProcessBegin, Goto
  <2>2. Types' /\ Claiming' /\ Calling' /\ Owned'
    BY <1>1, <2>1 DEF ProcessBegin, Claiming, Calling, Owned
  <2>3. Kept'
    BY <1>1, <2>1 DEF ProcessBegin, Kept, EveryTimerKept, Armed, Undisturbed
  <2> QED BY <1>1, <2>2, <2>3 DEF ProcessBegin
<1>2. CASE SkipFree \/ ClearValid
  <2>1. /\ main.at \in {"free", "freeing"} /\ NextSlot("free", "scan")
        /\ starts' = 0 \/ starts' = starts
        /\ UNCHANGED <<busy, cb, due, pos, claim, handle, runs, raced, stolen>>
    BY <1>2 DEF SkipFree, ClearValid, NextFree
  <2>0. valid' = valid \/ (main.at = "freeing" /\ valid' = [valid EXCEPT ![main.slot] = 0])
    BY <1>2, Zenon DEF SkipFree, ClearValid
  <2>2. main' \in [at : {"free", "scan"}, slot : Slot, who : {None}]
    BY <2>1, Goes
  <2>3. claim.at = "none"
    BY <2>1 DEF Claiming
  <2>4. Types' /\ Claiming' /\ Calling' /\ Owned'
    BY <2>0, <2>1, <2>2, <2>3 DEF Claiming, Calling, Owned
  <2>5. Kept'
    BY <2>0, <2>1, <2>2, <2>3 DEF Kept, EveryTimerKept, Armed, Undisturbed
  <2>6. starts' \in 0..MaxStarts
    BY <2>1, TimerAssumption
  <2> QED BY <2>4, <2>5, <2>6
<1>3. CASE ClearBusy
  <2>1. main' = [at |-> "freeing", slot |-> main.slot, who |-> None] /\ claim.at = "none"
    BY <1>3 DEF ClearBusy, Goto, Claiming
  <2>2. Types' /\ Claiming' /\ Calling' /\ Owned'
    BY <1>3, <2>1 DEF ClearBusy, Claiming, Calling, Owned
  <2>3. Kept'
    BY <1>3, <2>1 DEF ClearBusy, Kept, EveryTimerKept, Armed, Undisturbed
  <2> QED BY <1>3, <2>2, <2>3 DEF ClearBusy
<1> QED BY <1>1, <1>2, <1>3

(* A timer that has expired belongs to its client.                         *)
LEMMA FiresRunning ==
  ASSUME Inv, Callback
  PROVE  claim.at = "none" /\ main'.at = "call" /\ main'.slot = main.slot
         /\ main'.who = cb[main.slot] /\ main'.who \in runs /\ handle[main'.who] = main.slot
<1>1. claim.at = "none"
  BY DEF Callback, Inv, Claiming
<1> QED BY <1>1, Slots DEF Callback, Expired, Inv, Types, Owned

(* Expired timers are called back, and a callback ends its timer or not.   *)
LEMMA ScanStep ==
  ASSUME Inv, Kept, SkipScan \/ Callback \/ ReturnAgain \/ ReturnStop
  PROVE  Inv' /\ Kept'
<1> USE Slots DEF Inv, Types, slots
<1>1. CASE Callback
  <2>1. main' = [main EXCEPT !.at = "call", !.who = cb[main.slot]]
    BY <1>1 DEF Callback
  <2>2. Types' /\ Claiming' /\ Calling' /\ Owned'
    BY <1>1, <2>1, FiresRunning DEF Callback, Claiming, Calling, Owned
  <2>3. Kept'
    BY <1>1, <2>1, FiresRunning DEF Callback, Kept, EveryTimerKept, Armed, Undisturbed
  <2> QED BY <1>1, <2>2, <2>3 DEF Callback
<1>2. CASE SkipScan \/ ReturnAgain
  <2>1. /\ NextSlot("scan", "app") /\ claim.at = "none"
        /\ UNCHANGED <<valid, busy, cb, due, pos, claim, handle, runs, raced, stolen, starts>>
    BY <1>2 DEF SkipScan, ReturnAgain, Claiming
  <2>2. main' \in [at : {"scan", "app"}, slot : Slot, who : {None}]
    BY <2>1, Goes
  <2>3. Types' /\ Claiming' /\ Calling' /\ Owned'
    BY <2>1, <2>2 DEF Claiming, Calling, Owned
  <2>4. Kept'
    BY <2>1, <2>2 DEF Kept, EveryTimerKept, Armed, Undisturbed
  <2> QED BY <2>1, <2>3, <2>4
<1>3. CASE ReturnStop
  <2>1. /\ NextSlot("scan", "app") /\ main.at = "call" /\ claim.at = "none"
        /\ valid' = [valid EXCEPT ![main.slot] = 2] /\ busy' = [busy EXCEPT ![main.slot] = 2]
        /\ handle' = [handle EXCEPT ![main.who] = None] \/ handle' = handle
        /\ runs' = runs \ {main.who}
        /\ UNCHANGED <<cb, due, pos, claim, raced, stolen, starts>>
    BY <1>3 DEF ReturnStop, Cancel, Current
  <2>2. main' \in [at : {"scan", "app"}, slot : Slot, who : {None}]
    BY <2>1, Goes
  <2>3. Types' /\ Claiming' /\ Calling'
    BY <2>1, <2>2 DEF Claiming, Calling
  <2>4. Owned'
    BY <2>1, <2>2 DEF Calling, Owned
  <2>5. Kept'
    BY <2>1, <2>2 DEF Kept, EveryTimerKept, Armed, Undisturbed
  <2> QED BY <2>1, <2>3, <2>4, <2>5
<1> QED BY <1>1, <1>2, <1>3

-----------------------------------------------------------------------------
(* The theorems.                                                           *)

(* At power-on every slot is free and every handle empty.                  *)
LEMMA InitIInv == Init => IInv
<1> SUFFICES ASSUME Init PROVE IInv
  OBVIOUS
<1> USE Slots DEF Init
<1>1. Types /\ Claiming /\ Calling /\ Owned
  BY DEF Types, Claiming, Calling, Owned, NoClaim
<1>2. Kept
  BY DEF Kept, EveryTimerKept, Undisturbed, NoClaim
<1>3. starts \in 0..MaxStarts
  BY TimerAssumption
<1>4. Rest
  BY Zenon DEF Rest
<1> QED BY <1>1, <1>2, <1>3, <1>4 DEF IInv, Inv

(* The two flags stay flags.                                               *)
LEMMA RestStep == Rest /\ [Next]_vars => Rest'
<1> SUFFICES ASSUME Rest, [Next]_vars PROVE Rest'
  OBVIOUS
<1>1. CASE raced' = raced /\ stolen' = stolen
  BY <1>1, Zenon DEF Rest
<1>2. ASSUME NEW c \in Clients, Start(c) \/ Stop(c) PROVE Rest'
  <2>1. raced' = raced /\ (stolen' = stolen \/ stolen' = (stolen \/ c \notin runs))
    BY <1>2, Zenon DEF Start, Stop, ev_unon_timer
  <2> QED BY <2>1, Zenon DEF Rest
<1>3. ASSUME NEW c \in Clients, IsrStart(c) PROVE Rest'
  BY <1>3, Zenon DEF IsrStart, Rest
<1>4. \/ raced' = raced /\ stolen' = stolen
      \/ \E c \in Clients : Start(c) \/ Stop(c) \/ IsrStart(c)
  BY Zenon DEF Next, vars, FindSlot, ClaimSlot, start_timer, ProcessBegin, SkipFree, ClearBusy,
     ClearValid, SkipScan, Callback, ReturnAgain, ReturnStop
<1> QED BY <1>1, <1>2, <1>3, <1>4

(* Every step keeps the invariant.                                         *)
LEMMA InvStep == Inv /\ Kept /\ [Next]_vars => Inv' /\ Kept'
<1> SUFFICES ASSUME Inv, Kept, [Next]_vars PROVE Inv' /\ Kept'
  OBVIOUS
<1>1. CASE UNCHANGED vars
  <2>1. UNCHANGED <<valid, busy, cb, due, pos, main, claim, handle, runs, raced, stolen, starts>>
    BY <1>1 DEF vars, slots
  <2>2. Types' /\ starts' \in 0..MaxStarts /\ Claiming' /\ Calling' /\ Owned'
    BY <2>1 DEF Inv, Types, Claiming, Calling, Owned
  <2>3. Kept'
    BY <2>1 DEF Kept, EveryTimerKept, Armed, Undisturbed
  <2> QED BY <2>2, <2>3 DEF Inv
<1>2. ASSUME NEW c \in Clients, Start(c) PROVE Inv' /\ Kept'
  <2>1. starts' \in 0..MaxStarts
    BY <1>2, TimerAssumption DEF Start, Inv
  <2> QED BY <1>2, <2>1, StopStep DEF Start
<1>3. ASSUME NEW c \in Clients, Stop(c) PROVE Inv' /\ Kept'
  <2>1. starts' \in 0..MaxStarts
    BY <1>3 DEF Stop, Inv
  <2> QED BY <1>3, <2>1, StopStep DEF Stop
<1>4. ASSUME NEW c \in Clients, IsrStart(c) PROVE Inv' /\ Kept'
  BY <1>4, IsrStep
<1>5. CASE FindSlot \/ ClaimSlot \/ start_timer
  BY <1>5, ClaimStep
<1>6. CASE ProcessBegin \/ SkipFree \/ ClearBusy \/ ClearValid
  BY <1>6, FreeStep
<1>7. CASE SkipScan \/ Callback \/ ReturnAgain \/ ReturnStop
  BY <1>7, ScanStep
<1> QED BY <1>1, <1>2, <1>3, <1>4, <1>5, <1>6, <1>7 DEF Next

(* The inductive invariant holds in every state.                           *)
THEOREM Invariance == Spec => []IInv
<1>1. IInv /\ [Next]_vars => IInv'
  BY InvStep, RestStep DEF IInv
<1> QED BY <1>1, InitIInv, PTL DEF Spec

(* Every variable has its type: the search for a slot stays on the table   *)
(* (timer_event.c:91-106).                                                 *)
THEOREM TypeTheorem == Spec => []TypeOK
<1>1. IInv => TypeOK
  BY DEF IInv, Inv, Types, Rest, TypeOK
<1> QED BY <1>1, Invariance, PTL

(* A running timer keeps its slot, whoever starts and stops timers, unless *)
(* an interrupt came inside one of the two windows or a handle was kept    *)
(* (timer_event.c:94-95, 203-204, app_data.c:121).                         *)
THEOREM TimerKeptTheorem == Spec => []TimerKept
<1>1. IInv => TimerKept
  BY DEF IInv, Kept, TimerKept
<1> QED BY <1>1, Invariance, PTL

(* A timer that was stopped does not fire, not even after an interrupt     *)
(* inside a window or through a kept handle (timer_event.c:218-219).       *)
THEOREM NoFireAfterStopTheorem == Spec => NoFireAfterStop
<1>1. ASSUME IInv, [Next]_vars, main.at # "call", main'.at = "call"
      PROVE  main'.who \in runs
  <2>1. CASE Callback
    BY <1>1, <2>1, FiresRunning DEF IInv
  <2>2. CASE UNCHANGED main
    BY <1>1, <2>2
  <2>3. CASE SkipFree \/ ClearValid \/ SkipScan \/ ReturnAgain \/ ReturnStop
    <3>1. NextSlot("free", "scan") \/ NextSlot("scan", "app")
      BY <2>3 DEF SkipFree, ClearValid, SkipScan, ReturnAgain, ReturnStop, NextFree
    <3>2. main.slot \in Slot
      BY <1>1 DEF IInv, Inv, Types
    <3> QED BY <1>1, <3>1, <3>2, Goes
  <2>4. CASE ProcessBegin \/ ClearBusy
    BY <1>1, <2>4 DEF ProcessBegin, ClearBusy, Goto
  <2> QED BY <1>1, <2>1, <2>2, <2>3, <2>4 DEF Next, vars, Start, Stop, IsrStart, FindSlot,
          ClaimSlot, start_timer
<1>2. IInv /\ [Next]_vars =>
        [main.at # "call" /\ main'.at = "call" => main'.who \in runs]_vars
  BY <1>1
<1> QED BY <1>2, Invariance, PTL DEF Spec, NoFireAfterStop

-----------------------------------------------------------------------------
(* The table does not fill up.                                             *)

Sweeping == main.at \in {"free", "freeing"}

(* Which slots are taken, and by whom.  A slot that is cancelled waits for *)
(* the sweep, which leaves none behind it.                                 *)
ArmedTaken == \A s \in Slot : valid[s] = 1 => busy[s] = 1
Marked     == \A s \in Slot : busy[s] = 2 => valid[s] = 2
CalledBusy == main.at = "call" => busy[main.slot] # 0
Held       == \A s \in Slot : busy[s] = 1 =>
                \/ \E c \in Clients : handle[c] = s
                \/ claim.at = "claimed" /\ claim.slot = s
Behind     == Sweeping => \A s \in 0..(main.slot - 1) : busy[s] # 2
Freed      == main.at = "freeing" => busy[main.slot] # 2

Table == ArmedTaken /\ Marked /\ CalledBusy /\ Held /\ Behind /\ Freed

(* A timer is stopped: its slot waits for the sweep.                       *)
LEMMA StopTable ==
  ASSUME Inv, Table, NEW c \in Clients, Start(c) \/ Stop(c)
  PROVE  Table'
<1> USE Slots DEF Inv, Types
<1>1. /\ main' = main /\ main.at \in {"app", "call"} /\ claim.at = "none" /\ claim'.at # "claimed"
      /\ handle' = [handle EXCEPT ![c] = None] /\ ev_unon_timer(c)
  BY DEF Start, Stop, Running
<1>2. CASE handle[c] = None
  BY <1>1, <1>2 DEF ev_unon_timer, Table, ArmedTaken, Marked, CalledBusy, Held, Behind, Freed,
     Sweeping
<1>3. CASE handle[c] # None
  <2>1. /\ handle[c] \in Slot
        /\ valid' = [valid EXCEPT ![handle[c]] = 2] /\ busy' = [busy EXCEPT ![handle[c]] = 2]
    BY <1>1, <1>3 DEF ev_unon_timer, Cancel
  <2>2. ArmedTaken' /\ Marked' /\ CalledBusy'
    BY <1>1, <2>1 DEF Table, ArmedTaken, Marked, CalledBusy
  <2>3. Held'
    BY <1>1, <2>1 DEF Table, Held
  <2>4. Behind' /\ Freed'
    BY <1>1 DEF Behind, Freed, Sweeping
  <2> QED BY <2>2, <2>3, <2>4 DEF Table
<1> QED BY <1>2, <1>3

(* A slot is found, taken and armed.                                       *)
LEMMA ClaimTable ==
  ASSUME Inv, Table, FindSlot \/ ClaimSlot \/ start_timer
  PROVE  Table'
<1> USE Slots DEF Inv, Types, slots, NoClaim
<1>1. main' = main /\ claim.at # "none" /\ main.at \in {"app", "call"}
  BY DEF FindSlot, ClaimSlot, start_timer, Claiming
<1>2. CASE FindSlot
  BY <1>1, <1>2 DEF FindSlot, Table, ArmedTaken, Marked, CalledBusy, Held, Behind, Freed, Sweeping
<1>3. CASE ClaimSlot
  <2>1. ArmedTaken' /\ Marked' /\ CalledBusy'
    BY <1>1, <1>3 DEF ClaimSlot, Table, ArmedTaken, Marked, CalledBusy
  <2>2. Held'
    BY <1>1, <1>3 DEF ClaimSlot, Table, Held
  <2>3. Behind' /\ Freed'
    BY <1>1 DEF Behind, Freed, Sweeping
  <2> QED BY <2>1, <2>2, <2>3 DEF Table
<1>4. CASE start_timer
  <2>1. busy[claim.slot] = 1 /\ handle[claim.who] = None /\ claim.who \in Clients
    BY <1>4 DEF start_timer, Claiming
  <2>2. ArmedTaken' /\ Marked' /\ CalledBusy'
    BY <1>1, <1>4, <2>1 DEF start_timer, Table, ArmedTaken, Marked, CalledBusy
  <2>3. Held'
    BY <1>1, <1>4, <2>1 DEF start_timer, Table, Held
  <2>4. Behind' /\ Freed'
    BY <1>1 DEF Behind, Freed, Sweeping
  <2> QED BY <2>2, <2>3, <2>4 DEF Table
<1> QED BY <1>2, <1>3, <1>4

(* An interrupt takes a slot, even the one that is being freed.            *)
LEMMA IsrTable ==
  ASSUME Inv, Table, NEW c \in Clients, IsrStart(c)
  PROVE  Table'
<1> USE Slots DEF Inv, Types
<1>1. PICK s \in Slot :
        /\ busy[s] = 0
        /\ busy' = [busy EXCEPT ![s] = 1] /\ valid' = [valid EXCEPT ![s] = 1]
        /\ handle' = [handle EXCEPT ![c] = s]
  BY Found DEF IsrStart, FreeSlots
<1>2. handle[c] = None /\ UNCHANGED <<main, claim>>
  BY DEF IsrStart
<1>3. ArmedTaken' /\ Marked' /\ CalledBusy'
  BY <1>1, <1>2 DEF Table, ArmedTaken, Marked, CalledBusy
<1>4. Held'
  BY <1>1, <1>2 DEF Table, Held
<1>5. Freed'
  BY <1>1, <1>2 DEF Table, Freed
<1>6. Behind'
  BY <1>1, <1>2 DEF Table, Behind, Sweeping, Slot
<1> QED BY <1>3, <1>4, <1>5, <1>6 DEF Table

(* The sweep: a slot behind it is free or taken.                           *)
LEMMA SweepTable ==
  ASSUME Inv, Table, ProcessBegin \/ SkipFree \/ ClearBusy \/ ClearValid
  PROVE  /\ Table'
         /\ ~Sweeping' => claim' = claim /\ claim.at = "none" /\ \A s \in Slot : busy'[s] # 2
<1> USE Slots DEF Inv, Types, slots
<1>0. claim' = claim /\ claim.at = "none" /\ handle' = handle
  BY DEF ProcessBegin, SkipFree, ClearBusy, ClearValid, Claiming
<1>1. CASE ProcessBegin
  <2>1. main' = [at |-> "free", slot |-> 0, who |-> None] /\ UNCHANGED <<valid, busy>>
    BY <1>1 DEF ProcessBegin, Goto
  <2>2. Behind' /\ Freed' /\ CalledBusy' /\ Sweeping'
    BY <2>1 DEF Behind, Freed, CalledBusy, Sweeping
  <2>3. ArmedTaken' /\ Marked' /\ Held'
    BY <1>0, <2>1 DEF Table, ArmedTaken, Marked, Held
  <2> QED BY <2>2, <2>3 DEF Table
<1>2. CASE ClearBusy
  <2>1. /\ main' = [at |-> "freeing", slot |-> main.slot, who |-> None] /\ main.at = "free"
        /\ valid[main.slot] = 2 /\ valid' = valid /\ busy' = [busy EXCEPT ![main.slot] = 0]
    BY <1>2 DEF ClearBusy, Goto
  <2>2. Freed' /\ CalledBusy' /\ Sweeping'
    BY <2>1 DEF Freed, CalledBusy, Sweeping
  <2>3. Behind'
    BY <2>1, TimerAssumption DEF Table, Behind, Sweeping, Slot
  <2>4. ArmedTaken' /\ Marked' /\ Held'
    BY <1>0, <2>1 DEF Table, ArmedTaken, Marked, Held
  <2> QED BY <2>2, <2>3, <2>4 DEF Table
<1>3. CASE SkipFree \/ ClearValid
  <2>1. /\ main.at \in {"free", "freeing"} /\ NextSlot("free", "scan") /\ busy' = busy
        /\ busy[main.slot] # 2
    BY <1>3 DEF SkipFree, ClearValid, NextFree, Table, Marked, Freed
  <2>2. valid' = valid \/ (main.at = "freeing" /\ valid' = [valid EXCEPT ![main.slot] = 0])
    BY <1>3, Zenon DEF SkipFree, ClearValid
  <2>3. main' \in [at : {"free", "scan"}, slot : Slot, who : {None}]
    BY <2>1, Goes
  <2>4. Freed' /\ CalledBusy'
    BY <2>3 DEF Freed, CalledBusy
  <2>5. \A s \in 0..main.slot : busy[s] # 2
    BY <2>1, TimerAssumption DEF Table, Behind, Sweeping, Slot
  <2>6. Behind' /\ (~Sweeping' => \A s \in Slot : busy'[s] # 2)
    <3>1. CASE main.slot = N - 1
      <4>1. main' = [at |-> "scan", slot |-> 0, who |-> None]
        BY <2>1, <3>1 DEF NextSlot, Goto
      <4>2. ~Sweeping'
        BY <4>1 DEF Sweeping
      <4> QED BY <2>1, <2>5, <3>1, <4>2 DEF Behind, Slot
    <3>2. CASE main.slot # N - 1
      <4>1. main' = [at |-> "free", slot |-> main.slot + 1, who |-> None]
        BY <2>1, <3>2 DEF NextSlot, Goto
      <4>2. \A s \in 0..(main'.slot - 1) : busy'[s] # 2
        BY <2>1, <2>5, <4>1, TimerAssumption DEF Slot
      <4>3. Sweeping'
        BY <4>1 DEF Sweeping
      <4> QED BY <4>2, <4>3 DEF Behind
    <3> QED BY <3>1, <3>2
  <2>7. ArmedTaken' /\ Marked' /\ Held'
    BY <1>0, <2>1, <2>2 DEF Table, ArmedTaken, Marked, Held
  <2> QED BY <1>0, <2>4, <2>6, <2>7 DEF Table
<1> QED BY <1>1, <1>2, <1>3

(* A callback runs with its slot taken, and may end its timer.             *)
LEMMA ScanTable ==
  ASSUME Inv, Table, SkipScan \/ Callback \/ ReturnAgain \/ ReturnStop
  PROVE  Table'
<1> USE Slots DEF Inv, Types, slots
<1>0. claim' = claim /\ claim.at = "none"
  BY DEF SkipScan, Callback, ReturnAgain, ReturnStop, Claiming
<1>1. CASE Callback
  <2>1. /\ main'.at = "call" /\ main'.slot = main.slot /\ UNCHANGED <<valid, busy, handle>>
        /\ valid[main.slot] = 1
    BY <1>1 DEF Callback, Expired
  <2> QED BY <1>0, <2>1 DEF Table, ArmedTaken, Marked, CalledBusy, Held, Behind, Freed, Sweeping
<1>2. CASE SkipScan \/ ReturnAgain
  <2>1. NextSlot("scan", "app") /\ UNCHANGED <<valid, busy, handle>>
    BY <1>2 DEF SkipScan, ReturnAgain
  <2>2. main'.at \in {"scan", "app"}
    BY <2>1, Goes
  <2> QED BY <1>0, <2>1, <2>2 DEF Table, ArmedTaken, Marked, CalledBusy, Held, Behind, Freed,
          Sweeping
<1>3. CASE ReturnStop
  <2>1. /\ NextSlot("scan", "app") /\ main.at = "call"
        /\ valid' = [valid EXCEPT ![main.slot] = 2] /\ busy' = [busy EXCEPT ![main.slot] = 2]
        /\ handle' = [handle EXCEPT ![main.who] = None] \/ handle' = handle
    BY <1>3 DEF ReturnStop, Cancel, Current
  <2>2. main'.at \in {"scan", "app"}
    BY <2>1, Goes
  <2>3. ArmedTaken' /\ Marked'
    BY <2>1 DEF Table, ArmedTaken, Marked
  <2>4. Held'
    BY <1>0, <2>1 DEF Table, Held, Calling
  <2>5. CalledBusy' /\ Behind' /\ Freed'
    BY <2>2 DEF CalledBusy, Behind, Freed, Sweeping
  <2> QED BY <2>3, <2>4, <2>5 DEF Table
<1> QED BY <1>1, <1>2, <1>3

-----------------------------------------------------------------------------
(* How many slots are taken.                                               *)

Taken == {s \in Slot : busy[s] # 0}

(* The clients with a handle of a slot that is free again, which they can  *)
(* still cancel, and those with a handle of a slot that is taken.          *)
Dangling == {c \in Clients : handle[c] # None /\ busy[handle[c]] = 0}
Holding  == {c \in Clients : handle[c] # None /\ busy[handle[c]] # 0}

Pending == IF claim.at \in {"search", "found"} THEN 1 ELSE 0

(* Outside the sweep a slot is taken by a client or was taken in this      *)
(* pass, and each handle that can cancel a free slot is counted before it  *)
(* does.                                                                   *)
Counted ==
  ~Sweeping =>
    Cardinality(Taken) + Cardinality(Dangling) + Pending <= Cardinality(Clients) + starts

(* A set that has at most one element more.                                *)
LEMMA GrowsByOne ==
  ASSUME NEW S, NEW T, NEW x, IsFiniteSet(T), S \subseteq T \cup {x}
  PROVE  Cardinality(S) \in Nat /\ Cardinality(S) <= Cardinality(T) + 1
<1>1. /\ IsFiniteSet(T \cup {x}) /\ Cardinality(T) \in Nat
      /\ Cardinality(T \cup {x}) <= Cardinality(T) + 1
  BY FS_AddElement, FS_CardinalityType
<1>2. IsFiniteSet(S) /\ Cardinality(S) <= Cardinality(T \cup {x})
  BY <1>1, FS_Subset
<1> QED BY <1>1, <1>2, FS_CardinalityType

(* A set that has no element more, and one that loses an element.          *)
LEMMA Shrinks ==
  ASSUME NEW S, NEW T, IsFiniteSet(T), S \subseteq T
  PROVE  /\ Cardinality(S) \in Nat /\ Cardinality(S) <= Cardinality(T)
         /\ \A x \in T : x \notin S => Cardinality(S) + 1 <= Cardinality(T)
<1>1. IsFiniteSet(S) /\ Cardinality(S) <= Cardinality(T)
  BY FS_Subset
<1>2. Cardinality(S) \in Nat /\ Cardinality(T) \in Nat
  BY <1>1, FS_CardinalityType
<1>3. ASSUME NEW x \in T, x \notin S PROVE Cardinality(S) # Cardinality(T)
  BY <1>3, FS_Subset
<1> QED BY <1>1, <1>2, <1>3

(* The table and the clients are finite.                                   *)
LEMMA Sizes ==
  ASSUME IsFiniteSet(Clients)
  PROVE  /\ IsFiniteSet(Slot) /\ Cardinality(Slot) = N
         /\ IsFiniteSet(Taken) /\ Cardinality(Taken) \in Nat
         /\ IsFiniteSet(Dangling) /\ Cardinality(Dangling) \in Nat
         /\ Cardinality(Clients) \in Nat
<1>1. IsFiniteSet(Slot) /\ Cardinality(Slot) = N
  BY FS_Interval, TimerAssumption DEF Slot
<1>2. Taken \subseteq Slot /\ Dangling \subseteq Clients
  BY DEF Taken, Dangling
<1>3. IsFiniteSet(Taken) /\ IsFiniteSet(Dangling)
  BY <1>1, <1>2, FS_Subset
<1> QED BY <1>1, <1>3, FS_CardinalityType

(* No slot is cancelled and nothing is being claimed: each slot is held.   *)
LEMMA SweptCounted ==
  ASSUME IsFiniteSet(Clients), Types, Held, claim.at = "none",
         \A s \in Slot : busy[s] # 2
  PROVE  Cardinality(Taken) + Cardinality(Dangling) + Pending <= Cardinality(Clients)
<1>1. \A s \in Taken : \E c \in Holding : handle[c] = s
  BY Slots DEF Types, Held, Taken, Holding
<1>2. \A c \in Holding : handle[c] \in Taken
  BY DEF Types, Taken, Holding
<1>3. [c \in Holding |-> handle[c]] \in Surjection(Holding, Taken)
  BY <1>1, <1>2 DEF Surjection
<1>4. IsFiniteSet(Holding) /\ Holding \subseteq Clients
  BY FS_Subset DEF Holding
<1>5. Cardinality(Taken) <= Cardinality(Holding)
  BY <1>3, <1>4, FS_Surjection
<1>6. IsFiniteSet(Dangling) /\ Dangling \subseteq Clients
  BY FS_Subset DEF Dangling
<1>7. Holding \cap Dangling = {}
  BY DEF Holding, Dangling
<1>8. Cardinality(Holding \cup Dangling) = Cardinality(Holding) + Cardinality(Dangling)
  <2>1. Cardinality(Holding \cup Dangling) =
          Cardinality(Holding) + Cardinality(Dangling) - Cardinality(Holding \cap Dangling)
    BY <1>4, <1>6, FS_Union
  <2>2. Cardinality(Holding) \in Nat /\ Cardinality(Dangling) \in Nat
    BY <1>4, <1>6, FS_CardinalityType
  <2> QED BY <1>7, <2>1, <2>2, FS_EmptySet
<1>9. Cardinality(Holding \cup Dangling) <= Cardinality(Clients)
  BY <1>4, <1>6, FS_Subset
<1>10. /\ Cardinality(Taken) \in Nat /\ Cardinality(Holding) \in Nat
       /\ Cardinality(Dangling) \in Nat /\ Cardinality(Clients) \in Nat
  BY <1>4, Sizes, FS_CardinalityType
<1>11. Pending = 0
  BY DEF Pending
<1> QED BY <1>5, <1>8, <1>9, <1>10, <1>11

(* A slot is taken, or is cancelled again through a handle of it: no more  *)
(* than one slot more.                                                     *)
LEMMA CancelCounted ==
  ASSUME IsFiniteSet(Clients), Types, NEW c \in Clients, ev_unon_timer(c),
         handle' = [handle EXCEPT ![c] = None]
  PROVE  /\ Cardinality(Taken)' \in Nat /\ Cardinality(Dangling)' \in Nat
         /\ Cardinality(Taken)' + Cardinality(Dangling)'
              <= Cardinality(Taken) + Cardinality(Dangling)
<1> USE Slots DEF Types
<1>0. IsFiniteSet(Taken) /\ IsFiniteSet(Dangling)
      /\ Cardinality(Taken) \in Nat /\ Cardinality(Dangling) \in Nat
  BY Sizes
<1>1. CASE handle[c] # None /\ busy[handle[c]] = 0
  <2>1. busy' = [busy EXCEPT ![handle[c]] = 2]
    BY <1>1 DEF ev_unon_timer, Cancel
  <2>2. Taken' \subseteq Taken \cup {handle[c]}
    BY <2>1 DEF Taken
  <2>3. Dangling' \subseteq Dangling /\ c \in Dangling /\ c \notin Dangling'
    BY <1>1, <2>1 DEF Dangling
  <2>4. Cardinality(Taken') \in Nat /\ Cardinality(Taken') <= Cardinality(Taken) + 1
    BY <1>0, <2>2, GrowsByOne
  <2>5. Cardinality(Dangling') \in Nat /\ Cardinality(Dangling') + 1 <= Cardinality(Dangling)
    BY <1>0, <2>3, Shrinks
  <2> QED BY <1>0, <2>4, <2>5
<1>2. CASE ~(handle[c] # None /\ busy[handle[c]] = 0)
  <2>1. busy' = busy \/ (busy' = [busy EXCEPT ![handle[c]] = 2] /\ busy[handle[c]] # 0)
    BY <1>2 DEF ev_unon_timer, Cancel
  <2>2. Taken' \subseteq Taken /\ Dangling' \subseteq Dangling
    BY <2>1 DEF Taken, Dangling
  <2>3. Cardinality(Taken') \in Nat /\ Cardinality(Taken') <= Cardinality(Taken)
    BY <1>0, <2>2, Shrinks
  <2>4. Cardinality(Dangling') \in Nat /\ Cardinality(Dangling') <= Cardinality(Dangling)
    BY <1>0, <2>2, Shrinks
  <2> QED BY <1>0, <2>3, <2>4
<1> QED BY <1>1, <1>2

(* Nothing is cancelled.                                                   *)
LEMMA SteadyCounted ==
  ASSUME IsFiniteSet(Clients), Taken' \subseteq Taken, Dangling' \subseteq Dangling
  PROVE  /\ Cardinality(Taken)' \in Nat /\ Cardinality(Dangling)' \in Nat
         /\ Cardinality(Taken)' <= Cardinality(Taken)
         /\ Cardinality(Dangling)' <= Cardinality(Dangling)
<1>0. IsFiniteSet(Taken) /\ IsFiniteSet(Dangling)
  BY Sizes
<1>1. Cardinality(Taken') \in Nat /\ Cardinality(Taken') <= Cardinality(Taken)
  BY <1>0, Shrinks
<1>2. Cardinality(Dangling') \in Nat /\ Cardinality(Dangling') <= Cardinality(Dangling)
  BY <1>0, Shrinks
<1> QED BY <1>1, <1>2

(* One slot is taken.                                                      *)
LEMMA TakeCounted ==
  ASSUME IsFiniteSet(Clients), NEW s, Taken' \subseteq Taken \cup {s}, Dangling' \subseteq Dangling
  PROVE  /\ Cardinality(Taken)' \in Nat /\ Cardinality(Dangling)' \in Nat
         /\ Cardinality(Taken)' <= Cardinality(Taken) + 1
         /\ Cardinality(Dangling)' <= Cardinality(Dangling)
<1>0. IsFiniteSet(Taken) /\ IsFiniteSet(Dangling)
  BY Sizes
<1>1. Cardinality(Taken') \in Nat /\ Cardinality(Taken') <= Cardinality(Taken) + 1
  BY <1>0, GrowsByOne
<1>2. Cardinality(Dangling') \in Nat /\ Cardinality(Dangling') <= Cardinality(Dangling)
  BY <1>0, Shrinks
<1> QED BY <1>1, <1>2

(* The sizes after a step.                                                 *)
LEMMA SizesNext ==
  (IsFiniteSet(Clients) => Cardinality(Taken) \in Nat /\ Cardinality(Dangling) \in Nat)'
<1>1. IsFiniteSet(Clients) => Cardinality(Taken) \in Nat /\ Cardinality(Dangling) \in Nat
  BY Sizes
<1> QED BY <1>1, PTL

(* The count at the end of the sweep.                                      *)
LEMMA SweptCountedNext ==
  (IsFiniteSet(Clients) /\ Types /\ Held /\ claim.at = "none" /\ (\A s \in Slot : busy[s] # 2) =>
     Cardinality(Taken) + Cardinality(Dangling) + Pending <= Cardinality(Clients))'
<1>1. IsFiniteSet(Clients) /\ Types /\ Held /\ claim.at = "none" /\ (\A s \in Slot : busy[s] # 2) =>
        Cardinality(Taken) + Cardinality(Dangling) + Pending <= Cardinality(Clients)
  BY SweptCounted
<1> QED BY <1>1, PTL

(* Every step keeps the count.                                             *)
LEMMA CountedStep ==
  ASSUME IsFiniteSet(Clients), Inv, Table, Counted, Next, Inv', Table'
  PROVE  Counted'
<1> DEFINE K == Cardinality(Taken)
           L == Cardinality(Dangling)
           C == Cardinality(Clients)
<1>0. K \in Nat /\ L \in Nat /\ C \in Nat /\ Pending \in {0, 1} /\ starts \in Nat
  BY Sizes, TimerAssumption DEF Pending, Inv
<1>a. Sweeping \/ K + L + Pending <= C + starts
  BY DEF Counted
<1>b. K' + L' + Pending' <= C + starts' => Counted'
  BY DEF Counted
<1>c. Sweeping' => Counted'
  BY DEF Counted
<1>1. ASSUME NEW c \in Clients, Start(c) \/ Stop(c) PROVE Counted'
  <2>1. ev_unon_timer(c) /\ handle' = [handle EXCEPT ![c] = None] /\ claim.at = "none"
    BY <1>1 DEF Start, Stop, Running
  <2>2. K' \in Nat /\ L' \in Nat /\ K' + L' <= K + L
    BY <2>1, CancelCounted DEF Inv
  <2>3. ~Sweeping /\ Pending = 0
    BY <1>1 DEF Start, Stop, Running, Sweeping, Pending
  <2>4. CASE Start(c)
    <3>1. starts' = starts + 1 /\ Pending' = 1
      BY <2>4 DEF Start, Pending
    <3>2. K' + L' + Pending' <= C + starts'
      BY <1>0, <1>a, <2>2, <2>3, <3>1
    <3> QED BY <1>b, <3>2
  <2>5. CASE Stop(c)
    <3>1. starts' = starts /\ Pending' = 0
      BY <2>1, <2>5 DEF Stop, Pending
    <3>2. K' + L' + Pending' <= C + starts'
      BY <1>0, <1>a, <2>2, <2>3, <3>1
    <3> QED BY <1>b, <3>2
  <2> QED BY <1>1, <2>4, <2>5
<1>2. ASSUME NEW c \in Clients, IsrStart(c) PROVE Counted'
  <2>1. PICK s \in Slot :
          /\ busy[s] = 0 /\ busy' = [busy EXCEPT ![s] = 1] /\ handle' = [handle EXCEPT ![c] = s]
    BY <1>2, Found DEF IsrStart, FreeSlots, Inv, Types
  <2>2. Taken' \subseteq Taken \cup {s} /\ Dangling' \subseteq Dangling
    BY <2>1 DEF Taken, Dangling, Inv, Types
  <2>3. K' \in Nat /\ L' \in Nat /\ K' <= K + 1 /\ L' <= L
    BY <2>2, TakeCounted
  <2>4. starts' = starts + 1 /\ Pending' = Pending /\ (Sweeping' <=> Sweeping)
    BY <1>2 DEF IsrStart, Pending, Sweeping
  <2>5. CASE ~Sweeping
    <3>1. K' + L' + Pending' <= C + starts'
      BY <1>0, <1>a, <2>5, <2>3, <2>4
    <3> QED BY <1>b, <3>1
  <2>6. CASE Sweeping
    BY <1>c, <2>6, <2>4
  <2> QED BY <2>5, <2>6
<1>3. CASE ClaimSlot
  <2>1. Taken' \subseteq Taken \cup {claim.slot} /\ Dangling' \subseteq Dangling
    BY <1>3 DEF ClaimSlot, Taken, Dangling, Inv, Types
  <2>2. K' \in Nat /\ L' \in Nat /\ K' <= K + 1 /\ L' <= L
    BY <2>1, TakeCounted
  <2>3. starts' = starts /\ Pending = 1 /\ Pending' = 0 /\ (Sweeping' <=> Sweeping)
    BY <1>3 DEF ClaimSlot, Pending, Sweeping, Inv, Types
  <2>5. CASE ~Sweeping
    <3>1. K' + L' + Pending' <= C + starts'
      BY <1>0, <1>a, <2>5, <2>2, <2>3
    <3> QED BY <1>b, <3>1
  <2>6. CASE Sweeping
    BY <1>c, <2>6, <2>3
  <2> QED BY <2>5, <2>6
<1>4. CASE FindSlot \/ start_timer
  <2>1. Taken' \subseteq Taken /\ Dangling' \subseteq Dangling
    BY <1>4, Slots DEF FindSlot, start_timer, slots, Taken, Dangling, Inv, Types, Claiming
  <2>2. K' \in Nat /\ L' \in Nat /\ K' <= K /\ L' <= L
    BY <2>1, SteadyCounted
  <2>3. starts' = starts /\ (Sweeping' <=> Sweeping)
    BY <1>4 DEF FindSlot, start_timer, Sweeping
  <2>4. Pending' = Pending
    <3>1. \/ claim.at = "search" /\ claim'.at = "found"
          \/ claim.at = "claimed" /\ claim'.at = "none"
      <4>1. claim \in [at : {"none", "search", "found", "claimed"}, slot : Slot,
                       who : Clients \cup {None}]
        BY DEF Inv, Types
      <4>2. CASE FindSlot
        BY <4>1, <4>2 DEF FindSlot
      <4>3. CASE start_timer
        BY <4>3 DEF start_timer, NoClaim
      <4> QED BY <1>4, <4>2, <4>3
    <3> QED BY <3>1 DEF Pending
  <2>5. CASE ~Sweeping
    <3>1. K' + L' + Pending' <= C + starts'
      BY <1>0, <1>a, <2>5, <2>2, <2>3, <2>4
    <3> QED BY <1>b, <3>1
  <2>6. CASE Sweeping
    BY <1>c, <2>6, <2>3
  <2> QED BY <2>5, <2>6
<1>5. CASE ProcessBegin \/ SkipFree \/ ClearBusy \/ ClearValid
  <2>1. ASSUME ~Sweeping' PROVE Counted'
    <3>1. claim' = claim /\ claim.at = "none" /\ \A s \in Slot : busy'[s] # 2
      BY <1>5, <2>1, SweepTable
    <3>2. (Cardinality(Taken) + Cardinality(Dangling) + Pending <= Cardinality(Clients))'
      BY <3>1, SweptCountedNext DEF Inv, Table
    <3>3. starts' \in Nat
      BY TimerAssumption DEF Inv
    <3>4. (Cardinality(Taken) \in Nat /\ Cardinality(Dangling) \in Nat)' /\ Pending' \in {0, 1}
      BY SizesNext DEF Pending
    <3>5. K' + L' + Pending' <= C + starts'
      BY <1>0, <3>2, <3>3, <3>4
    <3> QED BY <1>b, <3>5
  <2> QED BY <2>1 DEF Counted
<1>6. CASE SkipScan \/ Callback \/ ReturnAgain
  <2>1. ~Sweeping /\ UNCHANGED <<busy, handle, claim, starts>>
    BY <1>6 DEF SkipScan, Callback, ReturnAgain, slots, Sweeping
  <2>2. Taken' = Taken /\ Dangling' = Dangling /\ Pending' = Pending
    BY <2>1 DEF Taken, Dangling, Pending
  <2> QED BY <1>a, <1>b, <2>1, <2>2
<1>7. CASE ReturnStop
  <2>1. /\ main.at = "call" /\ busy' = [busy EXCEPT ![main.slot] = 2]
        /\ handle' = [handle EXCEPT ![main.who] = None] \/ handle' = handle
        /\ UNCHANGED <<claim, starts>>
    BY <1>7 DEF ReturnStop, Cancel, Current
  <2>2. busy[main.slot] # 0
    BY <2>1 DEF Table, CalledBusy
  <2>3. Taken' \subseteq Taken /\ Dangling' \subseteq Dangling
    BY <2>1, <2>2 DEF Taken, Dangling, Inv, Types
  <2>4. K' \in Nat /\ L' \in Nat /\ K' <= K /\ L' <= L
    BY <2>3, SteadyCounted
  <2>5. ~Sweeping /\ Pending' = Pending /\ starts' = starts
    BY <2>1 DEF Sweeping, Pending
  <2>6. K' + L' + Pending' <= C + starts'
    BY <1>0, <1>a, <2>4, <2>5
  <2> QED BY <1>b, <2>6
<1> QED BY <1>1, <1>2, <1>3, <1>4, <1>5, <1>6, <1>7 DEF Next

(* At power-on no slot is taken.                                           *)
LEMMA InitTable ==
  ASSUME Init
  PROVE  Table /\ (IsFiniteSet(Clients) => Counted)
<1>1. Table
  BY DEF Init, Table, ArmedTaken, Marked, CalledBusy, Held, Behind, Freed, Sweeping
<1>2. ASSUME IsFiniteSet(Clients) PROVE Counted
  <2>1. Taken = {} /\ Dangling = {} /\ Pending = 0 /\ starts = 0
    BY DEF Init, Taken, Dangling, Pending, NoClaim
  <2>2. Cardinality(Clients) \in Nat
    BY <1>2, Sizes
  <2> QED BY <2>1, <2>2, FS_EmptySet DEF Counted
<1> QED BY <1>1, <1>2

(* Every step keeps the state of the table.                                *)
LEMMA TableStep ==
  ASSUME Inv, Table, [Next]_vars
  PROVE  Table'
<1>1. CASE UNCHANGED vars
  BY <1>1 DEF vars, slots, Table, ArmedTaken, Marked, CalledBusy, Held, Behind, Freed, Sweeping
<1>2. CASE Next
  BY <1>2, StopTable, ClaimTable, IsrTable, SweepTable, ScanTable DEF Next
<1> QED BY <1>1, <1>2

(* A search for a slot finds one: a table with a slot for each client and  *)
(* one for each timer started in a pass of the main loop never fills up,   *)
(* whatever the interrupt and the handles that were kept do                *)
(* (timer_event.c:91-106).                                                 *)
THEOREM SlotFoundTheorem ==
  ASSUME IsFiniteSet(Clients), Cardinality(Clients) + MaxStarts <= N
  PROVE  Spec => []SlotFound
<1> DEFINE TInv == Table /\ Counted
<1>1. Init => TInv
  BY InitTable
<1>2. IInv /\ IInv' /\ TInv /\ [Next]_vars => TInv'
  <2> SUFFICES ASSUME IInv, IInv', TInv, [Next]_vars PROVE TInv'
    OBVIOUS
  <2>1. Table'
    BY TableStep DEF IInv
  <2>2. CASE Next
    BY <2>1, <2>2, CountedStep DEF IInv
  <2>3. CASE UNCHANGED vars
    BY <2>1, <2>3 DEF vars, slots, Counted, Sweeping, Taken, Dangling, Pending
  <2> QED BY <2>1, <2>2, <2>3
<1>3. IInv /\ TInv => SlotFound
  <2> SUFFICES ASSUME IInv, TInv, claim.at = "search", FreeSlots = {} PROVE FALSE
    BY DEF SlotFound
  <2>1. ~Sweeping /\ Pending = 1
    BY DEF IInv, Inv, Claiming, Sweeping, Pending
  <2>2. Taken = Slot
    BY DEF Taken, FreeSlots
  <2>3. N + Cardinality(Dangling) + 1 <= Cardinality(Clients) + starts
    BY <2>1, <2>2, Sizes DEF Counted
  <2>4. starts \in Nat /\ starts <= MaxStarts
    BY TimerAssumption DEF IInv, Inv
  <2> QED BY <2>3, <2>4, Sizes, TimerAssumption
<1> QED BY <1>1, <1>2, <1>3, Invariance, PTL DEF Spec
=============================================================================
