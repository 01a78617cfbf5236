------------------------------- MODULE EvTimer -------------------------------
(***************************************************************************)
(* The software timers (proj/os/timer_event.c) and the modules that use    *)
(* them.                                                                   *)
(*                                                                         *)
(* A timer is a slot of a fixed table.  ev_on_timer claims a free slot,    *)
(* ev_unon_timer only marks it, and the next pass of the main loop through *)
(* ev_process_timer frees the marked slots and calls back the expired      *)
(* ones.  A module keeps the slot it was given in a static variable, its   *)
(* handle, for as long as it believes its timer is running.                *)
(*                                                                         *)
(* Only start_timer, cancel_timer and the ev_unon_timer macro disable      *)
(* interrupts.  The infrared driver starts its timers from the interrupt   *)
(* of a hardware timer (irTimer1IrqCb, ir.c), between any two steps of the *)
(* main loop.                                                              *)
(***************************************************************************)
EXTENDS Naturals

CONSTANTS
  Clients,    (* the modules that keep a timer                             *)
  Isr,        (* those that start it from an interrupt                     *)
  Stale,      (* those whose callback may stop the timer and keep the      *)
              (* handle (app_sendRepeateDataTimerCb, ota_startReqCb)       *)
  None,       (* no handle, no client                                      *)
  N,          (* slots                                                     *)
  MaxStarts   (* bound on the timers started in a pass of the main loop    *)

ASSUME TimerAssumption ==
  /\ Isr \subseteq Clients /\ Stale \subseteq Clients
  /\ None \notin Clients /\ None \notin Nat
  /\ N \in Nat \ {0} /\ MaxStarts \in Nat

Slot == 0..(N - 1)

VARIABLES
  valid,      (* 0 unused, 1 armed, 2 cancelled                            *)
  busy,       (* 0 free, 1 claimed, 2 cancelled                            *)
  cb,         (* whose callback                                            *)
  pos,        (* evtimer_current_pos: where the search for a slot begins   *)
  due,        (* the slots expired at the `now' of this pass               *)
  main,       (* where the main loop is                                    *)
  claim,      (* how far its call of ev_on_timer is                        *)
  handle,     (* the handle each client keeps                              *)
  runs,       (* history: the clients whose timer was started and neither  *)
              (* stopped nor called back for the last time                 *)
  raced,      (* history: an interrupt started a timer inside a window     *)
  stolen,     (* history: a handle of no running timer was cancelled       *)
  starts      (* timers started in this pass                               *)

slots == <<valid, busy, cb, due>>
vars  == <<slots, pos, main, claim, handle, runs, raced, stolen, starts>>

NoClaim == [at |-> "none", slot |-> 0, who |-> None]

Init ==
  /\ valid = [s \in Slot |-> 0]
  /\ busy = [s \in Slot |-> 0]
  /\ cb = [s \in Slot |-> None]
  /\ pos = 0
  /\ due = {}
  /\ main = [at |-> "app", slot |-> 0, who |-> None]
  /\ claim = NoClaim
  /\ handle = [c \in Clients |-> None]
  /\ runs = {}
  /\ raced = FALSE
  /\ stolen = FALSE
  /\ starts = 0

-----------------------------------------------------------------------------
(* ev_unon_timer: one step, interrupts are disabled. *)

Cancel_BusyOnly(s) == busy' = [busy EXCEPT ![s] = 2] /\ valid' = [valid EXCEPT ![s] = 0]

Cancel(s) ==
  /\ valid' = [valid EXCEPT ![s] = 2]
  /\ busy' = [busy EXCEPT ![s] = 2]

ev_unon_timer(c) ==
  /\ \/ handle[c] = None /\ UNCHANGED <<valid, busy, stolen>>
     \/ handle[c] # None /\ Cancel(handle[c]) /\ stolen' = (stolen \/ c \notin runs)
  /\ UNCHANGED <<cb, due>>

(* on_timer.  The first slot not busy, searched from `pos'; there may be   *)
(* none, and the search then never returns.                                *)
FreeSlots_Cancelled == {s \in Slot : busy[s] # 1}
FreeSlots == {s \in Slot : busy[s] = 0}
Distance(s) == (s + N - pos) % N
FirstFree == CHOOSE s \in FreeSlots : \A u \in FreeSlots : Distance(s) <= Distance(u)

NextPos_NoWrap(s) == s + 1
NextPos(s) == (s + 1) % N

(* The main loop is between two steps that are only correct together: it   *)
(* has seen a slot free and not claimed it, or is freeing one.             *)
InWindow == claim.at = "found" \/ main.at = "freeing"

(* Code of the main loop runs: a handler, or the callback of slot k.       *)
Running == main.at \in {"app", "call"} /\ claim.at = "none"
Current == main.who

(* What the callers do: "if ( handle ) ev_unon_timer(&handle)", ...        *)
Stop(c) ==
  /\ Running
  /\ ev_unon_timer(c)
  /\ handle' = [handle EXCEPT ![c] = None]
  /\ runs' = runs \ {c}
  /\ UNCHANGED <<pos, main, claim, raced, starts>>

(* ... then "handle = ev_on_timer(..)".  A callback does not restart its   *)
(* own timer, it returns the next interval.                                *)
Start(c) ==
  /\ Running /\ c # Current /\ c \notin Isr
  /\ starts < MaxStarts
  /\ starts' = starts + 1
  /\ ev_unon_timer(c)
  /\ handle' = [handle EXCEPT ![c] = None]
  /\ runs' = runs \ {c}
  /\ claim' = [at |-> "search", slot |-> 0, who |-> c]
  /\ UNCHANGED <<pos, main, raced>>

FindSlot ==
  /\ claim.at = "search"
  /\ FreeSlots # {}
  /\ claim' = [claim EXCEPT !.at = "found", !.slot = FirstFree]
  /\ UNCHANGED <<slots, pos, main, handle, runs, raced, stolen, starts>>

ClaimSlot ==
  /\ claim.at = "found"
  /\ busy' = [busy EXCEPT ![claim.slot] = 1]
  /\ cb' = [cb EXCEPT ![claim.slot] = claim.who]
  /\ pos' = NextPos(claim.slot)
  /\ claim' = [claim EXCEPT !.at = "claimed"]
  /\ UNCHANGED <<valid, due, main, handle, runs, raced, stolen, starts>>

start_timer ==
  /\ claim.at = "claimed"
  /\ valid' = [valid EXCEPT ![claim.slot] = 1]
  /\ due' = due \ {claim.slot}
  /\ handle' = [handle EXCEPT ![claim.who] = claim.slot]
  /\ runs' = runs \cup {claim.who}
  /\ claim' = NoClaim
  /\ UNCHANGED <<busy, cb, pos, main, raced, stolen, starts>>

(* The whole of ev_on_timer, from an interrupt.                            *)
IsrStart(c) ==
  /\ c \in Isr /\ handle[c] = None /\ c # Current
  /\ starts < MaxStarts
  /\ starts' = starts + 1
  /\ FreeSlots # {}
  /\ LET s == FirstFree
     IN  /\ busy' = [busy EXCEPT ![s] = 1]
         /\ valid' = [valid EXCEPT ![s] = 1]
         /\ cb' = [cb EXCEPT ![s] = c]
         /\ due' = due \ {s}
         /\ pos' = NextPos(s)
         /\ handle' = [handle EXCEPT ![c] = s]
  /\ runs' = runs \cup {c}
  /\ raced' = (raced \/ InWindow)
  /\ UNCHANGED <<main, claim, stolen>>

-----------------------------------------------------------------------------
(* ev_process_timer. *)

Goto(at, s) == main' = [at |-> at, slot |-> s, who |-> None]

NextSlot_Short(at, end) == IF main.slot + 2 >= N THEN Goto(end, 0) ELSE Goto(at, main.slot + 1)
NextSlot(at, end) == IF main.slot = N - 1 THEN Goto(end, 0) ELSE Goto(at, main.slot + 1)

(* A pass of the main loop ends when the cancelled slots are free again.   *)
NextFree == NextSlot("free", "scan") /\ starts' = IF main'.at = "scan" THEN 0 ELSE starts

(* `now' is read once; what is not expired then is left to the next pass.  *)
ProcessBegin ==
  /\ main.at = "app" /\ claim.at = "none"
  /\ \E d \in SUBSET {s \in Slot : valid[s] = 1} : due' = d
  /\ Goto("free", 0)
  /\ UNCHANGED <<valid, busy, cb, pos, claim, handle, runs, raced, stolen, starts>>

SkipFree ==
  /\ main.at = "free"
  /\ valid[main.slot] # 2
  /\ NextFree
  /\ UNCHANGED <<slots, pos, claim, handle, runs, raced, stolen>>

ClearBusy ==
  /\ main.at = "free"
  /\ valid[main.slot] = 2
  /\ busy' = [busy EXCEPT ![main.slot] = 0]
  /\ Goto("freeing", main.slot)
  /\ UNCHANGED <<valid, cb, due, pos, claim, handle, runs, raced, stolen, starts>>

ClearValid ==
  /\ main.at = "freeing"
  /\ valid' = [valid EXCEPT ![main.slot] = 0]
  /\ NextFree
  /\ UNCHANGED <<busy, cb, due, pos, claim, handle, runs, raced, stolen>>

Expired_AnyState(s) == s \in due
Expired(s) == valid[s] = 1 /\ s \in due

SkipScan ==
  /\ main.at = "scan"
  /\ ~Expired(main.slot)
  /\ NextSlot("scan", "app")
  /\ UNCHANGED <<slots, pos, claim, handle, runs, raced, stolen, starts>>

Callback ==
  /\ main.at = "scan"
  /\ Expired(main.slot)
  /\ main' = [main EXCEPT !.at = "call", !.who = cb[main.slot]]
  /\ due' = due \ {main.slot}
  /\ UNCHANGED <<valid, busy, cb, pos, claim, handle, runs, raced, stolen, starts>>

(* The callback returns an interval: te->t is set, nothing else.           *)
ReturnAgain ==
  /\ main.at = "call" /\ claim.at = "none"
  /\ NextSlot("scan", "app")
  /\ UNCHANGED <<slots, pos, claim, handle, runs, raced, stolen, starts>>

(* The callback returns -1; it clears the handle or does not.              *)
ReturnStop ==
  /\ main.at = "call" /\ claim.at = "none"
  /\ Cancel(main.slot)
  /\ \/ handle' = [handle EXCEPT ![Current] = None]
     \/ Current \in Stale /\ UNCHANGED handle
  /\ runs' = runs \ {Current}
  /\ NextSlot("scan", "app")
  /\ UNCHANGED <<cb, due, pos, claim, raced, stolen, starts>>

Next ==
  \/ \E c \in Clients : Start(c) \/ Stop(c) \/ IsrStart(c)
  \/ FindSlot
  \/ ClaimSlot
  \/ start_timer
  \/ ProcessBegin
  \/ SkipFree
  \/ ClearBusy
  \/ ClearValid
  \/ SkipScan
  \/ Callback
  \/ ReturnAgain
  \/ ReturnStop

(* Handlers and callbacks return, and the main loop runs for ever.         *)
MainLoop ==
  \/ FindSlot \/ ClaimSlot \/ start_timer
  \/ ProcessBegin
  \/ SkipFree \/ ClearBusy \/ ClearValid
  \/ SkipScan \/ Callback \/ ReturnAgain \/ ReturnStop

Spec == Init /\ [][Next]_vars /\ WF_vars(MainLoop)

-----------------------------------------------------------------------------
(* Properties. *)

(* Every variable has its type; the search position stays on the table     *)
(* (on_timer, timer_event.c:91-106).                                       *)
TypeOK ==
  /\ valid \in [Slot -> 0..2] /\ busy \in [Slot -> 0..2]
  /\ cb \in [Slot -> Clients \cup {None}]
  /\ pos \in Slot /\ due \subseteq Slot
  /\ main \in [at : {"app", "free", "freeing", "scan", "call"}, slot : Slot,
               who : Clients \cup {None}]
  /\ claim \in [at : {"none", "search", "found", "claimed"}, slot : Slot,
                who : Clients \cup {None}]
  /\ handle \in [Clients -> Slot \cup {None}]
  /\ runs \subseteq Clients
  /\ raced \in BOOLEAN /\ stolen \in BOOLEAN
  /\ starts \in 0..MaxStarts

Armed(c) ==
  /\ handle[c] # None
  /\ valid[handle[c]] = 1 /\ busy[handle[c]] = 1 /\ cb[handle[c]] = c

(* A timer that was started and not stopped has a slot of its own, armed,  *)
(* with its callback: it will expire.  "if send repeate data timer is on,  *)
(* stop it" (app_data.c:127) must not stop anybody else's.                 *)
EveryTimerKept == \A c \in runs : Armed(c)

(* What ev_on_timer, the sweep of ev_process_timer and the callbacks' -1   *)
(* do to a slot can only harm another timer in the two windows in which an *)
(* interrupt takes a slot (timer_event.c:94-95, 203-204), or through a     *)
(* handle its owner should have cleared.                                   *)
TimerKept == ~raced /\ ~stolen => EveryTimerKept

(* A callback is called only while its client holds the timer to be        *)
(* running: a timer stopped earlier in the same pass, by a handler or by   *)
(* another callback, does not fire (timer_event.c:218-219, is_timer_expired). *)
NoFireAfterStop ==
  [][main.at # "call" /\ main'.at = "call" => main'.who \in runs]_vars

(* A slot is found as long as there is one for each client and one for     *)
(* each timer started in a pass: ev_on_timer does not spin for ever        *)
(* (timer_event.c:103-105), whatever an interrupt or a kept handle does.   *)
SlotFound == claim.at = "search" => FreeSlots # {}

(* A cancelled slot is free again after the next pass of the main loop     *)
(* (timer_event.c:199-206).                                                *)
SlotReclaimed == \A s \in Slot : busy[s] = 2 ~> busy[s] = 0
=============================================================================
