------------------------------ MODULE HwTimer -------------------------------
(***************************************************************************)
(* One hardware timer and its software side (proj/drivers/drv_timer.c).    *)
(*                                                                         *)
(* drv_hwTmr_set arms the record of a timer and does not start the timer:  *)
(* the start is commented out (169), its user calls hwTimerStart when the  *)
(* wait is to begin.  A callback that returns a negative number stops the  *)
(* timer and leaves the record armed: the reset is commented out (190).    *)
(***************************************************************************)
EXTENDS Naturals

(* status: timerInfo.flags; cap: whether the timer counts to the time set  *)
(* or to its overflow, minutes away; irq: its interrupt is pending.        *)
Timer == [status: {"IDLE", "WTO"}, cap: {"time", "overflow"}, running: BOOLEAN, irq: BOOLEAN]

Unset == [status |-> "IDLE", cap |-> "overflow", running |-> FALSE, irq |-> FALSE]

hwTimerInfoReset(t) == [t EXCEPT !.status = "IDLE"]

hwTimerStart(t) == [t EXCEPT !.running = TRUE, !.irq = FALSE]

hwTimerStop(t) == [t EXCEPT !.running = FALSE]

drv_timer_clear_irq(t) == [t EXCEPT !.irq = FALSE]

drv_hwTmr_cancel(t) == hwTimerInfoReset(hwTimerStop(t))

(* HW_TIMER_IS_RUNNING changes nothing. *)
drv_hwTmr_set(t) ==
  IF t.status = "IDLE" THEN [t EXCEPT !.status = "WTO", !.cap = "time"] ELSE t

Expires(t) == t.running /\ t.cap = "time" /\ ~t.irq

Expired(t) == [t EXCEPT !.irq = TRUE]

(* mutant: the record is reset, as in the line commented out (190) *)
Called_Reset(t) == drv_hwTmr_cancel(drv_timer_clear_irq(t))

(* drv_hwTmr_irq_process, after a callback that returned -1 ...            *)
Called(t) == hwTimerStop(drv_timer_clear_irq(t))

(* ... and without one: the decrement of expireInfo.high, which is 0,      *)
(* leaves it at its largest value.                                         *)
NotArmed(t) == [drv_timer_clear_irq(t) EXCEPT !.cap = "overflow"]
=============================================================================
