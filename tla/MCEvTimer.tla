------------------------------ MODULE MCEvTimer ------------------------------
(* A few timers: the LED's, the key repetition's, the infrared driver's.   *)
EXTENDS EvTimer, FiniteSets

CONSTANTS led, key, ir

(* A slot for each client and for each timer started in a pass suffices.   *)
ASSUME Cardinality(Clients) + MaxStarts <= N

(* The callback of a slot that is free or cancelled is not called again. *)
MCView ==
  <<valid, busy, [s \in Slot |-> IF busy[s] = 1 THEN cb[s] ELSE None],
    due, pos, main, claim, handle, runs, raced, stolen, starts>>
=============================================================================
