---------------------------- MODULE MCFrameCounter ----------------------------
(* The frame counter with sectors of three words, so that every sector is  *)
(* filled, and counters up to MaxCount, so that the 2-bit sequence number  *)
(* of the sectors wraps.                                                   *)
EXTENDS RcFrameCounter
=============================================================================
