---------------------------- MODULE MCAudioPath -----------------------------
(* A ring of two packets and cursors that wrap after four rounds.  Two     *)
(* kinds of packet tell any two orders of a queue of two apart.            *)
EXTENDS AudioPath
=============================================================================
