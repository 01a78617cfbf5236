--------------------------- MODULE MCAudioSession ---------------------------
(* Three channels, the times of the code in steps of 100 ms; energies 0    *)
(* (quiet) to 3 (the largest measure).                                     *)
EXTENDS AudioSession
=============================================================================
