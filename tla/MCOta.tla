-------------------------------- MODULE MCOta --------------------------------
(* Frames of four units: the header ends in the second block, which also   *)
(* holds the start of the image, and the checksum is split over the last   *)
(* two blocks of a file of ten.                                            *)
EXTENDS Ota
=============================================================================
