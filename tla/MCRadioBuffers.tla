--------------------------- MODULE MCRadioBuffers ---------------------------
(* Few buffers, so that the pool is often empty and links are reused.      *)
EXTENDS RadioBuffers
=============================================================================
