------------------------------- MODULE MCRcApp -------------------------------
(* One retry; a full battery, one too low to update, pair and save, and    *)
(* one below the cut-off.                                                  *)
EXTENDS RcApp
=============================================================================
