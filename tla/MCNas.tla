------------------------------- MODULE MCNas -------------------------------
(* NasController on small instances.                                       *)
EXTENDS NasController

CONSTANTS v1, v2, old
=============================================================================
