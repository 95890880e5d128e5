--------------------------- MODULE MCStatusCache ---------------------------
(***************************************************************************)
(* TLC instance of StatusCache.  No symmetry: the run checks liveness.     *)
(***************************************************************************)
EXTENDS StatusCache
============================================================================
