--------------------------- MODULE MCEventStream ---------------------------
(***************************************************************************)
(* One payload of each kind that the stream tells apart.                   *)
(***************************************************************************)
EXTENDS EventStream

CONSTANTS m, old, plain, h, a, j
=============================================================================
