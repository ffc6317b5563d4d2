---------------------------- MODULE MCConnection ----------------------------
(***************************************************************************)
(* Two calls, of one process or of two.  Processes, calls, sessions, peers *)
(* and rooms are interchangeable.                                          *)
(***************************************************************************)
EXTENDS Connection, TLC

Symmetry ==
  Permutations(Procs) \cup Permutations(Calls) \cup Permutations(Sessions) \cup
  Permutations(Peers) \cup Permutations(Rooms)
=============================================================================
