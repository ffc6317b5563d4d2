---------------------------- MODULE MCAdmission ----------------------------
(***************************************************************************)
(* Two devices that both got hold of one invitation, and request ids the   *)
(* relay can use for either of them, which are interchangeable.            *)
(***************************************************************************)
EXTENDS Admission, TLC

BothHold == [i \in Invites |-> Devices]
RequestIds == Permutations(Requests)
=============================================================================
