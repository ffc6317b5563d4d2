--------------------------- MODULE MCSecureGroup ---------------------------
(***************************************************************************)
(* Instances of SecureGroup: the creator c, which uploads under k1, and one *)
(* other device, which sends under k2.                                     *)
(***************************************************************************)
EXTENDS SecureGroup

CONSTANTS c, a, k1, k2

OwnerOfKeys == [k \in Keys \cup Files |-> IF k = k1 THEN c ELSE a]
=============================================================================
