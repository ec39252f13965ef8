--------------------------- MODULE MCOrgRegistry ---------------------------
(* A root, three possible nodes and the governance contract. *)
EXTENDS OrgRegistry, TLC

CONSTANTS r, a, b, c, gov, zero

MCAccount   == {r, a, b, c}
MCOutsider  == {gov}
MCSymmetry  == Permutations({a, b, c})
=============================================================================
