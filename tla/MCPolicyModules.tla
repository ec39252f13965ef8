--------------------------- MODULE MCPolicyModules ---------------------------
(* One or two agents under one rate module; a day of three model seconds. *)
EXTENDS PolicyModules, TLC

CONSTANTS a1, a2, shop, admin, gov, router, zero

MCCaller == {admin, gov, router}
=============================================================================
