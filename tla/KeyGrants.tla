----------------------------- MODULE KeyGrants -----------------------------
(***************************************************************************)
(* What the session registry promises the router: at any time an agent's   *)
(* key holds at most one grant, only an issue creates or replaces it, and  *)
(* a grant that has lapsed (revoked or expired) does not come back.        *)
(***************************************************************************)
CONSTANTS Agent, Key, Grant, NoGrant

VARIABLE grant

Pair == Agent \X Key

GrantInit == grant = [p \in Pair |-> NoGrant]

Give(a, k, g) == grant' = [grant EXCEPT ![<<a, k>>] = g]
Lapse(gone)   == grant' = [p \in Pair |-> IF p \in gone THEN NoGrant ELSE grant[p]]

GrantNext ==
  \/ \E a \in Agent, k \in Key, g \in Grant : Give(a, k, g)
  \/ \E gone \in SUBSET Pair : Lapse(gone)

GrantSpec == GrantInit /\ [][GrantNext]_grant
=============================================================================
