------------------------ MODULE MCEscalationRouter -------------------------
(* The deployed organisation: worker w under manager mgr under root r, and   *)
(* in some runs a free account x that can be hired.                          *)
EXTENDS EscalationRouter, TLC

CONSTANTS r, mgr, w, x, k, shop, router, treasuryA, registryA, rate, zero, none,
          noStack, deployer, gov

MCThree    == {r, mgr, w}
MCKey      == {k}
MCNoKey    == {}
MCShop     == {shop}
MCTargets  == {shop, treasuryA}
MCRates    == {rate}
MCNoRates  == {}
MCKeyUsers == {r, mgr, k}

Node3(a) == CASE a = r -> RootNode
              [] a = mgr -> [kind |-> "ManagerAgent", parent |-> r, active |-> TRUE]
              [] a = w -> [kind |-> "WorkerAgent", parent |-> mgr, active |-> TRUE]
              [] OTHER -> Absent
MCCharts  == {[a \in Account |-> Node3(a)]}

\* The worker's cap is 1, the manager's 1 or 2, the root's as deployed: none.
MCCap(c)   == [a \in Account |-> IF a = r THEN 3 ELSE IF a = mgr THEN c ELSE 1]
MCCaps     == {MCCap(1), MCCap(2)}
MCCapOne   == {MCCap(1)}

MCStacks   == {{"spendCap", "whitelist", rate}}
MCCapStack == {{"spendCap"}}

\* With one stack of the cap alone as the default and a stricter one to be set
\* for a node.
MCTwoStacks == {{"spendCap"}, {"spendCap", "timeWindow", rate}}

MCGrants == {[scopes |-> {"PROPOSE_INTENT"}, maxValue |-> 2, targets |-> {}],
             [scopes |-> {"PROPOSE_INTENT", "SPEND_WHITELIST"}, maxValue |-> 1,
              targets |-> {shop}]}
MCNoGrants == {}

MCPurse    == {treasuryA}
MCRegistry == {registryA}
MCUnwired  == {zero}

\* How far a state is from the deployment: every hire, firing or move so far,
\* and every slot, cap, rate window or key that differs from the start.
MaxChanged == 2
Number(b) == IF b THEN 1 ELSE 0
Changed ==
    reorgs
  + Number(governor # Zero) + Number(treasury # Purse)
  + Number(sessionRegistry # Registry) + Number(rateRecorder # Zero)
  + Number(~dayOpen)
  + Cardinality({a \in Account : policyOf[a] # NoStack})
  + Cardinality({a \in Account : rateRecorderOf[a] # Zero})
  + Cardinality({a \in Account : cap[a] # MCCap(1)[a]})
  + Cardinality({e \in RateModule \X Account : windowCount[e[1]][e[2]] # 0})
  + Cardinality({p \in DOMAIN grant : grant[p] # NoGrant})
NearDeployment == Changed <= MaxChanged
=============================================================================
