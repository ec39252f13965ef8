-------------------------- MODULE MCEpochStreamer --------------------------
(* Two nodes on the payroll, a deployer that is also the first operator,   *)
(* the governance contract, the streamer itself and the router.            *)
EXTENDS EpochStreamer, TLC

CONSTANTS n1, n2, deployer, gov, job, router, chest, zero

MCNode       == {n1, n2}
MCCaller     == {deployer, gov, job, router}
MCGovernors  == {gov}
MCStreamers  == {job, zero}
MCSpenders   == {router}
MCOperators  == {deployer}
MCSymmetry   == Permutations(MCNode)
=============================================================================
