------------------------- MODULE MCSessionRegistry -------------------------
(* One agent with two keys, the root and an orchestrator as issuer.  The   *)
(* run about assets has the routers of two of them.                        *)
EXTENDS SessionRegistry, TLC

CONSTANTS a1, k1, k2, t1, root, orchestrator, usdc, weth, zero, none

MCAgent     == {a1}
MCKeys      == {k1, k2}
MCOneKey    == {k1}
MCNoTarget  == {}
MCIssuer    == {orchestrator}
MCRouters   == {usdc, weth}
MCRouter    == {usdc}
MCOneScope  == {"PROPOSE_INTENT"}
MCNoWindows == {<<0, 0>>}
MCWindows   == {<<0, 0>>, <<1, 2>>, <<2, 1>>}
MCNoRates   == {<<0, 0>>}
MCRates     == {<<0, 0>>, <<2, 2>>, <<2, 0>>}
=============================================================================
