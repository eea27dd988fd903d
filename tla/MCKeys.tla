------------------------------- MODULE MCKeys -------------------------------
(* Instances of Keys for TLC: two shells and an orchestrator; the operator    *)
(* names a P2P key 1 or 9, a text.                                            *)
EXTENDS Keys

CONSTANTS first, second, orchestrator, a1, old, changed

MCShells == {first, second}
MCAddrs == {a1}
MCPasses == {old, changed}
MCNicknames == {1, 9}
=============================================================================
