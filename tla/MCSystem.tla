------------------------------ MODULE MCSystem ------------------------------
(* Instances of System for TLC: a contract deployed with attestation 1; 1  *)
(* and 2 are validator sets, 3 is a data commitment.                       *)
EXTENDS System, TLC

CONSTANTS primary, backup, ann, bob

MCBoth == {primary, backup}
MCBackup == {backup}
MCNobody == {}
MCSymmetry == Permutations(MCBoth)
MCValsets == {1, 2}
MCOrchestrators == {ann, bob}

\* safety: ann is enough in the set 1, where bob is too little, and the other way
\* round in the set 2
MCPowersRace == 1 :> (ann :> 4 @@ bob :> 1) @@ 2 :> (ann :> 1 @@ bob :> 4)

\* liveness: ann alone is replaced by bob alone
MCPowersLive == 1 :> (ann :> 2 @@ bob :> 0) @@ 2 :> (ann :> 0 @@ bob :> 2)
=============================================================================
