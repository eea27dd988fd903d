------------------------------ MODULE MCDeploy ------------------------------
(* Instances of Deploy for TLC: every chain of three attestations.            *)
EXTENDS Deploy

CONSTANT LastMade

MCChains ==
    {c \in [Nonces -> [at : 1..LastMade, set : Nonces]] : WellFormed(c)}
MCFirstStates == {1, 3}
=============================================================================
