--------------------------- MODULE MCOrchestrator ---------------------------
(* Instances of Orchestrator for TLC: attestation 1 is a validator set, 2 is   *)
(* a data commitment or another set.                                           *)
EXTENDS Orchestrator

\* the set that stays, and has the orchestrator in it
MCStays == {1}

\* the set that changes, and then has the orchestrator in it
MCChanges == {1, 2}
MCJoins == {2}
=============================================================================
