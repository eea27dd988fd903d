----------------------------- MODULE MCRelayer -----------------------------
(* Instances of Relayer for TLC: a contract deployed with attestation 1; 1 *)
(* and 2 are validator sets, 3 is a data commitment.                       *)
EXTENDS Relayer

CONSTANTS primary, backup

MCAlone == {primary}
MCBoth == {primary, backup}
MCBackup == {backup}
MCNobody == {}
MCValsets == {1, 2}
=============================================================================
