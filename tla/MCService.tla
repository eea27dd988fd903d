------------------------------ MODULE MCService ------------------------------
(* Instances of Service for TLC: on one home, a relayer that is given its     *)
(* settings by flags, with a second relayer that relies on the file, with an  *)
(* orchestrator, or with a keys command.                                      *)
EXTENDS Service

CONSTANTS relayer, another, orchestrator, keys

MCProcs == {relayer, another, orchestrator, keys}
MCServices == {relayer, another, orchestrator}
MCCasts == {{relayer, p} : p \in {another, orchestrator, keys}}
MCNeeds ==
    [p \in MCProcs |->
        CASE p \in {relayer, another} -> {"data", "signatures", "keystore/evm"}
          [] p = orchestrator -> {"data", "keystore/evm"}
          [] p = keys -> {"keystore/evm"}]
MCInodes == 1..3
=============================================================================
