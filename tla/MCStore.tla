------------------------------- MODULE MCStore -------------------------------
(* Instances of Store for TLC: a relayer, an orchestrator and a keys command  *)
(* on one home.                                                               *)
EXTENDS Store

CONSTANTS relayer, orchestrator, keys

MCProcs == {relayer, orchestrator, keys}
MCNeeds ==
    [p \in MCProcs |->
        CASE p = relayer -> {"data", "signatures", "keystore/evm"}
          [] p = orchestrator -> {"data", "keystore/evm"}
          [] p = keys -> {"keystore/evm"}]
MCInodes == 1..4
=============================================================================
