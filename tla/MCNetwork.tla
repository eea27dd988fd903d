------------------------------ MODULE MCNetwork ------------------------------
(* Instances of Network for TLC: three validators of power 5, 3 and 2, of     *)
(* whom the first two are just enough.                                        *)
EXTENDS Network

CONSTANTS orchestrators, relayer

MCMembers == <<"a", "b", "c">>
MCPower == [x \in {"a", "b", "c"} |-> CASE x = "a" -> 5 [] x = "b" -> 3 [] x = "c" -> 2]
MCHome == [x \in {"a", "b", "c"} |-> orchestrators]
MCPeers == {orchestrators, relayer}

\* c's confirm with its address in small letters, and under the key of a a
\* confirm whose signature is c's
MCForeign ==
    {<<"c", [EthAddress |-> "c", plain |-> FALSE, Signature |-> Genuine("c")]>>,
     <<"a", [EthAddress |-> "a", plain |-> TRUE, Signature |-> Genuine("c")]>>}
=============================================================================
