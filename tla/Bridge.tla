------------------------------- MODULE Bridge -------------------------------
(***************************************************************************)
(* What the relayers promise together, whatever they do one by one: the    *)
(* attestations of the chain reach the contract one after the other, each  *)
(* only after enough orchestrators have signed it (docs/relayer.md, "How   *)
(* it works").                                                             *)
(***************************************************************************)
EXTENDS Naturals

CONSTANTS
    Attestations,   \* what the chain may make: numbers from 1
    Deployed        \* those the contract was deployed with

VARIABLES
    made,           \* attestations of the chain
    signed,         \* those with 2/3 of their signatures in the network
    relayed         \* those the contract has

\* the attestations come to a set of them in their order
IsNext(n, S) == n \in Attestations \ S /\ \A m \in Attestations : m < n => m \in S

Init ==
    /\ \E n \in Attestations : made = {m \in Attestations : m <= n}
    /\ Deployed \subseteq made
    /\ signed = {}
    /\ relayed = Deployed

Attest(n) ==
    /\ IsNext(n, made)
    /\ made' = made \union {n}
    /\ UNCHANGED <<signed, relayed>>

Sign(n) ==
    /\ n \in made \ Deployed
    /\ signed' = signed \union {n}
    /\ UNCHANGED <<made, relayed>>

Relay(n) ==
    /\ IsNext(n, relayed) /\ n \in made /\ n \in signed
    /\ relayed' = relayed \union {n}
    /\ UNCHANGED <<made, signed>>

RelayNext == \E n \in Attestations : Relay(n)

Next == RelayNext \/ \E n \in Attestations : Attest(n) \/ Sign(n)

vars == <<made, signed, relayed>>

Spec == Init /\ [][Next]_vars

\* what can be relayed is relayed
Fairness == WF_vars(RelayNext)
=============================================================================
