------------------------------- MODULE Signing -------------------------------
(***************************************************************************)
(* What the network and the relayer's query promise together about one     *)
(* attestation: members of the validator set sign it, in any order, and    *)
(* once those who have signed have enough power, the signatures of some of *)
(* them that have it are the answer (docs/relayer.md, "How it works").     *)
(* There are no peers, no lookups and no failures here.                    *)
(***************************************************************************)
CONSTANTS
    Signers,        \* the validator set
    Quorums         \* its subsets that have enough power

VARIABLES
    signed,         \* members whose signatures have been given to the network
    answer          \* those whose signatures the contract is given, {} before

Init == signed = {} /\ answer = {}

Sign(a) == signed' = signed \union {a} /\ UNCHANGED answer

Answer ==
    /\ answer = {}
    /\ \E Q \in Quorums : Q \subseteq signed /\ answer' = Q
    /\ UNCHANGED signed

Next == Answer \/ \E a \in Signers : Sign(a)

Spec == Init /\ [][Next]_<<signed, answer>>
=============================================================================
