------------------------------ MODULE MCQuery ------------------------------
(* Instances of Query for TLC: Deploy's, with every chain of three            *)
(* attestations; and queries on chains whose second attestation is a set, or  *)
(* not, made late enough for none, one or all to be pruned meanwhile.         *)
EXTENDS Query

CONSTANT LastMade

MCChains ==
    {c \in [Nonces -> [at : 1..LastMade, set : Nonces]] : WellFormed(c)}
MCFirstStates == {1, 3}

Made4(s) == [at |-> 4, set |-> s]
Made5(s) == [at |-> 5, set |-> s]

\* by height and by set: the second attestation is a set or a commitment
MCQueryChains ==
    {(<<Made4(1), Made4(2), Made5(2)>>), (<<Made4(1), Made5(1), Made5(1)>>)}

\* the first is enough alone in the first set, in the second both are needed
MCValidators == {1, 2}
MCPower == <<(<<8, 1>>), (<<5, 4>>), (<<5, 4>>)>>

Asked(kind, n, m, plain) == [kind |-> kind, first |-> n, last |-> m, address |-> 1, plain |-> plain]
Nonce(n) == Asked("nonce", n, 0, TRUE)
FromTo(n, m) == Asked("range", n, m, TRUE)
Sign(n, plain) == Asked("signature", n, 0, plain)

MCQueries ==
    {Nonce(n) : n \in {Latest, 1}} \union {FromTo(Latest, 4), FromTo(1, 4), FromTo(2, Latest)}
    \union {FromTo(2, n) : n \in {2, 4}} \union {Sign(3, TRUE), Sign(2, FALSE)}
=============================================================================
