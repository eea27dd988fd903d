-------------------------------- MODULE Deploy --------------------------------
(***************************************************************************)
(* The deploy command (cmd/blobstream/deploy) and the queries it starts    *)
(* from (rpc/app_querier.go).                                              *)
(*                                                                         *)
(* A Blobstream contract starts with an attestation's nonce and with the   *)
(* validator set that signs the attestation after it: with any other set   *)
(* it never accepts anything.  The operator asks for the latest, for the   *)
(* earliest, or for a nonce.  The command asks the node for the set and    *)
(* for the nonce in queries of their own, while the chain moves on.  What  *)
(* the node has pruned it looks for in the past states of an archive node, *)
(* Step blocks apart, downwards.  Then it deploys an implementation and    *)
(* its proxy.  Every query may fail.                                       *)
(***************************************************************************)
EXTENDS Integers

CONSTANTS
    MaxNonce,       \* attestations that there will be
    Chains,         \* when each is made, and the set that signs the one after it
    FirstStates,    \* the lowest height whose state the node keeps, 1 for an archive
    Step,           \* BlocksIn20DaysPeriod
    Keep,           \* blocks until an attestation expires
    MaxHeight,      \* bound: the height of the chain
    MaxFailures     \* bound: calls that fail

Nonces == 1..MaxNonce

\* nonces follow the blocks; the first attestation is a validator set; the set
\* that signs n + 1 is the last one up to n
WellFormed(c) ==
    /\ \A n \in Nonces : c[n].set \in 1..n /\ c[c[n].set].set = c[n].set
    /\ \A n \in Nonces : \A m \in (c[n].set + 1)..n : c[m].set # m
    /\ \A m, n \in Nonces : m <= n => c[m].at <= c[n].at

ASSUME BoundAssumption ==
    /\ MaxNonce \in Nat \ {0} /\ MaxHeight \in Nat \ {0} /\ MaxFailures \in Nat
    /\ Step \in Nat \ {0} /\ Keep \in Nat \ {0} /\ FirstStates \subseteq Nat
ASSUME ChainAssumption ==
    /\ Chains \subseteq [Nonces -> [at : Nat \ {0}, set : Nonces]]
    /\ \A c \in Chains : WellFormed(c)

Asks == [mode : {"latest", "earliest"}, nonce : {1}] \union [mode : {"nonce"}, nonce : Nonces]

VARIABLES
    chain, firstState,  \* celestia-app and the node, the same all the time
    height,             \* the height of the chain
    asked,              \* --starting-nonce
    pc,
    at,                 \* the height that is asked about, 0 for the present state
    start,              \* and the one the search has to start from
    latest,             \* latestNonce, as it was answered
    target,             \* the nonce that the archive is searched for
    valset, nonce,      \* what the contract is to start with
    implementation, proxy,  \* the two transactions
    contract,           \* what the contract was initialized with
    failures,           \* calls that failed
    moved               \* history: an attestation was made while the command was asking

chainVars  == <<chain, firstState, height, moved>>
searchVars == <<at, start, latest, target>>
resultVars == <<valset, nonce>>
evmVars    == <<implementation, proxy, contract>>
vars == <<chainVars, asked, pc, searchVars, resultVars, evmVars, failures>>

-----------------------------------------------------------------------------
(* The node's states.                                                      *)

Searching == {"height", "latestNonce", "valset", "before", "first", "firstHistory", "attestation"}
Asking == Searching \union {"nonce"}

IsSet(n) == chain[n].set = n

IsLatest(h, n) == \A m \in Nonces : chain[m].at <= h <=> m <= n

\* What is expired is pruned, except the last one (external)
Has(h, n) == chain[n].at <= h /\ (h < chain[n].at + Keep \/ IsLatest(h, n))

Keeps(h) == h >= firstState

\* the state that a query reads
Now == IF at = 0 THEN height ELSE at
Readable == at = 0 \/ Keeps(at)

CallFails == failures < MaxFailures /\ failures' = failures + 1

\* a query returns an error: there is no answer, or the call fails
Errs(answered) == (~answered /\ UNCHANGED failures) \/ CallFails

\* celestia-app makes a block, and the attestations of its height
Block ==
    /\ height < MaxHeight /\ height' = height + 1
    /\ moved' = IF pc \in Asking /\ \E n \in Nonces : chain[n].at = height + 1
                THEN TRUE ELSE moved
    /\ UNCHANGED <<chain, firstState, asked, pc, searchVars, resultVars, evmVars, failures>>

-----------------------------------------------------------------------------
(* getStartingValset.                                                      *)

Fail == pc' = "failed" /\ UNCHANGED at

StepDown_Unguarded(again) == at' = at - Step /\ pc' = again
StepDown_Further(again) ==
    IF at <= Step + 1 THEN pc' = "notFound" /\ UNCHANGED at
    ELSE at' = at - Step - 1 /\ pc' = again

StepDown(again) ==
    IF at <= Step THEN pc' = "notFound" /\ UNCHANGED at
    ELSE at' = at - Step /\ pc' = again

\* the switch on --starting-nonce
GetStartingValset ==
    /\ pc = "run"
    /\ pc' = IF asked.mode = "latest" THEN "latestNonce"
             ELSE IF asked.mode = "earliest" THEN "first" ELSE "height"
    /\ target' = asked.nonce
    /\ UNCHANGED <<chainVars, asked, at, start, latest, resultVars, evmVars, failures>>

\* TmQuerier.QueryHeight
QueryHeight ==
    /\ pc = "height"
    /\ \/ /\ at' = height /\ start' = height
          /\ pc' = IF asked.mode = "latest" THEN "latestNonce" ELSE "attestation"
          /\ UNCHANGED failures
       \/ CallFails /\ Fail /\ UNCHANGED start
    /\ UNCHANGED <<chainVars, asked, latest, target, resultVars, evmVars>>

\* QueryLatestAttestationNonce, and the historical one of the search
QueryLatestNonce ==
    /\ pc = "latestNonce"
    /\ LET answers == {n \in Nonces : Readable /\ IsLatest(Now, n)}
       IN  \/ latest' \in answers /\ pc' = "valset" /\ UNCHANGED <<at, failures>>
           \/ /\ Errs(answers # {}) /\ UNCHANGED latest
              /\ IF at = 0 THEN pc' = "height" /\ UNCHANGED at ELSE Fail
    /\ UNCHANGED <<chainVars, asked, start, target, resultVars, evmVars>>

\* QueryValsetByNonce, QueryHistoricalValsetByNonce: any error leads to the sets before
QueryValset ==
    /\ pc = "valset"
    /\ LET answered == Readable /\ Has(Now, latest) /\ IsSet(latest)
       IN  \/ answered /\ valset' = latest /\ pc' = "nonce" /\ UNCHANGED failures
           \/ Errs(answered) /\ pc' = "before" /\ UNCHANGED valset
    /\ UNCHANGED <<chainVars, asked, searchVars, nonce, evmVars>>

\* QueryLastValsetBeforeNonce, QueryHistoricalLastValsetBeforeNonce
QueryBefore ==
    /\ pc = "before"
    /\ LET answered == Readable /\ latest > 1 /\ Has(Now, chain[latest - 1].set)
       IN  \/ /\ answered /\ valset' = chain[latest - 1].set
              /\ pc' = "nonce" /\ UNCHANGED <<at, failures>>
           \/ /\ Errs(answered) /\ UNCHANGED valset
              /\ IF at = 0 THEN pc' = "height" /\ UNCHANGED at ELSE StepDown("latestNonce")
    /\ UNCHANGED <<chainVars, asked, start, latest, target, nonce, evmVars>>

\* QueryAttestationByNonce(1), and QueryHistoricalAttestationByNonce(1, 1)
QueryFirst ==
    /\ pc \in {"first", "firstHistory"}
    /\ LET answered == IF pc = "first" THEN Has(height, 1) ELSE Keeps(1) /\ Has(1, 1)
       IN  \/ answered /\ valset' = 1 /\ pc' = "nonce" /\ UNCHANGED failures
           \/ /\ Errs(answered) /\ UNCHANGED valset
              /\ pc' = IF pc = "first" THEN "firstHistory" ELSE "failed"
    /\ UNCHANGED <<chainVars, asked, searchVars, nonce, evmVars>>

\* QueryRecursiveHistoricalAttestationByNonce for the nonce that was asked; if it
\* is a data commitment, then for each nonce before it, from its end block on,
\* until one is a validator set (QueryRecursiveHistoricalLastValsetBeforeNonce).
\* A data commitment is made at its end block (external).
QueryAttestation ==
    /\ pc = "attestation"
    /\ LET answered == Readable /\ Has(at, target)
       IN  \/ /\ answered /\ IsSet(target)
              /\ valset' = target /\ pc' = "nonce"
              /\ UNCHANGED <<at, start, target, failures>>
           \/ /\ answered /\ ~IsSet(target)
              /\ start' = IF target = asked.nonce THEN chain[target].at ELSE start
              /\ at' = start' /\ target' = target - 1
              /\ UNCHANGED <<pc, valset, failures>>
           \/ Errs(answered) /\ StepDown("attestation") /\ UNCHANGED <<start, target, valset>>
    /\ UNCHANGED <<chainVars, asked, latest, nonce, evmVars>>

\* the ten minutes of a search are over
TimeOut ==
    /\ pc \in Searching \ {"height"} /\ at # 0
    /\ Fail
    /\ UNCHANGED <<chainVars, asked, start, latest, target, resultVars, evmVars, failures>>

-----------------------------------------------------------------------------
(* parseStartingNonce, and the deployment.                                 *)

StartingNonce_Latest(n) == IsLatest(height, n)

\* the latest nonce is asked for once more
StartingNonce(n) == IF asked.mode = "latest" THEN IsLatest(height, n) ELSE n = asked.nonce

ParseStartingNonce ==
    /\ pc = "nonce"
    /\ \/ \E n \in Nonces : StartingNonce(n) /\ nonce' = n /\ pc' = "implementation" /\ UNCHANGED failures
       \/ asked.mode = "latest" /\ CallFails /\ pc' = "failed" /\ UNCHANGED nonce
    /\ UNCHANGED <<chainVars, asked, searchVars, valset, evmVars>>

\* DeployImplementation, and with the next account nonce DeployERC1967Proxy
DeployBlobstreamContract ==
    /\ \/ /\ pc = "implementation" /\ pc' = "proxy"
          /\ implementation' = "pending" /\ UNCHANGED <<proxy, failures>>
       \/ /\ pc = "proxy" /\ pc' = "wait"
          /\ proxy' = "pending" /\ UNCHANGED <<implementation, failures>>
       \/ /\ pc \in {"implementation", "proxy"} /\ pc' = "failed"
          /\ CallFails /\ UNCHANGED <<implementation, proxy>>
    /\ UNCHANGED <<chainVars, asked, searchVars, resultVars, contract>>

\* the receipt of the proxy, or five minutes without one
WaitForTransaction ==
    /\ pc = "wait"
    /\ pc' = IF proxy = "mined" THEN "deployed" ELSE "ended"
    /\ UNCHANGED <<chainVars, asked, searchVars, resultVars, evmVars, failures>>

\* The EVM chain: in the order of the account nonces; a proxy without an
\* implementation reverts (external)
Mine ==
    /\ \/ /\ implementation = "pending" /\ implementation' \in {"mined", "reverted"}
          /\ UNCHANGED <<proxy, contract>>
       \/ /\ proxy = "pending" /\ implementation = "mined"
          /\ proxy' = "mined" /\ contract' = [nonce |-> nonce, valset |-> valset]
          /\ UNCHANGED implementation
       \/ /\ proxy = "pending" /\ implementation \in {"mined", "reverted"}
          /\ proxy' = "reverted" /\ UNCHANGED <<implementation, contract>>
    /\ UNCHANGED <<chainVars, asked, pc, searchVars, resultVars, failures>>

-----------------------------------------------------------------------------

NoContract == [nonce |-> 0, valset |-> 0]

Init ==
    /\ chain \in Chains /\ firstState \in FirstStates
    /\ height \in 1..MaxHeight /\ chain[1].at <= height /\ firstState <= height
    /\ asked \in Asks /\ pc = "run"
    /\ at = 0 /\ start = 0 /\ latest = 1 /\ target = 1
    /\ valset = 0 /\ nonce = 0
    /\ implementation = "none" /\ proxy = "none" /\ contract = NoContract
    /\ moved = FALSE /\ failures = 0

Command ==
    \/ GetStartingValset \/ QueryHeight \/ QueryLatestNonce \/ QueryValset \/ QueryBefore
    \/ QueryFirst \/ QueryAttestation \/ ParseStartingNonce
    \/ DeployBlobstreamContract \/ WaitForTransaction

Next == Command \/ TimeOut \/ Block \/ Mine

Spec == Init /\ [][Next]_vars

-----------------------------------------------------------------------------
(* Properties.                                                             *)

Over == {"failed", "notFound", "deployed", "ended"}
Transactions == {"none", "pending", "mined", "reverted"}

\* The types: a search stays at heights of the chain, and at its nonces.
TypeOK ==
    /\ chain \in Chains /\ firstState \in FirstStates /\ height \in 1..MaxHeight
    /\ asked \in Asks
    /\ pc \in Searching \union Over \union {"run", "nonce", "implementation", "proxy", "wait"}
    /\ at \in 0..MaxHeight /\ start \in 0..MaxHeight
    /\ latest \in Nonces /\ target \in Nonces
    /\ valset \in 0..MaxNonce /\ nonce \in 0..MaxNonce
    /\ implementation \in Transactions /\ proxy \in Transactions
    /\ contract \in [nonce : 0..MaxNonce, valset : 0..MaxNonce]
    /\ moved \in BOOLEAN /\ failures \in 0..MaxFailures

StartsWithItsSet == contract # NoContract => contract.valset = chain[contract.nonce].set

\* A contract is initialized with the set that signs the attestation after its
\* nonce, whatever is pruned, however the chain goes on and whichever queries
\* fail, if it was asked for by its nonce or as the earliest; as the latest, if
\* no query failed and no attestation was made meanwhile.
ContractIsUsable ==
    (asked.mode = "latest" => failures = 0 /\ ~moved /\ Step <= Keep) => StartsWithItsSet

\* The search through past states finds what an archive node has: it misses no
\* state between its steps if attestations live as long as a step.
NotFoundIsNotThere ==
    pc = "notFound" /\ Step <= Keep =>
        \/ failures > 0 \/ firstState > 1
        \/ asked.mode = "nonce" /\ chain[asked.nonce].at > start

\* "latest: to deploy the Blobstream contract starting from the latest validator
\* set" (docs/deploy.md): at least if no other attestation is made meanwhile.
LatestStartsWithItsSet == asked.mode = "latest" /\ ~moved => StartsWithItsSet
=============================================================================
