-------------------------------- MODULE Query --------------------------------
(***************************************************************************)
(* The query command (cmd/blobstream/query): who signed the attestation of *)
(* a nonce, how often each validator signed in a range of nonces, and one  *)
(* signature.  It asks the node of Deploy about the attestations, and the  *)
(* P2P network about the confirms, one after the other, while the chain    *)
(* goes on, orchestrators sign, and validators change their monikers or    *)
(* EVM addresses, or leave.                                                *)
(*                                                                         *)
(* A behaviour is one of Deploy, or one of a query.                        *)
(***************************************************************************)
EXTENDS Deploy, FiniteSets, Functions

CONSTANTS
    Validators,     \* EVM addresses, as numbers
    Power,          \* for each nonce of a set, the power of each of its members
    QueryChains,    \* chains that the queries are made on
    Queries,        \* commands: their kind and arguments
    MaxMoniker,     \* bound: the monikers are numbers from 0 to this one
    MaxChanges      \* bound: on what one address stands for while a command runs

Latest == 0         \* the argument "latest"

\* what an EVM address stands for: the moniker and the operator of the validator that
\* has registered it, as one number; or Unknown, if none has
Unknown == MaxMoniker + 1
Infos == 0..Unknown

ASSUME QueryChainsAssumption == QueryChains \subseteq Chains /\ 1 \in FirstStates
ASSUME ValidatorsAssumption ==
    /\ Validators \subseteq Nat /\ IsFiniteSet(Validators)
    /\ MaxMoniker \in Nat /\ MaxChanges \in Nat
    /\ \A s \in Nonces : DOMAIN Power[s] \subseteq Validators /\ Power[s] \in [DOMAIN Power[s] -> Nat]
ASSUME QueriesAssumption ==
    Queries \subseteq [kind : {"nonce", "range", "signature"}, first : Nat, last : Nat,
                       address : Validators, plain : BOOLEAN]

VARIABLES
    query,          \* the command
    confirmed,      \* for each nonce, who has its confirm in the network
    registered,     \* what each of the addresses stands for
    qpc,
    connected,      \* whether one of five attempts reached the target node
    from, to,       \* the nonces asked for, to is excluded
    now,            \* and the one getSignatures is at
    set,            \* lastValset, by its nonce
    infos,          \* validatorsInfo
    todo, signed,   \* members to look up, and those whose confirm was found
    entries,        \* signersMap: for an address and its info, a number of signatures
    relayable,      \* nonces reported as can_relay
    before,         \* history: confirmed when the command began
    seen            \* history: what each address has stood for since

worldVars  == <<confirmed, registered>>
askVars    == <<connected, from, to, now, set, infos, todo, signed>>
reportVars == <<entries, relayable>>
pastVars   == <<before, seen>>
queryVars  == <<query, worldVars, qpc, askVars, reportVars, pastVars>>
allVars    == <<vars, queryVars>>

-----------------------------------------------------------------------------
(* The chain and the orchestrators.                                        *)

Made(n) == n \in Nonces /\ chain[n].at <= height
There(n) == n \in Nonces /\ Has(height, n)

\* the nonce of the set that signs attestation n, n > 1
SetOf(n) == chain[n - 1].set
Members(s) == DOMAIN Power[s]

\* the part of Deploy that a step of the query leaves alone, but for the failures
deployVars == <<chainVars, asked, pc, searchVars, resultVars, evmVars>>

\* an orchestrator's confirm comes into the network
Confirm(n, v) ==
    /\ query.kind # "none"
    /\ n > 1 /\ Made(n) /\ v \in Members(SetOf(n)) \ confirmed[n]
    /\ confirmed' = [confirmed EXCEPT ![n] = @ \union {v}]
    /\ UNCHANGED <<vars, query, registered, qpc, askVars, reportVars, pastVars>>

\* MsgEditValidator, MsgRegisterEVMAddress or MsgUndelegate of celestia-app: a
\* validator changes its moniker, registers another address while the sets that it
\* is in with v are still to sign, or v again, or leaves.
Register(v, i) ==
    /\ qpc = "staking" \* it is looked at nowhere else
    /\ i # registered[v] /\ registered' = [registered EXCEPT ![v] = i]
    /\ seen' = [seen EXCEPT ![v] = @ \union {i}]
    /\ Cardinality(seen'[v]) <= 1 + MaxChanges
    /\ \A w \in Validators \ {v} : seen[w] = {registered[w]}
    /\ UNCHANGED <<vars, query, confirmed, qpc, askVars, reportVars, before>>

-----------------------------------------------------------------------------
(* The command.                                                            *)

Go(step) == qpc' = step
Ends == UNCHANGED <<askVars, reportVars>>

\* a query of the node or the network that has an answer, or returns an error
Answered(answer) == answer /\ UNCHANGED failures
Failed(answer) == Errs(answer) /\ Go("failed") /\ Ends

\* startResources: the queriers, and five attempts to connect to the target node;
\* after the last one it goes on without
StartResources ==
    /\ qpc = "idle" /\ query.kind # "none"
    /\ before' = confirmed
    /\ \/ CallFails /\ Go("failed") /\ Ends
       \/ /\ Go("first")
          /\ \/ connected' = TRUE /\ UNCHANGED failures
             \/ connected' = FALSE /\ CallFails
          /\ UNCHANGED <<from, to, now, set, infos, todo, signed, reportVars>>
    /\ UNCHANGED <<deployVars, query, worldVars, seen>>

\* parseNonce: a number, or what QueryLatestAttestationNonce answers
Parse(arg, n) == IF arg = Latest THEN IsLatest(height, n) ELSE n = arg

\* The first argument; for one nonce the command is a range of one.  Nonce 1 is
\* refused by the commands for one nonce, and "latest" as the start of a range.
ParseFirst ==
    /\ qpc = "first"
    /\ \/ /\ ~(query.kind = "range" /\ query.first = Latest)
          /\ \E n \in 0..MaxNonce + 1 :
               /\ Parse(query.first, n)
               /\ IF query.kind = "range"
                  THEN Go("last") /\ from' = n /\ UNCHANGED <<to, now>>
                  ELSE IF n = 1 THEN Go("failed") /\ UNCHANGED <<from, to, now>>
                  ELSE /\ Go(IF query.kind = "nonce" THEN "valset" ELSE "attestation")
                       /\ from' = n /\ to' = n + 1 /\ now' = n
          /\ UNCHANGED <<failures, connected, set, infos, todo, signed, reportVars>>
       \/ query.kind = "range" /\ query.first = Latest /\ Go("failed") /\ Ends /\ UNCHANGED failures
       \/ query.first = Latest /\ CallFails /\ Go("failed") /\ Ends
    /\ UNCHANGED <<deployVars, query, worldVars, pastVars>>

\* validateRange
ValidRange(a, b) == a # 0 /\ b # 0 /\ a < b

ParseLast ==
    /\ qpc = "last"
    /\ \/ /\ \E n \in 0..MaxNonce + 1 :
               /\ Parse(query.last, n)
               /\ IF ValidRange(from, n)
                  THEN Go("valset") /\ to' = n /\ now' = from
                  ELSE Go("failed") /\ UNCHANGED <<to, now>>
          /\ UNCHANGED <<failures, connected, from, set, infos, todo, signed, reportVars>>
       \/ query.last = Latest /\ CallFails /\ Go("failed") /\ Ends
    /\ UNCHANGED <<deployVars, query, worldVars, pastVars>>

LastValset_Own(n) == chain[n].set
LastValset(n) == SetOf(n)

\* getSignatures: QueryLastValsetBeforeNonce
GetValset ==
    /\ qpc = "valset"
    /\ LET answer == now > 1 /\ now \in Nonces /\ Made(now) /\ There(SetOf(now))
       IN  \/ /\ Answered(answer) /\ set' = LastValset(now) /\ Go("staking")
              /\ UNCHANGED <<connected, from, to, now, infos, todo, signed, reportVars>>
           \/ Failed(answer)
    /\ UNCHANGED <<deployVars, query, worldVars, pastVars>>

ValidatorsInfo_Partial ==
    \/ infos' = registered /\ UNCHANGED failures
    \/ \E v \in Validators : infos' = [registered EXCEPT ![v] = Unknown] /\ CallFails

\* The validators by their addresses.  A member of the set whose address is not
\* among them is read as having no moniker and no operator.
ValidatorsInfo == infos' = registered /\ UNCHANGED failures

\* QueryStakingValidatorSet, and QueryEVMAddress for each (toValidatorsInfo)
ToValidatorsInfo ==
    /\ qpc = "staking"
    /\ \/ /\ ValidatorsInfo /\ Go("attestation")
          /\ UNCHANGED <<connected, from, to, now, set, todo, signed, reportVars>>
       \/ Failed(TRUE)
    /\ UNCHANGED <<deployVars, query, worldVars, pastVars>>

\* QueryAttestationByNonce, and QueryCommitment for a data commitment
GetAttestation ==
    /\ qpc = "attestation"
    /\ \/ /\ Answered(There(now))
          /\ todo' = (IF query.kind = "signature" THEN {query.address} ELSE Members(set))
          /\ signed' = {} /\ Go("confirms")
          /\ UNCHANGED <<connected, from, to, now, set, infos, reportVars>>
       \/ Failed(There(now))
    /\ UNCHANGED <<deployVars, query, worldVars, pastVars>>

\* The key is made of the address as it is spelled: the set's is the one that
\* orchestrators use, the operator's may be another.
Spelled == query.kind = "signature" => query.plain
Reaches_AnyNonce(v) == connected /\ Spelled /\ \E n \in 1..now : v \in confirmed[n]
Reaches(v) == connected /\ Spelled /\ v \in confirmed[now]

LookedUp_UntilFound(v) == todo' = IF Reaches(v) THEN todo \ {v} ELSE todo
LookedUp(v) == todo' = todo \ {v}

\* QueryValsetConfirms, QueryDataCommitmentConfirms, and those by EVM address: a
\* confirm, ErrNotFound, also where the holders are missed, or an error
GetConfirm ==
    /\ qpc = "confirms" /\ todo # {}
    /\ \E v \in todo :
         /\ \A w \in todo : v <= w
         /\ \/ /\ \/ Reaches(v) /\ signed' = signed \union {v} /\ UNCHANGED failures
                  \/ ~Reaches(v) /\ UNCHANGED <<signed, failures>>
                  \/ Reaches(v) /\ CallFails /\ UNCHANGED signed
               /\ LookedUp(v) /\ UNCHANGED qpc
               /\ UNCHANGED <<connected, from, to, now, set, infos, reportVars>>
            \/ Failed(TRUE)
    /\ UNCHANGED <<deployVars, query, worldVars, pastVars>>

Threshold(s) == 2 * (SumFunction(Power[s]) \div 3 + 1)
PowerOf(S, s) == SumFunction([v \in S |-> Power[s][v]])

CanRelay == PowerOf(signed, set) >= Threshold(set)

NoEntry == [v \in Validators |-> [i \in Infos |-> -1]]

\* one more for who signed; who did not has an entry nonetheless
Count(n, found) == (IF n = -1 THEN 0 ELSE n) + (IF found THEN 1 ELSE 0)
Counted ==
    [v \in Validators |->
        IF v \notin Members(set) THEN entries[v]
        ELSE [entries[v] EXCEPT ![infos[v]] = Count(@, v \in signed)]]

LastNonce_Inclusive == now' = now + 1 /\ Go(IF now = to THEN "output" ELSE "valset")
LastNonce == now' = now + 1 /\ Go(IF now + 1 = to THEN "output" ELSE "valset")

\* toQueryOutput, and the loops over the nonces and over their outputs
ToQueryOutput ==
    /\ qpc = "confirms" /\ todo = {} /\ query.kind # "signature"
    /\ entries' = Counted
    /\ relayable' = IF CanRelay THEN relayable \union {now} ELSE relayable
    /\ LastNonce
    /\ UNCHANGED <<deployVars, failures, query, worldVars, connected, from, to, set, infos, todo,
                   signed, pastVars>>

\* The output is printed, or appended to a file, which may fail; the signature is
\* printed.
Output ==
    /\ \/ qpc = "output"
       \/ qpc = "confirms" /\ todo = {} /\ query.kind = "signature"
    /\ \/ Go("done") /\ UNCHANGED failures
       \/ qpc = "output" /\ CallFails /\ Go("failed")
    /\ UNCHANGED <<deployVars, query, worldVars, askVars, reportVars, pastVars>>

-----------------------------------------------------------------------------

NoQuery == [kind |-> "none", first |-> 0, last |-> 0, address |-> 0, plain |-> TRUE]

Asks0 ==
    /\ confirmed = [n \in Nonces |-> {}] /\ registered = [v \in Validators |-> 0]
    /\ qpc = "idle" /\ connected = FALSE
    /\ from = 0 /\ to = 0 /\ now = 0 /\ set = 1
    /\ infos = [v \in Validators |-> 0] /\ todo = {} /\ signed = {}
    /\ entries = NoEntry /\ relayable = {}
    /\ before = [n \in Nonces |-> {}] /\ seen = [v \in Validators |-> {registered[v]}]

\* nobody deploys a contract
NoDeployment ==
    /\ chain \in QueryChains /\ firstState = 1 /\ height \in 1..MaxHeight /\ chain[1].at <= height
    /\ asked \in Asks /\ asked.mode = "earliest" /\ pc = "ended"
    /\ at = 0 /\ start = 0 /\ latest = 1 /\ target = 1 /\ valset = 0 /\ nonce = 0
    /\ implementation = "none" /\ proxy = "none" /\ contract = NoContract
    /\ moved = FALSE /\ failures = 0

QueryInit ==
    /\ Asks0
    /\ \/ query = NoQuery /\ Init
       \/ query \in Queries /\ NoDeployment

QueryCommand ==
    \/ StartResources \/ ParseFirst \/ ParseLast \/ GetValset \/ ToValidatorsInfo
    \/ GetAttestation \/ GetConfirm \/ ToQueryOutput \/ Output

QueryNext ==
    \/ Next /\ UNCHANGED queryVars
    \/ \E n \in Nonces, v \in Validators : Confirm(n, v)
    \/ \E v \in Validators, i \in Infos : Register(v, i)
    \/ QueryCommand

QuerySpec == QueryInit /\ [][QueryNext]_allVars

\* every call of the commands returns, sooner or later
FairQuerySpec ==
    QuerySpec /\ WF_allVars((Command /\ UNCHANGED queryVars) \/ QueryCommand)

-----------------------------------------------------------------------------
(* Properties.                                                             *)

QueryStateOK ==
    /\ query \in Queries \union {NoQuery}
    /\ confirmed \in [Nonces -> SUBSET Validators] /\ before \in [Nonces -> SUBSET Validators]
    /\ registered \in [Validators -> Infos] /\ infos \in [Validators -> Infos]
    /\ seen \in [Validators -> SUBSET Infos]
    /\ qpc \in {"idle", "first", "last", "valset", "staking", "attestation", "confirms",
                "output", "done", "failed"}
    /\ connected \in BOOLEAN
    /\ from \in 0..MaxNonce + 1 /\ to \in 0..MaxNonce + 2 /\ now \in 0..MaxNonce + 2
    /\ set \in Nonces /\ todo \subseteq Validators /\ signed \subseteq Validators
    /\ entries \in [Validators -> [Infos -> {-1} \union Nat]]
    /\ relayable \subseteq Nonces

QueryTypeOK == TypeOK /\ QueryStateOK

Reported == qpc = "done" /\ query.kind \in {"nonce", "range"}

\* who was to sign n and had when the confirms were as in c
SignedIn(c, n) == c[n] \intersect Members(SetOf(n))
Times(c, v) == Cardinality({n \in from..to - 1 : v \in SignedIn(c, n)})

\* the signatures of v, in all its entries
Signatures(v) == LET e == entries[v] IN SumFunction([k \in {i \in DOMAIN e : e[i] # -1} |-> e[k]])

\* The confirms are looked up one by one while others arrive: nobody is credited
\* with a signature that is not there, or with one of a set he is not in; and if
\* no call failed, nobody is denied one that was there from the beginning.
ReportIsTrue ==
    Reported => \A v \in Validators :
        /\ Signatures(v) <= Times(confirmed, v)
        /\ failures = 0 => Signatures(v) >= Times(before, v)

\* What is reported as can_relay has enough power for the contract, of the set
\* that it trusts at that nonce; what had before the query, and was looked up
\* without a failure, is reported.
CanRelayIsTrue ==
    /\ \A n \in relayable : PowerOf(SignedIn(confirmed, n), SetOf(n)) >= Threshold(SetOf(n))
    /\ Reported /\ failures = 0 =>
         \A n \in from..to - 1 :
             PowerOf(SignedIn(before, n), SetOf(n)) >= Threshold(SetOf(n)) => n \in relayable

\* What an address stands for is asked anew with each nonce, and is part of what
\* signatures are counted by: whoever was to sign has an entry, under nothing but
\* what the address stood for while the command ran.  An address that was
\* registered all along is never shown as unknown, whatever call failed.
EntriesAreTrue ==
    /\ \A v \in Validators : {i \in Infos : entries[v][i] # -1} \subseteq seen[v]
    /\ Reported => \A v \in Validators :
         (\E i \in Infos : entries[v][i] # -1) <=> (\E n \in from..to - 1 : v \in Members(SetOf(n)))

\* A signature that is told is there; if it is not found, it was not there, or it
\* was asked for in another spelling, or a call failed.
SignatureIsTold ==
    qpc = "done" /\ query.kind = "signature" =>
        /\ signed # {} => query.address \in confirmed[now]
        /\ query.address \in before[now] => signed # {} \/ ~query.plain \/ failures > 0

\* The commands return: each of their loops ends.
CommandsReturn == <>(pc \in Over /\ (query.kind = "none" \/ qpc \in {"done", "failed"}))
=============================================================================
