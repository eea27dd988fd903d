------------------------------- MODULE Network -------------------------------
(***************************************************************************)
(* The P2P network between the orchestrators and a relayer (p2p/).         *)
(*                                                                         *)
(* Every peer keeps values by key.  An orchestrator puts its confirm of an *)
(* attestation under a key made of the attestation, its EVM address and    *)
(* the digest it signed; all of them put validator sets under one key,     *)
(* "latest".  A put reaches any peers, in any order, late, several times   *)
(* or never; each peer asks the validators of p2p/validators.go whether    *)
(* the value is valid, and whether it replaces the one it has.  The        *)
(* relayer looks the confirms up one validator at a time, again and again, *)
(* until the power of the signers is 2/3 of the set (p2p/querier.go), and  *)
(* lays the signatures out for the contract.                               *)
(*                                                                         *)
(* The module follows one attestation, and the key "latest".  How the DHT  *)
(* routes, stores and expires is the library's (external).                 *)
(***************************************************************************)
EXTENDS Integers, Sequences, FiniteSetsExt, Functions

CONSTANTS
    Peers,          \* nodes of the network
    Relayer,        \* the relayer's
    Members,        \* the validator set that signs, a sequence of EVM addresses
    Power,          \* the power of each
    Home,           \* the peer of each one's orchestrator
    Foreign,        \* other puts under the confirms' keys: <<address, confirm>>
    MaxValset,      \* bound: nonces of the validator sets that are put
    MaxFailures,    \* bound: lookups that fail or miss the holders, and timeouts
    MaxLeaves       \* bound: times a peer leaves

Indices == 1..Len(Members)
Addresses == {Members[i] : i \in Indices}

\* A signature, by a key over a digest.  "digest" is the attestation's.
Signatures == [by : Addresses, over : {"digest", "another"}]
Genuine(a) == [by |-> a, over |-> "digest"]
NoSignature == [by |-> "nobody", over |-> "nothing"]

\* types.ValsetConfirm, types.DataCommitmentConfirm; plain is whether EthAddress
\* is spelled as Address.Hex() does, with the checksum's capitals
Confirms == [EthAddress : Addresses, plain : BOOLEAN, Signature : Signatures]
NoConfirm == [EthAddress |-> "nobody", plain |-> FALSE, Signature |-> NoSignature]

ASSUME PeersAssumption == Relayer \in Peers /\ Home \in [Addresses -> Peers]
ASSUME MembersAssumption ==
    /\ Members \in Seq(STRING) \ {<<>>} /\ "nobody" \notin Addresses
    /\ \A i, j \in Indices : Members[i] = Members[j] => i = j
    /\ Power \in [Addresses -> Nat]
ASSUME ForeignAssumption == Foreign \subseteq Addresses \X Confirms
ASSUME BoundAssumption ==
    MaxValset \in Nat /\ MaxFailures \in Nat /\ MaxLeaves \in Nat

VARIABLES
    online,         \* peers that answer
    confirms,       \* each peer's datastore: the confirm under each address's key
    valset,         \* and the nonce of the set under the key "latest", 0 if none
    sentConfirms,   \* confirms that were put, each with its key's address
    sentValsets,    \* validator sets that were put
    \* QueryTwoThirdsValsetConfirms, QueryTwoThirdsDataCommitmentConfirms
    qpc, member, found,
    sigs,           \* the signatures submitted to the contract
    \* spent budgets
    failures, leaves

storeVars  == <<confirms, valset>>
sentVars   == <<sentConfirms, sentValsets>>
queryVars  == <<qpc, member, found, sigs>>
budgetVars == <<failures, leaves>>
vars == <<online, storeVars, sentVars, queryVars, budgetVars>>

-----------------------------------------------------------------------------
(* The validators.                                                         *)

Valid_AnySigner(a, c) == c.EthAddress = a

\* Validate: the address of the value is the key's, whatever its capitals, and
\* recovering the signature over the key's digest gives that address
Valid(a, c) == c.EthAddress = a /\ c.Signature = Genuine(a)

\* Select: the first valid one; an error, here 0, if there is none
SelectConfirm(a, values) ==
    LET valid == {i \in DOMAIN values : Valid(a, values[i])}
    IN  IF valid = {} THEN 0 ELSE Min(valid)

SelectValset_First(values) == 1

\* Select: latestIndex moves where a nonce is above the one before it, as
\* latestNonce follows every value
SelectValset(values) ==
    LET before(i) == IF i = 1 THEN 0 ELSE values[i - 1]
        rises == {i \in DOMAIN values : values[i] > before(i)}
    IN  IF rises = {} THEN 1 ELSE Max(rises)

\* the DHT stores a value if Select prefers it to the one it has (to store the
\* same one again changes nothing)
StoresConfirm(p, a, c) ==
    /\ Valid(a, c) /\ confirms[p][a] # c
    /\ confirms[p][a] # NoConfirm => SelectConfirm(a, <<c, confirms[p][a]>>) = 1
StoresValset(p, n) ==
    /\ valset[p] # n
    /\ valset[p] # 0 => SelectValset(<<n, valset[p]>>) = 1

-----------------------------------------------------------------------------
(* The orchestrators and the network.                                      *)

\* the broadcaster refuses to put while its routing table is empty
HasPeers(p) == p \in online /\ online # {p}

Confirm(a) == [EthAddress |-> a, plain |-> TRUE, Signature |-> Genuine(a)]

\* ProvideValsetConfirm, ProvideDataCommitmentConfirm
ProvideConfirm(a) ==
    /\ HasPeers(Home[a]) /\ StoresConfirm(Home[a], a, Confirm(a))
    /\ confirms' = [confirms EXCEPT ![Home[a]][a] = Confirm(a)]
    /\ sentConfirms' = sentConfirms \union {<<a, Confirm(a)>>}
    /\ UNCHANGED <<online, valset, sentValsets, queryVars, budgetVars>>

\* ProvideLatestValset: an orchestrator offers each set that it meets, and it
\* meets the newest first when it starts
ProvideLatestValset(p, n) ==
    /\ HasPeers(p) /\ StoresValset(p, n)
    /\ valset' = [valset EXCEPT ![p] = n]
    /\ sentValsets' = sentValsets \union {n}
    /\ UNCHANGED <<online, confirms, sentConfirms, queryVars, budgetVars>>

\* some other program puts a confirm
PutForeign ==
    /\ \E m \in Foreign : sentConfirms' = sentConfirms \union {m}
    /\ UNCHANGED <<online, storeVars, sentValsets, queryVars, budgetVars>>

\* a peer receives a put, or a correction of its value, for the first time or again
ReceiveConfirm(p) ==
    /\ p \in online
    /\ \E m \in sentConfirms :
         /\ StoresConfirm(p, m[1], m[2])
         /\ confirms' = [confirms EXCEPT ![p][m[1]] = m[2]]
    /\ UNCHANGED <<online, valset, sentVars, queryVars, budgetVars>>

ReceiveValset(p) ==
    /\ p \in online
    /\ \E n \in sentValsets :
         /\ StoresValset(p, n)
         /\ valset' = [valset EXCEPT ![p] = n]
    /\ UNCHANGED <<online, confirms, sentVars, queryVars, budgetVars>>

\* A peer goes away, and comes back with the datastore it has on disk.
Leave(p) ==
    /\ p \in online \ {Relayer}
    /\ leaves < MaxLeaves /\ leaves' = leaves + 1
    /\ online' = online \ {p}
    /\ UNCHANGED <<storeVars, sentVars, queryVars, failures>>

Join(p) ==
    /\ p \in Peers \ online
    /\ online' = online \union {p}
    /\ UNCHANGED <<storeVars, sentVars, queryVars, budgetVars>>

-----------------------------------------------------------------------------
(* The relayer's query.                                                    *)

NoneFound == [i \in Indices |-> NoConfirm]

\* queryFunc returns, and its list of confirms is gone
Return == member' = 1 /\ found' = NoneFound

\* valset.Members, one after the other; the query starts at once, then at
\* every tick of its rate, and after an error when the relayer tries again
StartQuery ==
    /\ qpc \in {"idle", "tick", "failed"}
    /\ qpc' = "get"
    /\ UNCHANGED <<online, storeVars, sentVars, member, found, sigs, budgetVars>>

\* what a lookup that reaches its holders may return
Held(a) == {c \in {confirms[p][a] : p \in online} : c # NoConfirm /\ Valid(a, c)}

LastMember_OffByOne == member > Len(Members)
LastMember == member = Len(Members)

Proceed ==
    IF LastMember THEN qpc' = "check" /\ UNCHANGED member
    ELSE member' = member + 1 /\ UNCHANGED qpc

\* GetValsetConfirm, GetDataCommitmentConfirm: a confirm, ErrNotFound, or an error
GetConfirm ==
    /\ qpc = "get"
    /\ \/ /\ \E c \in Held(Members[member]) : found' = [found EXCEPT ![member] = c]
          /\ Proceed /\ UNCHANGED failures
       \/ /\ Held(Members[member]) = {}
          /\ Proceed /\ UNCHANGED <<found, failures>>
       \/ /\ Held(Members[member]) # {}
          /\ failures < MaxFailures /\ failures' = failures + 1
          /\ Proceed /\ UNCHANGED found
       \/ /\ failures < MaxFailures /\ failures' = failures + 1
          /\ qpc' = "failed" /\ Return
    /\ UNCHANGED <<online, storeVars, sentVars, sigs, leaves>>

\* Valset.TwoThirdsThreshold (celestia-app)
TwoThirdsThreshold == 2 * (SumFunction(Power) \div 3 + 1)

\* a confirm counts if its address is, letter for letter, one of the set's
Counts(i) == found[i] # NoConfirm /\ found[i].plain /\ found[i].EthAddress \in Addresses

FoundPower == SumFunction([i \in {j \in Indices : Counts(j)} |-> Power[found[i].EthAddress]])

Enough_More == FoundPower > TwoThirdsThreshold
Enough_Heads == 3 * Cardinality({i \in Indices : Counts(i)}) >= 2 * Len(Members)
Enough == FoundPower >= TwoThirdsThreshold

\* matchAttestationConfirmSigs: a map from the confirms' addresses, where a later
\* confirm overwrites an earlier one, read in the order of the set
MatchAttestationConfirmSigs ==
    [i \in Indices |->
        LET mine == {j \in Indices : Counts(j) /\ found[j].EthAddress = Members[i]}
        IN  IF mine = {} THEN NoSignature ELSE found[Max(mine)].Signature]

Check ==
    /\ qpc = "check"
    /\ \/ Enough /\ qpc' = "found" /\ sigs' = MatchAttestationConfirmSigs
       \/ ~Enough /\ qpc' = "tick" /\ UNCHANGED sigs
    /\ Return
    /\ UNCHANGED <<online, storeVars, sentVars, budgetVars>>

\* half an hour has passed
TimeOut ==
    /\ qpc = "tick"
    /\ failures < MaxFailures /\ failures' = failures + 1
    /\ qpc' = "failed"
    /\ UNCHANGED <<online, storeVars, sentVars, member, found, sigs, leaves>>

-----------------------------------------------------------------------------

Init ==
    /\ online = Peers
    /\ confirms = [p \in Peers |-> [a \in Addresses |-> NoConfirm]]
    /\ valset = [p \in Peers |-> 0]
    /\ sentConfirms = {} /\ sentValsets = {}
    /\ qpc = "idle" /\ member = 1 /\ found = NoneFound
    /\ sigs = [i \in Indices |-> NoSignature]
    /\ failures = 0 /\ leaves = 0

Orchestrators ==
    \/ \E a \in Addresses : ProvideConfirm(a)
    \/ \E p \in Peers, n \in 1..MaxValset : ProvideLatestValset(p, n)

DHT ==
    \/ PutForeign
    \/ \E p \in Peers : ReceiveConfirm(p) \/ ReceiveValset(p) \/ Leave(p) \/ Join(p)

Query == StartQuery \/ GetConfirm \/ Check

Next == Orchestrators \/ DHT \/ Query \/ TimeOut

Spec == Init /\ [][Next]_vars

\* the relayer's goroutine runs, its ticker ticks and its lookups return
FairSpec == Spec /\ WF_vars(Query)

-----------------------------------------------------------------------------
(* Properties.                                                             *)

TypeOK ==
    /\ online \subseteq Peers
    /\ confirms \in [Peers -> [Addresses -> Confirms \union {NoConfirm}]]
    /\ valset \in [Peers -> 0..MaxValset]
    /\ sentConfirms \subseteq Addresses \X Confirms
    /\ sentValsets \subseteq 1..MaxValset
    /\ qpc \in {"idle", "get", "check", "tick", "found", "failed"}
    /\ member \in Indices
    /\ found \in [Indices -> Confirms \union {NoConfirm}]
    /\ sigs \in [Indices -> Signatures \union {NoSignature}]
    /\ failures \in Nat /\ leaves \in Nat

\* What the relayer submits satisfies the contract: every signature stands at the
\* place of its signer, recovers to it, and together they reach 2/3 of the power.
\* (The query counts by the confirms' addresses and matches by the set's, and
\* trusts the validators for the rest.)
FoundIsEnough ==
    qpc = "found" =>
        LET signed == {i \in Indices : sigs[i] # NoSignature}
        IN  /\ \A i \in signed : sigs[i] = Genuine(Members[i])
            /\ SumFunction([i \in signed |-> Power[Members[i]]]) >= TwoThirdsThreshold

\* The network and the query are a quorum: whatever peers hold, lose and repeat,
\* the signatures that the relayer submits were made and put by members of the set
\* who have enough power, each stands at its member's place, and there is one answer.
PowerOf(S) == SumFunction([a \in S |-> Power[a]])
Quorums == {S \in SUBSET Addresses : PowerOf(S) >= TwoThirdsThreshold}
SignedBy(a) == \E m \in sentConfirms : m[2].Signature = Genuine(a)
Abstract == INSTANCE Signing WITH
    Signers <- Addresses,
    signed <- {a \in Addresses : SignedBy(a)},
    answer <- {Members[i] : i \in {j \in Indices : sigs[j] = Genuine(Members[j])}}

ImplementsQuorum == Abstract!Spec

\* However the puts are delayed, repeated or reordered, and although an
\* orchestrator offers old sets after new ones, no peer goes back to an older set.
NeverBack == [][\A p \in Peers : valset'[p] >= valset[p]]_vars

\* the power of the members whose confirm the peers that answer hold, as put by
\* the orchestrator
HeldPower ==
    SumFunction([i \in {j \in Indices : Held(Members[j]) = {Confirm(Members[j])}} |-> Power[Members[i]]])

\* If enough confirms stay within reach, the relayer finds them, whatever lookups
\* fail, miss or time out before.
EnoughIsFound == <>[](HeldPower >= TwoThirdsThreshold) => <>(qpc = "found")
=============================================================================
