----------------------------- MODULE QueryProofs -----------------------------
(***************************************************************************)
(* Theorems about the query command, for every chain, any validators and   *)
(* powers, any queries and any number of failures; what DeployProofs shows *)
(* of deployments carries over.                                            *)
(***************************************************************************)
EXTENDS Query, DeployProofs, SetLemmas

-----------------------------------------------------------------------------
(* Deployments and queries.                                                *)

\* A behaviour is one of Deploy, or one of a query that nobody deploys beside.
OneCommand ==
    /\ query \in Queries \union {NoQuery}
    /\ query = NoQuery => DeployInv /\ qpc = "idle"
    /\ query # NoQuery =>
         TypeOK /\ pc = "ended" /\ implementation = "none" /\ proxy = "none" /\ contract = NoContract

LEMMA Kinds ==
    ASSUME query \in Queries \union {NoQuery}
    PROVE  /\ query.kind = "none" <=> query = NoQuery
           /\ query.kind \in {"none", "nonce", "range", "signature"}
           /\ query # NoQuery => query.address \in Validators
BY QueriesAssumption DEF NoQuery

\* what a step of the query changes of Deploy's variables
LEMMA QueryFrame ==
    ASSUME \/ QueryCommand
           \/ \E n \in Nonces, v \in Validators : Confirm(n, v)
           \/ \E v \in Validators, i \in Infos : Register(v, i)
    PROVE  /\ UNCHANGED <<deployVars, query>> /\ (UNCHANGED failures \/ CallFails)
           /\ query.kind # "none" \/ qpc # "idle"
BY DEF QueryCommand, StartResources, ParseFirst, ParseLast, GetValset, ToValidatorsInfo, ValidatorsInfo,
       GetAttestation, GetConfirm, ToQueryOutput, Output, Confirm, Register, Answered, Failed, Errs,
       deployVars, vars

LEMMA OneCommandKept ==
    ASSUME OneCommand, [QueryNext]_allVars
    PROVE  OneCommand'
<1>1. CASE Next /\ UNCHANGED queryVars
  <2>1. query' = query /\ qpc' = qpc  BY <1>1 DEF queryVars
  <2>2. CASE query = NoQuery  BY <1>1, <2>1, <2>2, DeployStep DEF OneCommand
  <2>3. CASE query # NoQuery
    <3>1. TypeOK'  BY <1>1, <2>3, NextTyped DEF OneCommand
    <3>2. UNCHANGED <<pc, implementation, proxy, contract>>
      BY <1>1, <2>3 DEF OneCommand, Next, Command, GetStartingValset, QueryHeight, QueryLatestNonce,
         QueryValset, QueryBefore, QueryFirst, QueryAttestation, ParseStartingNonce,
         DeployBlobstreamContract, WaitForTransaction, TimeOut, Block, Mine, Searching, evmVars
    <3> QED  BY <2>1, <2>3, <3>1, <3>2 DEF OneCommand, NoContract
  <2> QED  BY <2>2, <2>3
<1>2. CASE \/ QueryCommand
           \/ \E n \in Nonces, v \in Validators : Confirm(n, v)
           \/ \E v \in Validators, i \in Infos : Register(v, i)
  <2>1. /\ UNCHANGED <<deployVars, query>> /\ (UNCHANGED failures \/ CallFails)
        /\ query.kind # "none" \/ qpc # "idle"
    BY <1>2, QueryFrame
  <2>2. query # NoQuery /\ TypeOK  BY <2>1, Kinds DEF OneCommand
  <2>3. failures' \in 0..MaxFailures  BY <2>1, <2>2, BoundAssumption DEF CallFails, TypeOK
  <2>4. TypeOK'
    BY <2>1, <2>2, <2>3 DEF TypeOK, deployVars, chainVars, searchVars, resultVars, evmVars
  <2> QED  BY <2>1, <2>2, <2>4 DEF OneCommand, deployVars, evmVars, NoContract
<1>3. CASE UNCHANGED allVars
  <2>1. UNCHANGED <<vars, query, qpc>>  BY <1>3 DEF allVars, queryVars
  <2>2. query = NoQuery => DeployInv'  BY <2>1, DeployStep DEF OneCommand
  <2>3. query # NoQuery => TypeOK'  BY <2>1, NextTyped DEF OneCommand
  <2>4. UNCHANGED <<pc, implementation, proxy, contract>>  BY <2>1 DEF vars, evmVars
  <2> QED  BY <2>1, <2>2, <2>3, <2>4 DEF OneCommand, NoContract
<1> QED  BY <1>1, <1>2, <1>3 DEF QueryNext

LEMMA OneCommandAlways == QuerySpec => []OneCommand
<1>1. QueryInit => OneCommand
  <2> SUFFICES ASSUME QueryInit PROVE OneCommand  OBVIOUS
  <2>1. CASE query = NoQuery /\ Init  BY <2>1, DeployInit DEF QueryInit, Asks0, OneCommand
  <2>2. CASE query \in Queries /\ NoDeployment
    <3>1. query # NoQuery  BY <2>2, QueriesAssumption DEF NoQuery
    <3>2. TypeOK
      <4>1. 1 \in Nonces  BY BoundAssumption DEF Nonces
      <4>2. /\ chain \in Chains /\ firstState \in FirstStates
            /\ height \in 1..MaxHeight /\ asked \in Asks /\ latest \in Nonces /\ target \in Nonces
        BY <2>2, <4>1, QueryChainsAssumption DEF NoDeployment
      <4>3. /\ at \in 0..MaxHeight /\ start \in 0..MaxHeight /\ failures \in 0..MaxFailures
            /\ valset \in 0..MaxNonce /\ nonce \in 0..MaxNonce
            /\ contract \in [nonce : 0..MaxNonce, valset : 0..MaxNonce]
        BY <2>2, BoundAssumption DEF NoDeployment, NoContract
      <4>4. moved \in BOOLEAN  BY <2>2 DEF NoDeployment
      <4>5. pc = "ended" /\ implementation = "none" /\ proxy = "none"  BY <2>2 DEF NoDeployment
      <4> QED  BY <4>2, <4>3, <4>4, <4>5 DEF TypeOK, Over, Transactions
    <3> QED  BY <2>2, <3>1, <3>2 DEF NoDeployment, OneCommand
  <2> QED  BY <2>1, <2>2 DEF QueryInit
<1> QED  BY <1>1, OneCommandKept, PTL DEF QuerySpec

\* What is proved of deployments holds where query commands are run, too.
THEOREM DeploysBesideQueries == QuerySpec => [](TypeOK /\ ContractIsUsable /\ NotFoundIsNotThere)
<1>1. OneCommand => TypeOK /\ ContractIsUsable /\ NotFoundIsNotThere
  <2> SUFFICES ASSUME OneCommand PROVE TypeOK /\ ContractIsUsable /\ NotFoundIsNotThere  OBVIOUS
  <2>1. CASE query = NoQuery
    BY <2>1, DeployedIsUsable, NotFoundIsComplete DEF OneCommand, DeployInv
  <2>2. CASE query # NoQuery
    BY <2>2 DEF OneCommand, ContractIsUsable, StartsWithItsSet, NotFoundIsNotThere
  <2> QED  BY <2>1, <2>2
<1> QED  BY <1>1, OneCommandAlways, PTL

-----------------------------------------------------------------------------
(* The types of the query, and where it is.                                *)

\* the set that getSignatures works with, and a network that is out of reach
PathInv ==
    /\ qpc = "confirms" => now \in Nonces
    /\ qpc \in {"staking", "attestation", "confirms"} /\ query.kind # "signature" =>
         now \in Nonces \ {1} /\ set = SetOf(now)
    /\ qpc \in {"last", "valset", "staking", "output"} => query.kind # "signature"
    /\ qpc # "idle" => connected \/ failures > 0

LEMMA SignersSet ==
    ASSUME chain \in Chains, NEW n \in Nonces \ {1}
    PROVE  SetOf(n) \in Nonces
<1>1. n - 1 \in Nonces  BY BoundAssumption DEF Nonces
<1> QED  BY <1>1, Attestation DEF SetOf

\* steps that leave the query's variables alone
LEMMA QueryAside ==
    ASSUME [QueryNext]_allVars,
           ~QueryCommand, ~\E n \in Nonces, v \in Validators : Confirm(n, v),
           ~\E v \in Validators, i \in Infos : Register(v, i)
    PROVE  UNCHANGED queryVars
BY DEF QueryNext, allVars

\* no step changes the chain, or takes back a failure
LEMMA ChainStays ==
    ASSUME OneCommand, [QueryNext]_allVars
    PROVE  /\ chain' = chain /\ chain \in Chains
         /\ failures \in Nat /\ failures' \in Nat /\ failures' >= failures
<1>0. TypeOK /\ failures \in Nat  BY BoundAssumption DEF OneCommand, DeployInv, TypeOK
<1>1. CASE UNCHANGED allVars
  BY <1>0, <1>1 DEF allVars, vars, chainVars, TypeOK
<1>2. CASE Next
  <2>1. chain' = chain
    BY <1>2 DEF Next, Command, GetStartingValset, QueryHeight, QueryLatestNonce, QueryValset, QueryBefore,
         QueryFirst, QueryAttestation, ParseStartingNonce, DeployBlobstreamContract, WaitForTransaction,
         TimeOut, Block, Mine, chainVars
  <2>2. UNCHANGED failures \/ CallFails
    BY <1>2 DEF Next, Command, GetStartingValset, QueryHeight, QueryLatestNonce, QueryValset, QueryBefore,
         QueryFirst, QueryAttestation, ParseStartingNonce, DeployBlobstreamContract, WaitForTransaction,
         TimeOut, Block, Mine, Errs
  <2> QED  BY <1>0, <2>1, <2>2 DEF CallFails, TypeOK
<1>3. CASE UNCHANGED deployVars /\ (UNCHANGED failures \/ CallFails)
  BY <1>0, <1>3 DEF deployVars, chainVars, CallFails, TypeOK
<1> QED  BY <1>1, <1>2, <1>3, QueryFrame DEF QueryNext

LEMMA QueryTyped ==
    ASSUME OneCommand, QueryStateOK, PathInv, [QueryNext]_allVars
    PROVE  QueryStateOK'
<1> USE BoundAssumption, ValidatorsAssumption DEF askVars, reportVars, worldVars, pastVars, Go, Ends
<1>0. chain \in Chains  BY ChainStays
<1>1. CASE UNCHANGED queryVars  BY <1>1 DEF queryVars, QueryStateOK
<1>2. ASSUME NEW n \in Nonces, NEW v \in Validators, Confirm(n, v) PROVE QueryStateOK'
  BY <1>2 DEF Confirm, QueryStateOK
<1>3. ASSUME NEW v \in Validators, NEW i \in Infos, Register(v, i) PROVE QueryStateOK'
  <2>1. registered' = [registered EXCEPT ![v] = i] /\ seen' = [seen EXCEPT ![v] = @ \union {i}]
    BY <1>3 DEF Register
  <2>2. registered' \in [Validators -> Infos] /\ seen' \in [Validators -> SUBSET Infos]
    BY <2>1 DEF QueryStateOK
  <2> QED  BY <1>3, <2>2 DEF Register, QueryStateOK
<1>4. CASE StartResources
  <2>1. connected' \in BOOLEAN
    <3>1. connected \in BOOLEAN  BY DEF QueryStateOK
    <3> QED  BY <1>4, <3>1 DEF StartResources, Failed
  <2> QED  BY <1>4, <2>1 DEF StartResources, QueryStateOK
<1>5. CASE ParseFirst
  <2>1. from' \in 0..MaxNonce + 1 /\ to' \in 0..MaxNonce + 2 /\ now' \in 0..MaxNonce + 2
    BY <1>5 DEF ParseFirst, QueryStateOK
  <2>2. qpc' \in {"last", "failed", "valset", "attestation"}  BY <1>5 DEF ParseFirst
  <2>3. UNCHANGED <<query, confirmed, before, registered, infos, connected, seen, set, todo, signed, entries, relayable>>
    BY <1>5 DEF ParseFirst
  <2> QED  BY <2>1, <2>2, <2>3 DEF QueryStateOK
<1>6. CASE ParseLast
  <2>1. to' \in 0..MaxNonce + 2 /\ now' \in 0..MaxNonce + 2  BY <1>6 DEF ParseLast, QueryStateOK
  <2>2. qpc' \in {"failed", "valset"}  BY <1>6 DEF ParseLast
  <2>3. UNCHANGED <<query, confirmed, before, registered, infos, connected, seen, from, set, todo, signed, entries, relayable>>
    BY <1>6 DEF ParseLast
  <2> QED  BY <2>1, <2>2, <2>3 DEF QueryStateOK
<1>7. CASE GetValset
  <2>1. set' \in Nonces
    <3>1. CASE set' = set  BY <3>1 DEF QueryStateOK
    <3>2. CASE now > 1 /\ now \in Nonces /\ set' = SetOf(now)  BY <1>0, <3>2, SignersSet
    <3> QED  BY <1>7, <3>1, <3>2 DEF GetValset, Answered, Failed, LastValset
  <2>2. qpc' \in {"staking", "failed"}  BY <1>7 DEF GetValset, Failed
  <2>3. UNCHANGED <<query, confirmed, before, registered, infos, connected, seen, from, to, now, todo, signed, entries, relayable>>
    BY <1>7 DEF GetValset, Failed
  <2> QED  BY <2>1, <2>2, <2>3 DEF QueryStateOK
<1>8. CASE ToValidatorsInfo
  <2>1. infos' \in [Validators -> Infos] /\ qpc' \in {"attestation", "failed"}
    BY <1>8 DEF ToValidatorsInfo, ValidatorsInfo, Failed, QueryStateOK
  <2>2. UNCHANGED <<query, confirmed, before, registered, connected, seen, from, to, now, set, todo, signed, entries, relayable>>
    BY <1>8 DEF ToValidatorsInfo, Failed
  <2> QED  BY <2>1, <2>2 DEF QueryStateOK
<1>9. CASE GetAttestation
  <2>1. todo' \subseteq Validators
    <3>1. Members(set) \subseteq Validators  BY DEF Members, QueryStateOK
    <3>2. query.kind = "signature" => query.address \in Validators
      BY Kinds DEF OneCommand, NoQuery
    <3> QED  BY <1>9, <3>1, <3>2 DEF GetAttestation, Failed, QueryStateOK
  <2>2. signed' \subseteq Validators /\ qpc' \in {"confirms", "failed"}
    BY <1>9 DEF GetAttestation, Failed, QueryStateOK
  <2>3. UNCHANGED <<query, confirmed, before, registered, infos, connected, seen, from, to, now, set, entries, relayable>>
    BY <1>9 DEF GetAttestation, Failed
  <2> QED  BY <2>1, <2>2, <2>3 DEF QueryStateOK
<1>10. CASE GetConfirm
  <2>1. todo' \subseteq Validators /\ signed' \subseteq Validators /\ qpc' \in {qpc, "failed"}
    BY <1>10 DEF GetConfirm, LookedUp, Failed, QueryStateOK
  <2>2. UNCHANGED <<query, confirmed, before, registered, infos, connected, seen, from, to, now, set, entries, relayable>>
    BY <1>10 DEF GetConfirm, Failed
  <2> QED  BY <2>1, <2>2 DEF QueryStateOK
<1>11. CASE ToQueryOutput
  <2>1. now \in Nonces  BY <1>11 DEF ToQueryOutput, PathInv
  <2>2. now' \in 0..MaxNonce + 2 /\ qpc' \in {"output", "valset"}
    BY <1>11, <2>1 DEF ToQueryOutput, LastNonce, Nonces
  <2>3. relayable' \subseteq Nonces  BY <1>11, <2>1 DEF ToQueryOutput, QueryStateOK
  <2>4. entries' \in [Validators -> [Infos -> {-1} \union Nat]]
    <3>2. ASSUME NEW v \in Validators
          PROVE  [entries[v] EXCEPT ![infos[v]] = Count(@, v \in signed)] \in [Infos -> {-1} \union Nat]
      <4>1. entries[v] \in [Infos -> {-1} \union Nat]  BY DEF QueryStateOK
      <4>2. infos[v] \in Infos  BY DEF QueryStateOK
      <4>3. Count(entries[v][infos[v]], v \in signed) \in {-1} \union Nat
        BY <4>1, <4>2 DEF Count
      <4> QED  BY <4>1, <4>2, <4>3
    <3>3. \A v \in Validators : entries[v] \in [Infos -> {-1} \union Nat]  BY DEF QueryStateOK
    <3> QED  BY <1>11, <3>2, <3>3 DEF ToQueryOutput, Counted
  <2>5. UNCHANGED <<query, confirmed, before, registered, infos, connected, seen, from, to, set, todo, signed>>
    BY <1>11 DEF ToQueryOutput
  <2> QED  BY <2>2, <2>3, <2>4, <2>5 DEF QueryStateOK
<1>12. CASE Output
  BY <1>12 DEF Output, QueryStateOK
<1> QED  BY <1>1, <1>2, <1>3, <1>4, <1>5, <1>6, <1>7, <1>8, <1>9, <1>10, <1>11, <1>12, QueryAside DEF QueryCommand

LEMMA PathKept ==
    ASSUME OneCommand, QueryStateOK, PathInv, [QueryNext]_allVars
    PROVE  PathInv'
<1> USE DEF askVars, reportVars, worldVars, pastVars, Go, Ends
<1>0. chain' = chain /\ failures \in Nat /\ failures' \in Nat /\ failures' >= failures  BY ChainStays
<1>a. CallFails => failures' > 0  BY <1>0 DEF CallFails
<1>b. now' = now => SetOf(now)' = SetOf(now)  BY <1>0 DEF SetOf
<1>1. ASSUME UNCHANGED <<query, qpc, connected, now, set>> PROVE PathInv'
  <2>1. connected \in BOOLEAN /\ connected' = connected  BY <1>1 DEF QueryStateOK
  <2>2. qpc # "idle" => connected' \/ failures' > 0  BY <1>0, <2>1 DEF PathInv
  <2> QED  BY <1>1, <1>b, <2>2 DEF PathInv
<1>2. CASE \/ \E n \in Nonces, v \in Validators : Confirm(n, v)
           \/ \E v \in Validators, i \in Infos : Register(v, i)
  BY <1>1, <1>2 DEF Confirm, Register
<1>3. CASE QueryCommand
  <2>1. query' = query  BY <1>3, QueryFrame
  <2>2. qpc' # "idle" => connected' \/ failures' > 0
    BY <1>0, <1>a, <1>3 DEF PathInv, QueryCommand, StartResources, ParseFirst, ParseLast, GetValset,
       ToValidatorsInfo, ValidatorsInfo, GetAttestation, GetConfirm, ToQueryOutput, Output, Answered, Failed, Errs
  <2>3. qpc' \in {"last", "valset", "staking", "output"} => query.kind # "signature"
    <3>1. query.kind \in {"none", "nonce", "range", "signature"}  BY Kinds DEF OneCommand
    <3>2. CASE ParseFirst  BY <3>1, <3>2 DEF ParseFirst
    <3>3. CASE ~ParseFirst
      BY <1>3, <3>3 DEF PathInv, QueryCommand, StartResources, ParseLast, GetValset,
         ToValidatorsInfo, ValidatorsInfo, GetAttestation, GetConfirm, ToQueryOutput, LastNonce, Output, Failed
    <3> QED  BY <3>2, <3>3
  <2>4. qpc' = "confirms" => now' \in Nonces
    BY <1>3 DEF PathInv, QueryCommand, StartResources, ParseFirst, ParseLast, GetValset, There, Answered,
       ToValidatorsInfo, ValidatorsInfo, GetAttestation, GetConfirm, ToQueryOutput, LastNonce, Output, Failed
  <2>5. ASSUME qpc' \in {"staking", "attestation", "confirms"}, query.kind # "signature"
        PROVE  now' \in Nonces \ {1} /\ set' = SetOf(now)'
    <3>1. CASE GetValset
      <4>1. now > 1 /\ now \in Nonces /\ set' = SetOf(now) /\ now' = now
        BY <2>5, <3>1 DEF GetValset, Failed, Answered, LastValset
      <4> QED  BY <4>1, <1>b
    <3>2. CASE ~GetValset
      <4>1. qpc \in {"staking", "attestation", "confirms"} /\ UNCHANGED <<now, set>>
        BY <1>3, <2>5, <3>2, Kinds DEF OneCommand, QueryCommand, StartResources, ParseFirst, ParseLast,
           ToValidatorsInfo, ValidatorsInfo, GetAttestation, GetConfirm, ToQueryOutput, LastNonce, Output, Failed
      <4> QED  BY <2>5, <4>1, <1>b DEF PathInv
    <3> QED  BY <3>1, <3>2
  <2> QED  BY <2>1, <2>2, <2>3, <2>4, <2>5 DEF PathInv
<1> QED  BY <1>1, <1>2, <1>3, QueryAside DEF queryVars

-----------------------------------------------------------------------------
(* The confirms that a query has found.                                    *)

\* What was looked up is in the network, and was not there at first, or an error
\* is to blame, if it was not found.
FoundInv ==
    /\ \A n \in Nonces : before[n] \subseteq confirmed[n]
    /\ qpc = "confirms" /\ query.kind # "signature" =>
         todo \subseteq Members(set) /\ signed \subseteq confirmed[now] \intersect Members(set)
    /\ qpc \in {"confirms", "done"} /\ query.kind = "signature" =>
         /\ now \in Nonces /\ signed \subseteq confirmed[now] /\ todo \union signed \subseteq {query.address}
         /\ query.address \in before[now] =>
              query.address \in signed \union todo \/ ~query.plain \/ failures > 0
         /\ qpc = "done" => todo = {}

LEMMA FoundKept ==
    ASSUME OneCommand, QueryStateOK, PathInv, FoundInv, [QueryNext]_allVars
    PROVE  FoundInv'
<1> USE DEF askVars, reportVars, worldVars, pastVars, Go, Ends
<1>0. failures \in Nat /\ failures' \in Nat /\ failures' >= failures  BY ChainStays
<1>1. ASSUME UNCHANGED <<query, qpc, now, set, todo, signed, before>>,
             \A n \in Nonces : confirmed[n] \subseteq confirmed'[n]
      PROVE  FoundInv'
  <2>1. Members(set)' = Members(set)  BY <1>1 DEF Members
  <2>2. qpc = "confirms" => confirmed[now] \subseteq confirmed'[now]  BY <1>1 DEF PathInv
  <2>3. failures > 0 => failures' > 0  BY <1>0
  <2>4. qpc \in {"confirms", "done"} /\ query.kind = "signature" => confirmed[now] \subseteq confirmed'[now]
    BY <1>1 DEF FoundInv
  <2> QED  BY <1>1, <2>1, <2>2, <2>3, <2>4 DEF FoundInv
<1>2. ASSUME NEW n \in Nonces, NEW v \in Validators, Confirm(n, v) PROVE FoundInv'
  <2>1. \A m \in Nonces : confirmed[m] \subseteq confirmed'[m]
    BY <1>2 DEF Confirm, QueryStateOK
  <2> QED  BY <1>1, <1>2, <2>1 DEF Confirm
<1>3. CASE (\E v \in Validators, i \in Infos : Register(v, i)) \/ UNCHANGED queryVars
  BY <1>1, <1>3 DEF Register, queryVars
<1>4. CASE QueryCommand
  <2>0. UNCHANGED <<query, confirmed>>
    BY <1>4, QueryFrame DEF QueryCommand, StartResources, ParseFirst, ParseLast, GetValset,
       ToValidatorsInfo, GetAttestation, GetConfirm, ToQueryOutput, Output
  <2>1. CASE GetAttestation /\ qpc' = "confirms"
    <3>1. /\ todo' = (IF query.kind = "signature" THEN {query.address} ELSE Members(set))
          /\ signed' = {} /\ UNCHANGED <<now, set, before>>
      BY <2>1 DEF GetAttestation, Failed
    <3>2. now \in Nonces  BY <2>1, <3>1 DEF GetAttestation, There, Answered, Failed
    <3> QED  BY <2>0, <2>1, <3>1, <3>2 DEF FoundInv
  <2>2. CASE GetConfirm /\ qpc' = "confirms"
    <3>0. qpc = "confirms" /\ UNCHANGED <<now, set, before>>  BY <2>2 DEF GetConfirm, Failed
    <3>1. PICK v \in todo : /\ \/ Reaches(v) /\ signed' = signed \union {v}
                               \/ ~Reaches(v) /\ UNCHANGED signed
                               \/ Reaches(v) /\ CallFails /\ UNCHANGED signed
                            /\ todo' = todo \ {v}
      BY <2>2 DEF GetConfirm, LookedUp, Failed
    <3>2. now \in Nonces  BY <3>0 DEF PathInv
    <3>3. signed' \subseteq confirmed[now]
      BY <3>0, <3>1, <3>2 DEF FoundInv, Reaches
    <3>4. CASE query.kind # "signature"
      BY <2>0, <2>2, <3>0, <3>1, <3>3, <3>4 DEF FoundInv
    <3>5. CASE query.kind = "signature"
      <4>1. v = query.address /\ todo' = {}  BY <3>0, <3>1, <3>5 DEF FoundInv
      <4>2. ASSUME query.address \in before[now], query.address \notin signed', query.plain
            PROVE  failures' > 0
        <5>1. query.address \in confirmed[now]  BY <3>2, <4>2 DEF FoundInv
        <5>2. CASE ~Reaches(v)
          <6>1. ~connected  BY <3>5, <4>1, <4>2, <5>1, <5>2 DEF Reaches, Spelled
          <6> QED  BY <1>0, <3>0, <6>1 DEF PathInv
        <5>3. CASE CallFails  BY <1>0, <5>3 DEF CallFails
        <5> QED  BY <3>1, <4>1, <4>2, <5>2, <5>3
      <4>3. todo' \union signed' \subseteq {query.address}
        BY <3>0, <3>1, <3>5, <4>1 DEF FoundInv
      <4> QED  BY <2>0, <2>2, <3>0, <3>2, <3>3, <3>5, <4>2, <4>3 DEF FoundInv
    <3> QED  BY <3>4, <3>5
  <2>3. CASE Output /\ qpc' = "done"
    <3>1. UNCHANGED <<now, set, todo, signed, before>> BY <2>3 DEF Output
    <3>2. query.kind = "signature" => qpc = "confirms" /\ todo = {}  BY <2>3 DEF Output, PathInv
    <3> QED  BY <1>0, <2>0, <2>3, <3>1, <3>2 DEF FoundInv
  <2>4. CASE qpc' \notin {"confirms", "done"}
    <3>1. before' = before \/ before' = confirmed
      BY <1>4 DEF QueryCommand, StartResources, ParseFirst, ParseLast, GetValset,
         ToValidatorsInfo, GetAttestation, GetConfirm, ToQueryOutput, Output
    <3> QED  BY <2>0, <2>4, <3>1 DEF FoundInv
  <2>5. CASE GetAttestation \/ GetConfirm \/ Output
    BY <2>1, <2>2, <2>3, <2>4, <2>5 DEF GetAttestation, GetConfirm, Output, Failed
  <2>6. CASE ~(GetAttestation \/ GetConfirm \/ Output)
    <3>1. qpc' \notin {"confirms", "done"}
      BY <1>4, <2>6 DEF QueryCommand, StartResources, ParseFirst, ParseLast, GetValset,
         ToValidatorsInfo, ToQueryOutput, LastNonce, Failed
    <3> QED  BY <2>4, <3>1
  <2> QED  BY <2>5, <2>6
<1> QED  BY <1>1, <1>2, <1>3, <1>4, QueryAside

-----------------------------------------------------------------------------
(* What a query reports.                                                   *)

\* What can be relayed was found to have signers of enough power.
RelayableInv ==
    \A n \in relayable :
        n \in Nonces \ {1} /\ \E S \in SUBSET SignedIn(confirmed, n) : PowerOf(S, SetOf(n)) >= Threshold(SetOf(n))

\* Entries are made under what the addresses have stood for.
EntriesInv ==
    /\ \A v \in Validators : registered[v] \in seen[v]
    /\ \A v \in Validators, i \in Infos : entries[v][i] # -1 => i \in seen[v]
    /\ qpc \in {"attestation", "confirms"} /\ query.kind # "signature" =>
         \A v \in Validators : infos[v] \in seen[v]

LEMMA EntriesKept ==
    ASSUME OneCommand, QueryStateOK, PathInv, EntriesInv, [QueryNext]_allVars
    PROVE  EntriesInv'
<1> USE DEF askVars, reportVars, worldVars, pastVars, Go, Ends
<1>1. ASSUME UNCHANGED <<entries, registered, seen, query>>,
             qpc' \in {"attestation", "confirms"} /\ query.kind # "signature" =>
               UNCHANGED infos /\ qpc \in {"attestation", "confirms"}
      PROVE  EntriesInv'
  BY <1>1 DEF EntriesInv
<1>2. CASE UNCHANGED queryVars \/ \E n \in Nonces, v \in Validators : Confirm(n, v)
  BY <1>1, <1>2 DEF queryVars, Confirm
<1>3. ASSUME NEW v \in Validators, NEW i \in Infos, Register(v, i) PROVE EntriesInv'
  <2>1. /\ registered' = [registered EXCEPT ![v] = i] /\ seen' = [seen EXCEPT ![v] = @ \union {i}]
        /\ UNCHANGED <<entries, infos, qpc, query>>
    BY <1>3 DEF Register
  <2>2. \A w \in Validators : seen[w] \subseteq seen'[w] /\ registered'[w] \in seen'[w]
    BY <2>1 DEF QueryStateOK, EntriesInv
  <2> QED  BY <2>1, <2>2 DEF EntriesInv
<1>4. CASE ToQueryOutput
  <2>1. UNCHANGED <<registered, seen>> /\ qpc' \in {"output", "valset"}
    BY <1>4 DEF ToQueryOutput, LastNonce
  <2>2. ASSUME NEW v \in Validators, NEW i \in Infos, entries'[v][i] # -1 PROVE i \in seen[v]
    <3>1. infos[v] \in seen[v]  BY <1>4 DEF ToQueryOutput, EntriesInv
    <3>2. \/ entries'[v] = entries[v]
          \/ entries'[v] = [entries[v] EXCEPT ![infos[v]] = Count(@, v \in signed)]
      BY <1>4 DEF ToQueryOutput, Counted
    <3>3. entries[v] \in [Infos -> {-1} \union Nat]  BY DEF QueryStateOK
    <3>4. CASE i = infos[v]  BY <3>1, <3>4
    <3>5. CASE i # infos[v]
      <4>1. entries'[v][i] = entries[v][i]  BY <3>2, <3>3, <3>5
      <4> QED  BY <2>2, <4>1 DEF EntriesInv
    <3> QED  BY <3>4, <3>5
  <2> QED  BY <2>1, <2>2 DEF EntriesInv
<1>5. CASE ToValidatorsInfo
  <2>1. UNCHANGED <<entries, registered, seen, query>>
    BY <1>5 DEF ToValidatorsInfo, Failed
  <2>2. qpc' \in {"attestation", "confirms"} => infos' = registered
    BY <1>5 DEF ToValidatorsInfo, ValidatorsInfo, Failed
  <2> QED  BY <2>1, <2>2 DEF EntriesInv
<1>6. CASE QueryCommand /\ ~ToQueryOutput /\ ~ToValidatorsInfo
  <2>1. UNCHANGED <<query, registered, entries, seen>>
    BY <1>6, QueryFrame DEF QueryCommand, StartResources, ParseFirst, ParseLast, GetValset,
       GetAttestation, GetConfirm, Output, Failed
  <2>2. query.kind \in {"none", "nonce", "range", "signature"}  BY Kinds DEF OneCommand
  <2>3. qpc' \in {"attestation", "confirms"} =>
          UNCHANGED infos /\ (qpc \in {"attestation", "confirms"} \/ query.kind = "signature" \/ query = NoQuery)
    BY <1>6, <2>2, Kinds DEF OneCommand, QueryCommand, StartResources, ParseFirst, ParseLast, GetValset,
       GetAttestation, GetConfirm, Output, Failed
  <2>4. query # NoQuery  BY <1>6, QueryFrame, Kinds DEF OneCommand
  <2> QED  BY <1>1, <2>1, <2>3, <2>4
<1> QED  BY <1>2, <1>3, <1>4, <1>5, <1>6, QueryAside

LEMMA ReportsKept ==
    ASSUME OneCommand, QueryStateOK, PathInv, FoundInv, RelayableInv, [QueryNext]_allVars
    PROVE  RelayableInv'
<1> USE DEF askVars, reportVars, worldVars, pastVars, Go, Ends
<1>0. chain' = chain /\ \A n : SetOf(n)' = SetOf(n)  BY ChainStays DEF SetOf
<1>1. ASSUME UNCHANGED relayable, \A n \in Nonces : confirmed[n] \subseteq confirmed'[n]
      PROVE  RelayableInv'
  <2> SUFFICES ASSUME NEW n \in relayable
               PROVE  n \in Nonces \ {1} /\ \E S \in SUBSET SignedIn(confirmed', n) : PowerOf(S, SetOf(n)) >= Threshold(SetOf(n))
    BY <1>0, <1>1 DEF RelayableInv, SignedIn
  <2>1. n \in Nonces \ {1} /\ SignedIn(confirmed, n) \subseteq SignedIn(confirmed', n)
    BY <1>1 DEF SignedIn, RelayableInv
  <2> QED  BY <2>1 DEF RelayableInv
<1>2. ASSUME NEW n \in Nonces, NEW v \in Validators, Confirm(n, v) PROVE RelayableInv'
  <2>1. \A m \in Nonces : confirmed[m] \subseteq confirmed'[m]  BY <1>2 DEF Confirm, QueryStateOK
  <2> QED  BY <1>1, <1>2, <2>1 DEF Confirm
<1>3. CASE UNCHANGED queryVars \/ \E v \in Validators, i \in Infos : Register(v, i)
  BY <1>1, <1>3 DEF queryVars, Register
<1>4. CASE ToQueryOutput
  <2>0. /\ now \in Nonces \ {1} /\ set = SetOf(now) /\ signed \subseteq SignedIn(confirmed, now)
        /\ confirmed' = confirmed
    BY <1>4 DEF ToQueryOutput, PathInv, FoundInv, SignedIn
  <2>1. CASE UNCHANGED relayable  BY <1>1, <2>0, <2>1
  <2>2. CASE CanRelay /\ relayable' = relayable \union {now}
    <3>1. PowerOf(signed, SetOf(now)) >= Threshold(SetOf(now))  BY <2>0, <2>2 DEF CanRelay
    <3>2. ASSUME NEW n \in relayable'
          PROVE  n \in Nonces \ {1} /\ \E S \in SUBSET SignedIn(confirmed, n) : PowerOf(S, SetOf(n)) >= Threshold(SetOf(n))
      BY <2>0, <2>2, <3>1 DEF RelayableInv
    <3>3. \A n : SignedIn(confirmed, n) = SignedIn(confirmed, n)'  BY <1>0, <2>0 DEF SignedIn
    <3> QED  BY <1>0, <3>2, <3>3 DEF RelayableInv
  <2> QED  BY <1>4, <2>1, <2>2 DEF ToQueryOutput
<1>5. CASE QueryCommand /\ ~ToQueryOutput
  <2>1. UNCHANGED <<confirmed, relayable>>
    BY <1>5, QueryFrame DEF QueryCommand, StartResources, ParseFirst, ParseLast, GetValset,
       ToValidatorsInfo, GetAttestation, GetConfirm, Output, Failed
  <2> QED  BY <1>1, <2>1
<1> QED  BY <1>2, <1>3, <1>4, <1>5, QueryAside

-----------------------------------------------------------------------------
(* Sums of signatures and of powers.                                       *)

\* the keys of a validator's entries, and what is added up over them
Known(e) == {i \in DOMAIN e : e[i] # -1}
Told(e) == [k \in Known(e) |-> e[k]]

LEMMA ToldSum == ASSUME NEW v PROVE Signatures(v) = SumFunctionOnSet(Told(entries[v]), Known(entries[v]))
BY DEF Signatures, Told, Known, SumFunction

LEMMA ToldIsNatural ==
    ASSUME NEW M \in Nat, NEW e \in [0..M -> {-1} \union Nat]
    PROVE  /\ IsFiniteSet(Known(e)) /\ \A i \in Known(e) : Told(e)[i] \in Nat
           /\ SumFunctionOnSet(Told(e), Known(e)) \in Nat
           /\ \A i \in Known(e) : SumFunctionOnSet(Told(e), Known(e)) =
                                  e[i] + SumFunctionOnSet(Told(e), Known(e) \ {i})
<1>1. IsFiniteSet(0..M) /\ Known(e) \subseteq 0..M  BY FS_Interval DEF Known
<1>2. IsFiniteSet(Known(e)) /\ \A i \in Known(e) : Told(e)[i] \in Nat  BY <1>1, FS_Subset DEF Known, Told
<1>3. \A i \in Known(e) : SumFunctionOnSet(Told(e), Known(e)) =
                           Told(e)[i] + SumFunctionOnSet(Told(e), Known(e) \ {i})
  BY <1>2, SumWithout, Zenon
<1>4. \A i \in Known(e) : Told(e)[i] = e[i]  BY DEF Told
<1> QED  BY <1>2, <1>3, <1>4, SumIsNatural

\* toQueryOutput adds one signature, or none, in one entry.
LEMMA OneMore ==
    ASSUME NEW M \in Nat, NEW e \in [0..M -> {-1} \union Nat], NEW k \in 0..M, NEW found \in BOOLEAN,
           NEW d, d = [e EXCEPT ![k] = Count(@, found)]
    PROVE  SumFunctionOnSet(Told(d), Known(d)) =
             SumFunctionOnSet(Told(e), Known(e)) + (IF found THEN 1 ELSE 0)
<1> DEFINE one == IF found THEN 1 ELSE 0
           rest == Known(e) \ {k}
<1>1. d[k] \in Nat /\ d[k] = (IF e[k] = -1 THEN 0 ELSE e[k]) + one  BY DEF Count
<1>2. d \in [0..M -> {-1} \union Nat]  BY <1>1
<1>3. /\ IsFiniteSet(Known(e)) /\ \A i \in Known(e) : Told(e)[i] \in Nat
      /\ IsFiniteSet(Known(d)) /\ \A i \in Known(d) : Told(d)[i] \in Nat
      /\ SumFunctionOnSet(Told(e), Known(e)) \in Nat
  BY <1>2, ToldIsNatural
<1>4. k \in Known(d) /\ Known(d) \ {k} = rest  BY <1>1 DEF Known
<1>5. SumFunctionOnSet(Told(d), Known(d)) = d[k] + SumFunctionOnSet(Told(d), rest)
  BY <1>2, <1>4, ToldIsNatural
<1>6. SumFunctionOnSet(Told(d), rest) = SumFunctionOnSet(Told(e), rest)
      /\ SumFunctionOnSet(Told(d), rest) \in Nat
  <2>1. IsFiniteSet(rest)  BY <1>3, FS_RemoveElement
  <2>2. rest \subseteq Known(d)  BY <1>4
  <2>3. \A i \in rest : Told(d)[i] \in Nat /\ Told(d)[i] = Told(e)[i]
    BY <1>3, <2>2 DEF Told, Known
  <2> HIDE DEF rest
  <2> QED  BY <2>1, <2>3, SumsOfEquals, SumIsNatural
<1> HIDE DEF rest
<1>7. CASE e[k] = -1
  <2>1. rest = Known(e)  BY <1>7 DEF rest, Known
  <2> QED  BY <1>1, <1>5, <1>6, <1>7, <2>1
<1>8. CASE e[k] # -1
  <2>1. k \in Known(e) /\ Told(e)[k] = e[k] /\ e[k] \in Nat  BY <1>8 DEF Known, Told
  <2>2. SumFunctionOnSet(Told(e), Known(e)) = e[k] + SumFunctionOnSet(Told(e), rest)
    BY <2>1, ToldIsNatural DEF rest
  <2> QED  BY <1>1, <1>5, <1>6, <1>8, <2>1, <2>2
<1> QED  BY <1>7, <1>8

\* More of the members of a set have no less power.
LEMMA PowerGrows ==
    ASSUME NEW s \in Nonces, NEW T \in SUBSET Members(s), NEW S \in SUBSET T
    PROVE  PowerOf(S, s) \in Nat /\ PowerOf(T, s) \in Nat /\ PowerOf(S, s) <= PowerOf(T, s)
<1> DEFINE f == [v \in S |-> Power[s][v]]
           g == [v \in T |-> Power[s][v]]
<1>1. /\ Power[s] \in [Members(s) -> Nat] /\ IsFiniteSet(Members(s))
  BY ValidatorsAssumption, FS_Subset DEF Members
<1>2. IsFiniteSet(T) /\ IsFiniteSet(S)
  <2>1. T \subseteq Members(s) /\ S \subseteq Members(s)  OBVIOUS
  <2> QED  BY <1>1, <2>1, FS_Subset
<1>3. /\ \A x \in S : f[x] \in Nat /\ f[x] <= g[x]
      /\ \A x \in T : g[x] \in Nat
  BY <1>1
<1>4. PowerOf(S, s) = SumFunctionOnSet(f, S) /\ PowerOf(T, s) = SumFunctionOnSet(g, T)
  BY DEF PowerOf, SumFunction
<1> HIDE DEF f, g
<1>5. SumFunctionOnSet(f, S) <= SumFunctionOnSet(g, T)  BY <1>2, <1>3, SumGrows
<1>6. SumFunctionOnSet(f, S) \in Nat /\ SumFunctionOnSet(g, T) \in Nat  BY <1>2, <1>3, SumIsNatural
<1> QED  BY <1>4, <1>5, <1>6

LEMMA ThresholdIsInteger == ASSUME NEW s \in Nonces PROVE Threshold(s) \in Int
<1>1. IsFiniteSet(DOMAIN Power[s]) /\ \A x \in DOMAIN Power[s] : Power[s][x] \in Nat
  BY ValidatorsAssumption, FS_Subset
<1>2. SumFunction(Power[s]) \in Nat  BY <1>1, SumIsNatural DEF SumFunction
<1> QED  BY <1>2 DEF Threshold

-----------------------------------------------------------------------------
(* The nonces that are done.                                               *)

\* the nonces that the loop of getSignatures is through with
Done == from..now - 1
\* those of them that v signed, as the confirms were in c
CountedIn(c, v) == Cardinality({n \in Done : v \in SignedIn(c, n)})

\* where the loop is in its range; nothing is counted before it begins
RangeInv ==
    /\ qpc \in {"idle", "first", "last"} => entries = NoEntry /\ now = 0
    /\ qpc \in {"idle", "first"} => from = 0
    /\ query.kind # "signature" =>
         /\ qpc \in {"valset", "staking", "attestation", "confirms"} => from <= now /\ now < to
         /\ qpc \in {"output", "done"} => now = to
    /\ Done \subseteq Nonces \ {1}

\* A confirm that was there at first is found when it is looked up.
LookedUpInv ==
    qpc = "confirms" /\ query.kind # "signature" /\ failures = 0 =>
        SignedIn(before, now) \ todo \subseteq signed

\* The entries have the signatures of the nonces that are done.
CreditInv ==
    \A v \in Validators :
        /\ Signatures(v) <= CountedIn(confirmed, v)
        /\ failures = 0 => Signatures(v) >= CountedIn(before, v)

\* A nonce that could be relayed at first, and is done, is reported.
RelayInv ==
    failures = 0 => \A n \in Done :
        PowerOf(SignedIn(before, n), SetOf(n)) >= Threshold(SetOf(n)) => n \in relayable

LEMMA DoneIsFinite ==
    ASSUME QueryStateOK, NEW D \in SUBSET Done
    PROVE  IsFiniteSet(D) /\ Cardinality(D) \in Nat
<1>1. from \in Int /\ now - 1 \in Int  BY BoundAssumption DEF QueryStateOK
<1>2. IsFiniteSet(Done)  BY <1>1, FS_Interval DEF Done
<1> QED  BY <1>2, FS_Subset, FS_CardinalityType

\* Nobody's count falls as confirms come in.
LEMMA CountGrows ==
    ASSUME QueryStateOK, RangeInv, NEW c, NEW d, \A n \in Nonces : c[n] \subseteq d[n], NEW v
    PROVE  CountedIn(c, v) \in Nat /\ CountedIn(d, v) \in Nat /\ CountedIn(c, v) <= CountedIn(d, v)
<1> DEFINE C == {n \in Done : v \in SignedIn(c, n)}
           D == {n \in Done : v \in SignedIn(d, n)}
<1>1. C \subseteq D  BY DEF SignedIn, RangeInv
<1>2. /\ IsFiniteSet(C) /\ Cardinality(C) \in Nat
      /\ IsFiniteSet(D) /\ Cardinality(D) \in Nat
  BY DoneIsFinite
<1>3. CountedIn(c, v) = Cardinality(C) /\ CountedIn(d, v) = Cardinality(D)  BY DEF CountedIn
<1> HIDE DEF C, D
<1>4. Cardinality(C) <= Cardinality(D)  BY <1>1, <1>2, FS_Subset
<1> QED  BY <1>2, <1>3, <1>4

\* the nonces that a step of the query adds to those that are done
LEMMA DoneAfter ==
    ASSUME OneCommand, QueryStateOK, PathInv, RangeInv, [QueryNext]_allVars
    PROVE  \/ UNCHANGED <<from, now, entries, relayable>> /\ Done' = Done
           \/ entries' = NoEntry /\ Done' = {}
           \/ /\ ToQueryOutput /\ Done' = Done \union {now} /\ UNCHANGED from /\ now' = now + 1
              /\ now \in Nonces \ {1} /\ now \notin Done
<1> USE DEF askVars, reportVars, worldVars, pastVars, Go, Ends
<1>0. from \in Nat /\ now \in Nat  BY BoundAssumption DEF QueryStateOK
<1>1. CASE UNCHANGED <<from, now, entries, relayable>>  BY <1>1 DEF Done
<1>2. CASE ParseFirst \/ ParseLast
  <2>1. entries' = NoEntry  BY <1>2 DEF ParseFirst, ParseLast, RangeInv
  <2>2. from' \in Nat /\ now' \in Nat /\ (now' = from' \/ now' = 0)
    BY <1>0, <1>2 DEF ParseFirst, ParseLast, RangeInv
  <2>3. Done' = {}
    <3>1. \A a, b \in Nat : b <= a => a..b - 1 = {}  OBVIOUS
    <3>2. now' <= from'  BY <2>2
    <3> QED  BY <2>2, <3>1, <3>2 DEF Done
  <2> QED  BY <2>1, <2>3
<1>3. CASE ToQueryOutput
  <2>1. now' = now + 1 /\ from' = from /\ now \in Nonces \ {1} /\ from <= now
    BY <1>3 DEF ToQueryOutput, LastNonce, PathInv, RangeInv
  <2>2. from..(now + 1) - 1 = (from..now - 1) \union {now} /\ now \notin from..now - 1
    BY <1>0, <2>1
  <2> QED  BY <1>3, <2>1, <2>2 DEF Done
<1>4. CASE ~(ParseFirst \/ ParseLast \/ ToQueryOutput)
  <2>1. UNCHANGED <<from, now, entries, relayable>>
    BY <1>4, QueryAside DEF queryVars, QueryCommand, StartResources, GetValset, ToValidatorsInfo,
       GetAttestation, GetConfirm, Output, Failed, Confirm, Register
  <2> QED  BY <1>1, <2>1
<1> QED  BY <1>2, <1>3, <1>4

LEMMA RangeKept ==
    ASSUME OneCommand, QueryStateOK, PathInv, RangeInv, [QueryNext]_allVars
    PROVE  RangeInv'
<1> USE DEF askVars, reportVars, worldVars, pastVars, Go, Ends
<1>0. from \in Nat /\ now \in Nat /\ to \in Nat  BY BoundAssumption DEF QueryStateOK
<1>1. Done' \subseteq Nonces \ {1}  BY DoneAfter DEF RangeInv
<1>2. CASE UNCHANGED <<qpc, entries, now, from, to, query>>  BY <1>1, <1>2 DEF RangeInv, NoEntry
<1>3. CASE QueryCommand
  <2>0. query' = query /\ query.kind \in {"none", "nonce", "range", "signature"}
    BY <1>3, QueryFrame, Kinds DEF OneCommand
  <2>1. CASE StartResources
    BY <1>1, <2>0, <2>1 DEF StartResources, RangeInv, NoEntry
  <2>2. CASE ParseFirst
    <3>1. entries' = NoEntry /\ qpc = "first" /\ now = 0  BY <2>2 DEF ParseFirst, RangeInv, NoEntry
    <3>2. qpc' \notin {"idle", "first"} /\ (qpc' = "last" => now' = 0)  BY <2>2, <3>1 DEF ParseFirst
    <3>3. qpc' \in {"valset", "staking", "attestation", "confirms"} => from' <= now' /\ now' < to'
      BY <2>2, <3>1 DEF ParseFirst
    <3>4. qpc' \notin {"output", "done"}  BY <2>2 DEF ParseFirst
    <3> QED  BY <1>1, <3>1, <3>2, <3>3, <3>4 DEF RangeInv, NoEntry
  <2>3. CASE ParseLast
    <3>1. qpc' \in {"valset", "failed"}  BY <2>3 DEF ParseLast
    <3>2. qpc' = "valset" => from' <= now' /\ now' < to'
      BY <1>0, <2>3 DEF ParseLast, ValidRange
    <3> QED  BY <1>1, <3>1, <3>2 DEF RangeInv
  <2>4. CASE ToQueryOutput
    <3>1. from' <= now' /\ UNCHANGED <<from, to>> /\ now' = now + 1 /\ now < to
      BY <1>0, <2>4 DEF ToQueryOutput, LastNonce, RangeInv
    <3>2. (qpc' = "output" /\ now' = to) \/ (qpc' = "valset" /\ now' # to)
      BY <2>4 DEF ToQueryOutput, LastNonce
    <3>3. qpc' = "valset" => now' < to'  BY <1>0, <3>1, <3>2
    <3> QED  BY <1>1, <3>1, <3>2, <3>3 DEF RangeInv
  <2>5. CASE GetValset \/ ToValidatorsInfo \/ GetAttestation \/ GetConfirm \/ Output
    <3>1. UNCHANGED <<from, now, to>>
      BY <2>5 DEF GetValset, ToValidatorsInfo, GetAttestation, GetConfirm, Output, Failed
    <3>2. qpc' \notin {"idle", "first", "last"}
      BY <2>5 DEF GetValset, ToValidatorsInfo, GetAttestation, GetConfirm, Output, Failed
    <3>3. qpc' \in {"valset", "staking", "attestation", "confirms"} =>
            qpc \in {"valset", "staking", "attestation", "confirms"}
      BY <2>5 DEF GetValset, ToValidatorsInfo, GetAttestation, GetConfirm, Output, Failed
    <3>4. qpc' \in {"output", "done"} => query.kind = "signature" \/ qpc = "output"
      BY <2>5 DEF GetValset, ToValidatorsInfo, GetAttestation, GetConfirm, Output, Failed
    <3> QED  BY <1>1, <2>0, <3>1, <3>2, <3>3, <3>4 DEF RangeInv
  <2> QED  BY <1>3, <2>1, <2>2, <2>3, <2>4, <2>5 DEF QueryCommand
<1> QED  BY <1>2, <1>3, QueryAside DEF queryVars, Confirm, Register

LEMMA LookedUpKept ==
    ASSUME OneCommand, QueryStateOK, PathInv, FoundInv, LookedUpInv, [QueryNext]_allVars
    PROVE  LookedUpInv'
<1> USE DEF askVars, reportVars, worldVars, pastVars, Go, Ends
<1>0. /\ chain' = chain /\ failures \in Nat /\ failures' \in Nat /\ failures' >= failures
      /\ CallFails => failures' # 0
  BY ChainStays DEF CallFails
<1>1. ASSUME UNCHANGED <<query, qpc, before, now, todo, signed>> PROVE LookedUpInv'
  <2>1. SignedIn(before, now)' = SignedIn(before, now)  BY <1>0, <1>1 DEF SignedIn, SetOf, Members
  <2>2. failures' = 0 => failures = 0  BY <1>0
  <2> QED  BY <1>1, <2>1, <2>2 DEF LookedUpInv
<1>2. CASE QueryCommand
  <2>0. query' = query  BY <1>2, QueryFrame
  <2>1. CASE qpc' # "confirms" \/ query.kind = "signature" \/ failures' # 0
    BY <2>0, <2>1 DEF LookedUpInv
  <2>2. CASE GetAttestation /\ qpc' = "confirms" /\ query.kind # "signature" /\ failures' = 0
    <3>1. todo' = Members(set) /\ UNCHANGED <<now, before>> /\ set = SetOf(now)
      BY <2>2 DEF GetAttestation, Failed, PathInv
    <3>2. SignedIn(before, now)' \subseteq Members(set)  BY <1>0, <3>1 DEF SignedIn, SetOf, Members
    <3> QED  BY <3>1, <3>2 DEF LookedUpInv
  <2>3. CASE GetConfirm /\ qpc' = "confirms" /\ query.kind # "signature" /\ failures' = 0
    <3>1. qpc = "confirms" /\ UNCHANGED <<now, before>>  BY <2>3 DEF GetConfirm, Failed
    <3>2. failures = 0 /\ connected  BY <1>0, <2>3, <3>1 DEF PathInv
    <3>3. PICK v \in todo : /\ \/ Reaches(v) /\ signed' = signed \union {v}
                               \/ ~Reaches(v) /\ UNCHANGED signed
                            /\ todo' = todo \ {v}
      BY <1>0, <2>3 DEF GetConfirm, LookedUp, Failed
    <3>4. SignedIn(before, now)' = SignedIn(before, now)  BY <1>0, <3>1 DEF SignedIn, SetOf, Members
    <3>5. SignedIn(before, now) \ todo \subseteq signed  BY <2>3, <3>1, <3>2 DEF LookedUpInv
    <3>6. v \in SignedIn(before, now) => Reaches(v)
      BY <2>3, <3>1, <3>2 DEF Reaches, Spelled, SignedIn, FoundInv, PathInv
    <3> QED  BY <3>3, <3>4, <3>5, <3>6 DEF LookedUpInv
  <2>4. CASE ~(GetAttestation \/ GetConfirm) /\ query.kind # "signature"
    <3>1. qpc' # "confirms"
      BY <1>2, <2>4, Kinds DEF OneCommand, QueryCommand, StartResources, ParseFirst, ParseLast, GetValset,
         ToValidatorsInfo, ToQueryOutput, LastNonce, Output, Failed
    <3> QED  BY <2>1, <3>1
  <2> QED  BY <2>1, <2>2, <2>3, <2>4
<1> QED  BY <1>1, <1>2, QueryAside DEF queryVars, Confirm, Register

\* Who was to sign one of the nonces that are done has an entry, nobody else.
ListedInv ==
    \A v \in Validators :
        (\E i \in Infos : entries[v][i] # -1) <=> (\E n \in Done : v \in Members(SetOf(n)))

LEMMA ListedKept ==
    ASSUME OneCommand, QueryStateOK, PathInv, RangeInv, ListedInv, [QueryNext]_allVars
    PROVE  ListedInv'
<1>0. \A n : Members(SetOf(n))' = Members(SetOf(n))  BY ChainStays DEF SetOf, Members
<1>1. CASE entries' = entries /\ Done' = Done  BY <1>0, <1>1 DEF ListedInv
<1>2. CASE entries' = NoEntry /\ Done' = {}  BY <1>2 DEF ListedInv, NoEntry
<1>3. CASE ToQueryOutput /\ Done' = Done \union {now}
  <2>0. set = SetOf(now)  BY <1>3 DEF ToQueryOutput, PathInv
  <2> SUFFICES ASSUME NEW v \in Validators
               PROVE  (\E i \in Infos : entries'[v][i] # -1)
                        <=> (\E n \in Done \union {now} : v \in Members(SetOf(n)))
    BY <1>0, <1>3 DEF ListedInv
  <2>1. CASE v \in Members(set)
    <3>1. entries'[v] = [entries[v] EXCEPT ![infos[v]] = Count(@, v \in signed)]
      BY <1>3, <2>1 DEF ToQueryOutput, Counted
    <3>2. infos[v] \in Infos /\ entries[v] \in [Infos -> {-1} \union Nat]  BY DEF QueryStateOK
    <3>3. entries'[v][infos[v]] \in Nat  BY <3>1, <3>2 DEF Count
    <3>4. entries'[v][infos[v]] # -1  BY <3>3
    <3> QED  BY <2>0, <2>1, <3>2, <3>4
  <2>2. CASE v \notin Members(set)
    <3>1. entries'[v] = entries[v]  BY <1>3, <2>2 DEF ToQueryOutput, Counted
    <3> QED  BY <2>0, <2>2, <3>1 DEF ListedInv
  <2> QED  BY <2>1, <2>2
<1> QED  BY <1>1, <1>2, <1>3, DoneAfter

\* Each nonce adds to what the entries tell, and to what is reported as can_relay,
\* what the confirms of the set that signs it justify.
LEMMA CountsKept ==
    ASSUME OneCommand, QueryStateOK, PathInv, FoundInv, RangeInv, LookedUpInv, CreditInv, RelayInv,
           [QueryNext]_allVars
    PROVE  CreditInv' /\ RelayInv'
<1> USE DEF askVars, reportVars, worldVars, pastVars, Go, Ends
<1>0. /\ chain' = chain /\ failures \in Nat /\ failures' \in Nat /\ failures' >= failures
      /\ \A n : SetOf(n)' = SetOf(n)
      /\ \A n : /\ SignedIn(confirmed, n)' = SignedIn(confirmed', n)
                /\ SignedIn(before, n)' = SignedIn(before', n)
  BY ChainStays DEF SetOf, SignedIn, Members
<1>1. \A n \in Nonces : confirmed[n] \subseteq confirmed'[n]
  BY QueryAside DEF queryVars, QueryStateOK, Confirm, Register, QueryCommand, StartResources, ParseFirst, ParseLast,
     GetValset, ToValidatorsInfo, GetAttestation, GetConfirm, ToQueryOutput, Output
<1>2. before' = before \/ qpc = "idle"
  BY QueryAside DEF queryVars, Confirm, Register, QueryCommand, StartResources, ParseFirst, ParseLast,
     GetValset, ToValidatorsInfo, GetAttestation, GetConfirm, ToQueryOutput, Output
<1>3. QueryStateOK' /\ RangeInv' /\ FoundInv'  BY QueryTyped, RangeKept, FoundKept
<1>4. CASE entries' = NoEntry /\ Done' = {}
  <2>1. ASSUME NEW v \in Validators
        PROVE  Signatures(v)' = 0 /\ CountedIn(confirmed, v)' = 0 /\ CountedIn(before, v)' = 0
    <3>1. Signatures(v)' = SumFunctionOnSet(Told(entries'[v]), Known(entries'[v]))
      BY DEF Signatures, Told, Known, SumFunction
    <3>2. Known(entries'[v]) = {}  BY <1>4, <2>1 DEF Known, NoEntry
    <3>3. CountedIn(confirmed, v)' = Cardinality({}) /\ CountedIn(before, v)' = Cardinality({})
      BY <1>4 DEF CountedIn
    <3> QED  BY <3>1, <3>2, <3>3, SumOfNone, FS_EmptySet
  <2>2. CreditInv'  BY <2>1 DEF CreditInv
  <2>3. RelayInv'  BY <1>4 DEF RelayInv
  <2> QED  BY <2>2, <2>3
<1>5. CASE UNCHANGED <<entries, relayable, before>> /\ Done' = Done
  <2>1. ASSUME NEW v \in Validators
        PROVE  /\ Signatures(v)' = Signatures(v) /\ CountedIn(before, v)' = CountedIn(before, v)
               /\ CountedIn(confirmed, v)' = CountedIn(confirmed', v)
    BY <1>0, <1>5 DEF Signatures, CountedIn
  <2>2. CreditInv'
    <3> SUFFICES ASSUME NEW v \in Validators
                 PROVE  /\ Signatures(v)' <= CountedIn(confirmed, v)'
                        /\ failures' = 0 => Signatures(v)' >= CountedIn(before, v)'
      BY DEF CreditInv
    <3>1. /\ CountedIn(confirmed, v) \in Nat /\ CountedIn(confirmed', v) \in Nat
          /\ CountedIn(confirmed, v) <= CountedIn(confirmed', v)
      BY <1>1, CountGrows
    <3>2. Signatures(v) \in Nat
      <4>1. entries[v] \in [0..Unknown -> {-1} \union Nat] /\ Unknown \in Nat
        BY ValidatorsAssumption DEF QueryStateOK, Infos, Unknown
      <4> QED  BY <4>1, ToldIsNatural, ToldSum
    <3> QED  BY <1>0, <2>1, <3>1, <3>2 DEF CreditInv
  <2>3. RelayInv'
    <3>1. \A n : /\ PowerOf(SignedIn(before, n), SetOf(n))' = PowerOf(SignedIn(before, n), SetOf(n))
                 /\ Threshold(SetOf(n))' = Threshold(SetOf(n))
      BY <1>0, <1>5 DEF PowerOf, Threshold
    <3> QED  BY <1>0, <1>5, <3>1 DEF RelayInv
  <2> QED  BY <2>2, <2>3
<1>6. CASE ToQueryOutput /\ Done' = Done \union {now} /\ now \in Nonces \ {1} /\ now \notin Done
  <2>0. /\ set = SetOf(now) /\ todo = {} /\ UNCHANGED <<confirmed, before, failures>>
        /\ qpc = "confirms" /\ query.kind # "signature"
    BY <1>6 DEF ToQueryOutput, PathInv
  <2>1. signed \subseteq SignedIn(confirmed, now)  BY <2>0 DEF FoundInv, SignedIn
  <2>2. failures = 0 => SignedIn(before, now) \subseteq signed  BY <2>0 DEF LookedUpInv
  <2>3. CreditInv'
    <3> SUFFICES ASSUME NEW v \in Validators
                 PROVE  /\ Signatures(v)' <= CountedIn(confirmed, v)'
                        /\ failures' = 0 => Signatures(v)' >= CountedIn(before, v)'
      BY DEF CreditInv
    <3> DEFINE one(b) == IF b THEN 1 ELSE 0
    <3>1. ASSUME NEW c, NEW d, d = {n \in Done \union {now} : v \in SignedIn(c, n)}
          PROVE  CountedIn(c, v) \in Nat /\ Cardinality(d) = CountedIn(c, v) + one(v \in SignedIn(c, now))
      <4> DEFINE C == {n \in Done : v \in SignedIn(c, n)}
      <4>1. IsFiniteSet(C) /\ Cardinality(C) \in Nat /\ now \notin C  BY <1>6, DoneIsFinite
      <4>2. CASE v \in SignedIn(c, now)
        <5>1. d = C \union {now}  BY <3>1, <4>2
        <5> HIDE DEF C
        <5>2. Cardinality(d) = Cardinality(C) + 1  BY <4>1, <5>1, FS_AddElement
        <5> QED  BY <4>1, <4>2, <5>2 DEF CountedIn, C
      <4>3. CASE v \notin SignedIn(c, now)
        <5>1. d = C  BY <3>1, <4>3
        <5> QED  BY <4>1, <4>3, <5>1 DEF CountedIn
      <4> QED  BY <4>2, <4>3
    <3>2. /\ CountedIn(confirmed, v)' = CountedIn(confirmed, v) + one(v \in SignedIn(confirmed, now))
          /\ CountedIn(before, v)' = CountedIn(before, v) + one(v \in SignedIn(before, now))
          /\ CountedIn(confirmed, v) \in Nat /\ CountedIn(before, v) \in Nat
      <4>1. /\ CountedIn(confirmed, v)' = Cardinality({n \in Done \union {now} : v \in SignedIn(confirmed, n)})
            /\ CountedIn(before, v)' = Cardinality({n \in Done \union {now} : v \in SignedIn(before, n)})
        BY <1>0, <1>6, <2>0 DEF CountedIn
      <4> QED  BY <3>1, <4>1
    <3>3. Signatures(v) \in Nat /\ Signatures(v)' = Signatures(v) + one(v \in signed)
      <4>1. entries[v] \in [0..Unknown -> {-1} \union Nat] /\ Unknown \in Nat
        BY ValidatorsAssumption DEF QueryStateOK, Infos, Unknown
      <4>2. Signatures(v) = SumFunctionOnSet(Told(entries[v]), Known(entries[v]))  BY ToldSum
      <4>3. Signatures(v)' = SumFunctionOnSet(Told(entries'[v]), Known(entries'[v]))
        BY DEF Signatures, Told, Known, SumFunction
      <4>4. Signatures(v) \in Nat  BY <4>1, <4>2, ToldIsNatural
      <4>5. CASE v \in Members(set)
        <5>1. entries'[v] = [entries[v] EXCEPT ![infos[v]] = Count(@, v \in signed)]
          BY <1>6, <4>5 DEF ToQueryOutput, Counted
        <5>2. infos[v] \in 0..Unknown  BY DEF QueryStateOK, Infos
        <5>3. SumFunctionOnSet(Told(entries'[v]), Known(entries'[v])) =
                SumFunctionOnSet(Told(entries[v]), Known(entries[v])) + one(v \in signed)
          <6> DEFINE d(found) == [entries[v] EXCEPT ![infos[v]] = Count(@, found)]
          <6>1. \A found \in BOOLEAN :
                  SumFunctionOnSet(Told(d(found)), Known(d(found))) =
                    SumFunctionOnSet(Told(entries[v]), Known(entries[v])) + one(found)
            BY <4>1, <5>2, OneMore
          <6>2. CASE v \in signed  BY <5>1, <6>1, <6>2 DEF Count
          <6>3. CASE v \notin signed  BY <5>1, <6>1, <6>3 DEF Count
          <6> QED  BY <6>2, <6>3
        <5> QED  BY <4>2, <4>3, <4>4, <5>3
      <4>6. CASE v \notin Members(set)
        <5>1. entries'[v] = entries[v]  BY <1>6, <4>6 DEF ToQueryOutput, Counted
        <5>2. v \notin signed  BY <2>0, <2>1, <4>6 DEF SignedIn
        <5> QED  BY <4>2, <4>3, <4>4, <5>1, <5>2
      <4> QED  BY <4>5, <4>6
    <3>4. /\ one(v \in signed) \in Nat /\ one(v \in SignedIn(confirmed, now)) \in Nat
          /\ one(v \in SignedIn(before, now)) \in Nat
          /\ one(v \in signed) <= one(v \in SignedIn(confirmed, now))
          /\ failures = 0 => one(v \in SignedIn(before, now)) <= one(v \in signed)
      BY <2>1, <2>2
    <3> HIDE DEF one
    <3> QED  BY <2>0, <3>2, <3>3, <3>4 DEF CreditInv
  <2>4. RelayInv'
    <3> SUFFICES ASSUME failures' = 0, NEW n \in Done',
                        PowerOf(SignedIn(before, n), SetOf(n)) >= Threshold(SetOf(n))
                 PROVE  n \in relayable'
      BY <1>0, <2>0 DEF RelayInv, PowerOf, Threshold
    <3>1. relayable \subseteq relayable'  BY <1>6 DEF ToQueryOutput
    <3>2. CASE n \in Done  BY <2>0, <3>1, <3>2 DEF RelayInv
    <3>3. CASE n = now
      <4>1. set \in Nonces  BY DEF QueryStateOK
      <4>2. SignedIn(before, now) \subseteq signed /\ signed \subseteq Members(set)
        BY <2>0, <2>1, <2>2 DEF SignedIn
      <4>3. PowerOf(SignedIn(before, now), set) <= PowerOf(signed, set)
            /\ PowerOf(SignedIn(before, now), set) \in Nat /\ PowerOf(signed, set) \in Nat
            /\ Threshold(set) \in Int
        BY <4>1, <4>2, PowerGrows, ThresholdIsInteger
      <4>4. CanRelay  BY <2>0, <3>3, <4>3 DEF CanRelay
      <4> QED  BY <1>6, <3>3, <4>4 DEF ToQueryOutput
    <3> QED  BY <1>6, <3>2, <3>3
  <2> QED  BY <2>3, <2>4
<1>7. CASE UNCHANGED <<from, now, entries, relayable>> /\ Done' = Done /\ qpc = "idle"
  <2>1. entries = NoEntry /\ from = 0 /\ now = 0  BY <1>7 DEF RangeInv
  <2>2. entries' = NoEntry /\ Done' = {}
    <3>1. 0..0 - 1 = {}  OBVIOUS
    <3> QED  BY <1>7, <2>1, <3>1 DEF Done
  <2> QED  BY <1>4, <2>2
<1> QED  BY <1>2, <1>4, <1>5, <1>6, <1>7, DoneAfter

-----------------------------------------------------------------------------
(* The invariant, and what follows from it.                                *)

QueryInv ==
    /\ QueryStateOK /\ PathInv /\ RangeInv /\ FoundInv /\ LookedUpInv
    /\ RelayableInv /\ EntriesInv /\ ListedInv /\ CreditInv /\ RelayInv

LEMMA QueryAlways == QuerySpec => []QueryInv
<1>1. QueryInit => QueryInv
  <2> SUFFICES ASSUME QueryInit PROVE QueryInv  OBVIOUS
  <2>0. Asks0 /\ query \in Queries \union {NoQuery}  BY DEF QueryInit
  <2>1. QueryStateOK
    <3>1. /\ entries = NoEntry /\ set = 1 /\ from = 0 /\ to = 0 /\ now = 0
          /\ infos = [v \in Validators |-> 0] /\ registered = [v \in Validators |-> 0]
          /\ seen = [v \in Validators |-> {registered[v]}]
      BY <2>0 DEF Asks0
    <3>2. entries \in [Validators -> [Infos -> {-1} \union Nat]]
      BY <3>1 DEF NoEntry
    <3>3. infos \in [Validators -> Infos] /\ registered \in [Validators -> Infos]
          /\ seen \in [Validators -> SUBSET Infos]
      BY <3>1, ValidatorsAssumption DEF Infos, Unknown
    <3>4. from \in 0..MaxNonce + 1 /\ to \in 0..MaxNonce + 2 /\ now \in 0..MaxNonce + 2 /\ set \in Nonces
      BY <3>1, BoundAssumption DEF Nonces
    <3>5. connected \in BOOLEAN  BY <2>0 DEF Asks0
    <3>6. /\ confirmed \in [Nonces -> SUBSET Validators] /\ before \in [Nonces -> SUBSET Validators]
          /\ qpc = "idle" /\ todo = {} /\ signed = {} /\ relayable = {}
      BY <2>0 DEF Asks0
    <3> QED  BY <2>0, <3>2, <3>3, <3>4, <3>5, <3>6 DEF QueryStateOK
  <2>2. PathInv /\ FoundInv /\ RelayableInv  BY <2>0 DEF Asks0, PathInv, FoundInv, RelayableInv
  <2>3. EntriesInv  BY <2>0 DEF Asks0, EntriesInv, NoEntry
  <2>4. Done = {}
    <3>1. 0..0 - 1 = {}  OBVIOUS
    <3> QED  BY <2>0, <3>1 DEF Asks0, Done
  <2>5. RangeInv /\ LookedUpInv /\ RelayInv
    BY <2>0, <2>4 DEF Asks0, RangeInv, NoEntry, LookedUpInv, RelayInv
  <2>7. ListedInv  BY <2>0, <2>4 DEF Asks0, ListedInv, NoEntry
  <2>6. CreditInv
    <3> SUFFICES ASSUME NEW v \in Validators
                 PROVE  Signatures(v) <= CountedIn(confirmed, v) /\ Signatures(v) >= CountedIn(before, v)
      BY DEF CreditInv
    <3>1. Known(entries[v]) = {}  BY <2>0 DEF Asks0, Known, NoEntry
    <3>2. Signatures(v) = 0  BY <3>1, ToldSum, SumOfNone
    <3>3. CountedIn(confirmed, v) = 0 /\ CountedIn(before, v) = 0  BY <2>4, FS_EmptySet DEF CountedIn
    <3> QED  BY <3>2, <3>3
  <2> QED  BY <2>1, <2>2, <2>3, <2>5, <2>6, <2>7 DEF QueryInv
<1>2. OneCommand /\ QueryInv /\ [QueryNext]_allVars => QueryInv'
  BY QueryTyped, PathKept, RangeKept, FoundKept, LookedUpKept, ReportsKept, EntriesKept, ListedKept, CountsKept DEF QueryInv
<1> QED  BY <1>1, <1>2, OneCommandAlways, PTL DEF QuerySpec

\* The types of the query command: nonces stay in their range, sets are known.
THEOREM QueryTypeCorrect == QuerySpec => []QueryTypeOK
<1>1. TypeOK /\ QueryInv => QueryTypeOK  BY DEF QueryInv, QueryTypeOK
<1> QED  BY <1>1, QueryAlways, DeploysBesideQueries, PTL

\* A signature that is told is in the network; what is not found was not there
\* when the command began, or was asked for in another spelling, or a call failed
\* (getSignature).
THEOREM SignaturesAreTold == QuerySpec => []SignatureIsTold
<1>1. QueryInv => SignatureIsTold
  <2> SUFFICES ASSUME QueryInv, qpc = "done", query.kind = "signature"
               PROVE  /\ signed # {} => query.address \in confirmed[now]
                      /\ query.address \in before[now] => signed # {} \/ ~query.plain \/ failures > 0
    BY DEF SignatureIsTold
  <2>1. /\ todo = {} /\ signed \subseteq confirmed[now] /\ todo \union signed \subseteq {query.address}
        /\ query.address \in before[now] => query.address \in signed \union todo \/ ~query.plain \/ failures > 0
    BY DEF QueryInv, FoundInv
  <2> QED  BY <2>1
<1> QED  BY <1>1, QueryAlways, PTL

\* Entries are made under what the addresses stood for while the command ran: none
\* is shown as unknown that was registered all along, whatever call failed; and
\* whoever is in one of the sets has an entry (toValidatorsInfo, toQueryOutput).
THEOREM EntriesAreOfMembers == QuerySpec => []EntriesAreTrue
<1>1. QueryInv => EntriesAreTrue
  <2> SUFFICES ASSUME QueryInv, NEW v \in Validators
               PROVE  /\ {i \in Infos : entries[v][i] # -1} \subseteq seen[v]
                      /\ Reported => ((\E i \in Infos : entries[v][i] # -1)
                                        <=> (\E n \in from..to - 1 : v \in Members(SetOf(n))))
    BY DEF EntriesAreTrue
  <2>1. {i \in Infos : entries[v][i] # -1} \subseteq seen[v]  BY DEF QueryInv, EntriesInv
  <2>2. ASSUME Reported
        PROVE  (\E i \in Infos : entries[v][i] # -1) <=> (\E n \in from..to - 1 : v \in Members(SetOf(n)))
    <3>1. now = to  BY <2>2 DEF QueryInv, RangeInv, Reported
    <3>2. Done = from..to - 1  BY <3>1 DEF Done
    <3> QED  BY <3>2 DEF QueryInv, ListedInv
  <2> QED  BY <2>1, <2>2
<1> QED  BY <1>1, QueryAlways, PTL

\* The signatures that a report credits a validator with, over all its
\* entries, are those it gave: none is made up, and without a failed call none that was
\* there when the command began is missing (getSignatures, toQueryOutput).
THEOREM ReportsAreTrue == QuerySpec => []ReportIsTrue
<1>1. QueryInv => ReportIsTrue
  <2> SUFFICES ASSUME QueryInv, Reported, NEW v \in Validators
               PROVE  /\ Signatures(v) <= Times(confirmed, v)
                      /\ failures = 0 => Signatures(v) >= Times(before, v)
    BY DEF ReportIsTrue
  <2>1. now = to  BY DEF QueryInv, RangeInv, Reported
  <2>2. Times(confirmed, v) = CountedIn(confirmed, v) /\ Times(before, v) = CountedIn(before, v)
    BY <2>1 DEF Times, CountedIn, Done
  <2> QED  BY <2>2 DEF QueryInv, CreditInv
<1> QED  BY <1>1, QueryAlways, PTL

\* What is reported as can_relay has the power that the contract asks for, of the
\* set that the contract trusts at that nonce; and what had it before the command
\* began is reported, if no call failed (the threshold in toQueryOutput).
THEOREM CanRelaysAreTrue == QuerySpec => []CanRelayIsTrue
<1>1. OneCommand /\ QueryInv => CanRelayIsTrue
  <2> SUFFICES ASSUME OneCommand, QueryInv PROVE CanRelayIsTrue  OBVIOUS
  <2>0. chain \in Chains  BY DEF OneCommand, DeployInv, TypeOK
  <2>1. ASSUME NEW n \in relayable
        PROVE  PowerOf(SignedIn(confirmed, n), SetOf(n)) >= Threshold(SetOf(n))
    <3>1. PICK S \in SUBSET SignedIn(confirmed, n) : PowerOf(S, SetOf(n)) >= Threshold(SetOf(n))
      BY DEF QueryInv, RelayableInv
    <3>2. SetOf(n) \in Nonces  BY <2>0, SignersSet DEF QueryInv, RelayableInv
    <3>3. SignedIn(confirmed, n) \in SUBSET Members(SetOf(n))  BY DEF SignedIn
    <3>4. /\ PowerOf(S, SetOf(n)) \in Nat /\ PowerOf(SignedIn(confirmed, n), SetOf(n)) \in Nat
          /\ PowerOf(S, SetOf(n)) <= PowerOf(SignedIn(confirmed, n), SetOf(n))
          /\ Threshold(SetOf(n)) \in Int
      BY <3>2, <3>3, PowerGrows, ThresholdIsInteger
    <3> QED  BY <3>1, <3>4
  <2>2. ASSUME Reported, failures = 0, NEW n \in from..to - 1,
               PowerOf(SignedIn(before, n), SetOf(n)) >= Threshold(SetOf(n))
        PROVE  n \in relayable
    <3>1. now = to  BY <2>2 DEF QueryInv, RangeInv, Reported
    <3>2. n \in Done  BY <2>2, <3>1 DEF Done
    <3> QED  BY <2>2, <3>2 DEF QueryInv, RelayInv
  <2> QED  BY <2>1, <2>2 DEF CanRelayIsTrue
<1> QED  BY <1>1, OneCommandAlways, QueryAlways, PTL
=============================================================================
