---------------------------- MODULE NetworkProofs ----------------------------
(***************************************************************************)
(* Proofs about Network, for any peers, validators, powers and puts: the   *)
(* types; what the relayer submits satisfies the contract; no peer goes    *)
(* back to an older validator set.                                         *)
(***************************************************************************)
EXTENDS Network, SetLemmas

LEMMA MemberFacts ==
    /\ Indices # {} /\ Len(Members) \in Nat \ {0} /\ Indices = 1..Len(Members)
    /\ \A i \in Indices : Members[i] \in Addresses
    /\ \A a \in Addresses : a # "nobody"
    /\ \A i, j \in Indices : Members[i] = Members[j] => i = j
<1>1. Members \in Seq(STRING) /\ Members # <<>>  BY MembersAssumption
<1>2. Len(Members) \in Nat \ {0}  BY <1>1
<1> QED  BY <1>2, MembersAssumption DEF Indices, Addresses

LEMMA ConfirmFacts ==
    /\ \A a \in Addresses : Confirm(a) \in Confirms /\ Genuine(a) \in Signatures
    /\ \A a \in Addresses : Genuine(a) # NoSignature
    /\ \A c \in Confirms : c.Signature \in Signatures /\ c.EthAddress \in Addresses
    /\ NoConfirm \notin Confirms
<1>1. \A a \in Addresses : Genuine(a) \in Signatures  BY DEF Genuine, Signatures
<1>2. \A a \in Addresses : Confirm(a) \in Confirms  BY <1>1 DEF Confirm, Confirms
<1>3. \A a \in Addresses : Genuine(a) # NoSignature
  <2>1. \A a \in Addresses : Genuine(a).over = "digest"  BY DEF Genuine
  <2>2. NoSignature.over = "nothing"  BY DEF NoSignature
  <2> QED  BY <2>1, <2>2
<1>4. \A c \in Confirms : c.Signature \in Signatures /\ c.EthAddress \in Addresses  BY DEF Confirms
<1>5. NoConfirm \notin Confirms
  <2>1. NoConfirm.EthAddress = "nobody"  BY DEF NoConfirm
  <2> QED  BY <2>1, <1>4, MemberFacts
<1> QED  BY <1>1, <1>2, <1>3, <1>4, <1>5

-----------------------------------------------------------------------------
(* Types.                                                                  *)

LEMMA InitTyped == Init => TypeOK
<1> SUFFICES ASSUME Init PROVE TypeOK  OBVIOUS
<1>1. 0 \in 0..MaxValset  BY BoundAssumption
<1>2. member \in Indices  BY MemberFacts DEF Init
<1> QED  BY <1>1, <1>2, BoundAssumption DEF Init, TypeOK, NoneFound

LEMMA OrchestratorsTyped == ASSUME TypeOK, Orchestrators PROVE TypeOK'
<1> USE DEF TypeOK, queryVars, budgetVars
<1>1. ASSUME NEW a \in Addresses, ProvideConfirm(a) PROVE TypeOK'
  <2>1. Home[a] \in Peers /\ Confirm(a) \in Confirms  BY PeersAssumption, ConfirmFacts
  <2>2. confirms' \in [Peers -> [Addresses -> Confirms \union {NoConfirm}]]
    BY <1>1, <2>1 DEF ProvideConfirm
  <2>3. sentConfirms' \subseteq Addresses \X Confirms  BY <1>1, <2>1 DEF ProvideConfirm
  <2> QED  BY <1>1, <2>2, <2>3 DEF ProvideConfirm
<1>2. ASSUME NEW p \in Peers, NEW n \in 1..MaxValset, ProvideLatestValset(p, n) PROVE TypeOK'
  <2>1. n \in 0..MaxValset  BY BoundAssumption
  <2> QED  BY <1>2, <2>1 DEF ProvideLatestValset
<1> QED  BY <1>1, <1>2 DEF Orchestrators

LEMMA DHTTyped == ASSUME TypeOK, DHT PROVE TypeOK'
<1> USE DEF TypeOK, storeVars, sentVars, queryVars, budgetVars
<1>1. CASE PutForeign  BY <1>1, ForeignAssumption DEF PutForeign
<1>2. ASSUME NEW p \in Peers, ReceiveConfirm(p) PROVE TypeOK'
  <2>1. PICK m \in sentConfirms : confirms' = [confirms EXCEPT ![p][m[1]] = m[2]]
    BY <1>2 DEF ReceiveConfirm
  <2>2. m[1] \in Addresses /\ m[2] \in Confirms  OBVIOUS
  <2>3. confirms' \in [Peers -> [Addresses -> Confirms \union {NoConfirm}]]  BY <2>1, <2>2
  <2> QED  BY <1>2, <2>3 DEF ReceiveConfirm
<1>3. ASSUME NEW p \in Peers, ReceiveValset(p) PROVE TypeOK'
  <2>1. PICK n \in sentValsets : valset' = [valset EXCEPT ![p] = n]  BY <1>3 DEF ReceiveValset
  <2>2. n \in 0..MaxValset  BY BoundAssumption
  <2> QED  BY <1>3, <2>1, <2>2 DEF ReceiveValset
<1>4. ASSUME NEW p \in Peers, Leave(p) PROVE TypeOK'  BY <1>4 DEF Leave
<1>5. ASSUME NEW p \in Peers, Join(p) PROVE TypeOK'  BY <1>5 DEF Join
<1> QED  BY <1>1, <1>2, <1>3, <1>4, <1>5 DEF DHT

-----------------------------------------------------------------------------
(* The query.                                                              *)

\* What a lookup returned has passed the validators, under the key of the member
\* that was asked for; nothing is said of the datastores.
FoundValid == \A i \in Indices : found[i] # NoConfirm => Valid(Members[i], found[i])

QueryInv == TypeOK /\ FoundValid

\* a confirm counts for the member it was asked for, and for no other
LEMMA CountsForItself ==
    ASSUME QueryInv, NEW i \in Indices, Counts(i)
    PROVE  found[i].EthAddress = Members[i] /\ found[i].Signature = Genuine(Members[i])
BY DEF QueryInv, FoundValid, Counts, Valid

\* so the signatures are laid out as the members were asked
LEMMA MatchedSigs ==
    ASSUME QueryInv, NEW i \in Indices
    PROVE  MatchAttestationConfirmSigs[i] =
               IF Counts(i) THEN Genuine(Members[i]) ELSE NoSignature
<1> DEFINE mine == {j \in Indices : Counts(j) /\ found[j].EthAddress = Members[i]}
<1>1. \A j \in mine : j = i  BY CountsForItself, MemberFacts
<1>2. CASE Counts(i)
  <2>1. mine = {i}  BY <1>1, <1>2, CountsForItself
  <2>2. i \in Nat  BY MemberFacts
  <2>3. Max({i}) = i  BY <2>2 DEF Max
  <2>4. found[i].Signature = Genuine(Members[i])  BY <1>2, CountsForItself
  <2>5. mine # {} /\ found[Max(mine)].Signature = Genuine(Members[i])  BY <2>1, <2>3, <2>4
  <2> QED  BY <1>2, <2>5 DEF MatchAttestationConfirmSigs
<1>3. CASE ~Counts(i)
  <2>1. mine = {}  BY <1>1, <1>3
  <2> QED  BY <1>3, <2>1 DEF MatchAttestationConfirmSigs
<1> QED  BY <1>2, <1>3

LEMMA StepOfQuery ==
    ASSUME QueryInv, Query \/ TimeOut
    PROVE  QueryInv'
<1> USE DEF storeVars, sentVars, budgetVars
<1> TypeOK  BY DEF QueryInv
<1>1. NoneFound \in [Indices -> Confirms \union {NoConfirm}] /\ 1 \in Indices
  BY MemberFacts DEF NoneFound
<1>2. ASSUME Return PROVE FoundValid'  BY <1>2 DEF Return, FoundValid, NoneFound
<1>3. CASE StartQuery
  <2>1. TypeOK'  BY <1>3 DEF StartQuery, TypeOK
  <2> QED  BY <1>3, <2>1 DEF StartQuery, QueryInv, FoundValid
<1>4. CASE GetConfirm
  <2>1. /\ UNCHANGED <<online, storeVars, sentVars, sigs, leaves>>
        /\ failures' \in Nat
    BY <1>4, BoundAssumption DEF GetConfirm, TypeOK
  <2>2. ASSUME Proceed PROVE qpc' \in {"get", "check"} /\ member' \in Indices
    <3>1. qpc = "get"  BY <1>4 DEF GetConfirm
    <3> QED  BY <2>2, <3>1, MemberFacts DEF Proceed, LastMember, TypeOK
  <2>3. ASSUME NEW c \in Held(Members[member]), found' = [found EXCEPT ![member] = c], Proceed
        PROVE  QueryInv'
    <3>1. member \in Indices /\ Members[member] \in Addresses  BY MemberFacts DEF TypeOK
    <3>2. c \in Confirms /\ Valid(Members[member], c)  BY <3>1 DEF Held, TypeOK
    <3>3. found' \in [Indices -> Confirms \union {NoConfirm}]  BY <2>3, <3>2 DEF TypeOK
    <3>4. FoundValid'  BY <2>3, <3>1, <3>2 DEF FoundValid, QueryInv, TypeOK, Valid, Genuine
    <3> QED  BY <2>1, <2>2, <2>3, <3>3, <3>4 DEF QueryInv, TypeOK
  <2>4. ASSUME Proceed, UNCHANGED found PROVE QueryInv'
    BY <2>1, <2>2, <2>4 DEF QueryInv, TypeOK, FoundValid
  <2>5. ASSUME qpc' = "failed", Return PROVE QueryInv'
    BY <1>1, <1>2, <2>1, <2>5 DEF QueryInv, TypeOK, Return
  <2> QED  BY <1>4, <2>3, <2>4, <2>5 DEF GetConfirm
<1>5. CASE Check
  <2>1. MatchAttestationConfirmSigs \in [Indices -> Signatures \union {NoSignature}]
    <3>1. \A i \in Indices : MatchAttestationConfirmSigs[i] \in Signatures \union {NoSignature}
      BY MatchedSigs, ConfirmFacts, MemberFacts
    <3> QED  BY <3>1 DEF MatchAttestationConfirmSigs
  <2>2. sigs' \in [Indices -> Signatures \union {NoSignature}] /\ qpc' \in {"found", "tick"}
    BY <1>5, <2>1 DEF Check, TypeOK
  <2>3. Return /\ UNCHANGED <<online, storeVars, sentVars, budgetVars>>  BY <1>5 DEF Check
  <2> QED  BY <1>1, <1>2, <2>2, <2>3 DEF QueryInv, TypeOK, Return
<1>6. CASE TimeOut
  <2>1. TypeOK'  BY <1>6, BoundAssumption DEF TimeOut, TypeOK
  <2> QED  BY <1>6, <2>1 DEF TimeOut, QueryInv, FoundValid
<1> QED  BY <1>3, <1>4, <1>5, <1>6 DEF Query

\* the orchestrators and the other peers do not touch the query
LEMMA QueryAlone ==
    ASSUME Orchestrators \/ DHT \/ UNCHANGED vars
    PROVE  UNCHANGED queryVars
BY DEF Orchestrators, DHT, vars, ProvideConfirm, ProvideLatestValset, PutForeign, ReceiveConfirm,
       ReceiveValset, Leave, Join

LEMMA QueryInvariance == ASSUME QueryInv, [Next]_vars PROVE QueryInv'
<1>1. CASE Orchestrators \/ DHT
  <2>1. TypeOK'  BY <1>1, OrchestratorsTyped, DHTTyped DEF QueryInv
  <2>2. UNCHANGED found  BY <1>1, QueryAlone DEF queryVars
  <2> QED  BY <2>1, <2>2 DEF QueryInv, FoundValid
<1>2. CASE Query \/ TimeOut  BY <1>2, StepOfQuery
<1>3. CASE UNCHANGED vars
  BY <1>3 DEF vars, storeVars, sentVars, queryVars, budgetVars, QueryInv, TypeOK, FoundValid
<1> QED  BY <1>1, <1>2, <1>3 DEF Next

LEMMA QueryAlways == Spec => []QueryInv
<1>1. Init => QueryInv  BY InitTyped DEF Init, QueryInv, FoundValid, NoneFound
<1> QED  BY <1>1, QueryInvariance, PTL DEF Spec

\* The types, for any network (the datastores, what was sent, the query).
THEOREM TypeCorrect == Spec => []TypeOK
<1>1. QueryInv => TypeOK  BY DEF QueryInv
<1> QED  BY <1>1, QueryAlways, PTL

-----------------------------------------------------------------------------
(* What is submitted.                                                      *)

\* When the query stops with enough confirms, the signatures laid out for the
\* contract are those that were counted.
LEMMA CheckFindsEnough == ASSUME QueryInv, Check PROVE FoundIsEnough'
<1> DEFINE signed == {i \in Indices : sigs'[i] # NoSignature}
           counted == {i \in Indices : Counts(i)}
<1> SUFFICES ASSUME qpc' = "found"
             PROVE  /\ \A i \in signed : sigs'[i] = Genuine(Members[i])
                    /\ SumFunction([i \in signed |-> Power[Members[i]]]) >= TwoThirdsThreshold
  BY DEF FoundIsEnough, TwoThirdsThreshold
<1>1. Enough /\ sigs' = MatchAttestationConfirmSigs  BY DEF Check
<1>2. \A i \in Indices : sigs'[i] = IF Counts(i) THEN Genuine(Members[i]) ELSE NoSignature
  BY <1>1, MatchedSigs
<1>3. signed = counted  BY <1>2, ConfirmFacts, MemberFacts
<1>4. \A i \in signed : sigs'[i] = Genuine(Members[i])  BY <1>2, <1>3
<1>5. \A i \in counted : found[i].EthAddress = Members[i]  BY CountsForItself
<1>6. [i \in signed |-> Power[Members[i]]] = [i \in counted |-> Power[found[i].EthAddress]]
  BY <1>3, <1>5
<1>7. SumFunction([i \in signed |-> Power[Members[i]]]) = FoundPower  BY <1>6 DEF FoundPower
<1> QED  BY <1>1, <1>4, <1>7 DEF Enough

\* What the relayer submits satisfies the contract (QueryTwoThirds*Confirms and
\* matchAttestationConfirmSigs).
THEOREM SubmittedIsEnough == Spec => []FoundIsEnough
<1>1. Init => FoundIsEnough  BY DEF Init, FoundIsEnough
<1>2. ASSUME QueryInv, FoundIsEnough, [Next]_vars PROVE FoundIsEnough'
  <2>1. CASE Check  BY <1>2, <2>1, CheckFindsEnough
  <2>2. CASE StartQuery \/ GetConfirm \/ TimeOut
    BY <1>2, <2>2 DEF StartQuery, GetConfirm, TimeOut, Proceed, FoundIsEnough
  <2>3. CASE Orchestrators \/ DHT \/ UNCHANGED vars
    <3>1. UNCHANGED <<qpc, sigs>>  BY <2>3, QueryAlone DEF queryVars
    <3> QED  BY <1>2, <3>1 DEF FoundIsEnough, TwoThirdsThreshold
  <2> QED  BY <1>2, <2>1, <2>2, <2>3 DEF Next, Query
<1> QED  BY <1>1, <1>2, QueryAlways, PTL DEF Spec

-----------------------------------------------------------------------------
(* The network and the query as a quorum.                                  *)

\* What peers hold and what the query found was put by somebody; nothing is
\* submitted before the query has its answer.
SentInv ==
    /\ \A p \in Peers, a \in Addresses :
         confirms[p][a] # NoConfirm => <<a, confirms[p][a]>> \in sentConfirms
    /\ \A i \in Indices : found[i] # NoConfirm => <<Members[i], found[i]>> \in sentConfirms
    /\ qpc # "found" => \A i \in Indices : sigs[i] = NoSignature

\* what a step puts, stores and finds
LEMMA NetworkStep ==
    ASSUME TypeOK, [Next]_vars
    PROVE  /\ \/ UNCHANGED sentConfirms
              \/ \E m \in Addresses \X Confirms : sentConfirms' = sentConfirms \union {m}
           /\ \/ UNCHANGED confirms
              \/ \E p \in Peers, m \in sentConfirms' : confirms' = [confirms EXCEPT ![p][m[1]] = m[2]]
           /\ \/ UNCHANGED found
              \/ found' = NoneFound
              \/ \E c \in Held(Members[member]) : found' = [found EXCEPT ![member] = c]
           /\ \/ Check
              \/ UNCHANGED sigs /\ (qpc' = "found" <=> qpc = "found")
<1> USE DEF storeVars, sentVars, queryVars, budgetVars
<1>1. CASE Query \/ TimeOut
  BY <1>1 DEF Query, StartQuery, GetConfirm, Proceed, Check, TimeOut, Return
<1>2. CASE DHT
  <2>1. CASE PutForeign  BY <2>1, ForeignAssumption DEF PutForeign
  <2>2. CASE ~PutForeign  BY <1>2, <2>2 DEF DHT, ReceiveConfirm, ReceiveValset, Leave, Join
  <2> QED  BY <2>1, <2>2
<1>3. ASSUME NEW a \in Addresses, ProvideConfirm(a)
      PROVE  /\ \E m \in Addresses \X Confirms : sentConfirms' = sentConfirms \union {m}
             /\ \E p \in Peers, m \in sentConfirms' : confirms' = [confirms EXCEPT ![p][m[1]] = m[2]]
             /\ UNCHANGED queryVars
  <2> DEFINE m == <<a, Confirm(a)>>
  <2>1. m \in Addresses \X Confirms /\ m[1] = a /\ m[2] = Confirm(a) /\ Home[a] \in Peers
    BY ConfirmFacts, PeersAssumption
  <2>2. /\ sentConfirms' = sentConfirms \union {m} /\ UNCHANGED queryVars
        /\ confirms' = [confirms EXCEPT ![Home[a]][a] = Confirm(a)]
    BY <1>3 DEF ProvideConfirm
  <2> HIDE DEF m
  <2> QED  BY <2>1, <2>2
<1>4. CASE Orchestrators  BY <1>3, <1>4 DEF Orchestrators, ProvideLatestValset
<1>5. CASE UNCHANGED vars  BY <1>5 DEF vars
<1> QED  BY <1>1, <1>2, <1>4, <1>5 DEF Next

LEMMA SentKept ==
    ASSUME TypeOK, SentInv, [Next]_vars
    PROVE  SentInv'
<1>0. sentConfirms \subseteq sentConfirms'  BY NetworkStep
<1>1. ASSUME NEW p \in Peers, NEW a \in Addresses, confirms'[p][a] # NoConfirm
      PROVE  <<a, confirms'[p][a]>> \in sentConfirms'
  <2>1. CASE UNCHANGED confirms  BY <1>0, <1>1, <2>1 DEF SentInv
  <2>2. ASSUME NEW q \in Peers, NEW m \in sentConfirms', confirms' = [confirms EXCEPT ![q][m[1]] = m[2]]
        PROVE  <<a, confirms'[p][a]>> \in sentConfirms'
    <3>1. m = <<m[1], m[2]>> /\ m[1] \in Addresses  BY NetworkStep DEF TypeOK
    <3>2. CASE p = q /\ a = m[1]
      <4>1. confirms'[p][a] = m[2]  BY <2>2, <3>1, <3>2 DEF TypeOK
      <4> QED  BY <3>1, <3>2, <4>1
    <3>3. CASE ~(p = q /\ a = m[1])
      <4>1. confirms'[p][a] = confirms[p][a]  BY <2>2, <3>1, <3>3 DEF TypeOK
      <4> QED  BY <1>0, <1>1, <4>1 DEF SentInv
    <3> QED  BY <3>2, <3>3
  <2> QED  BY <2>1, <2>2, NetworkStep
<1>2. ASSUME NEW i \in Indices, found'[i] # NoConfirm
      PROVE  <<Members[i], found'[i]>> \in sentConfirms'
  <2>1. CASE UNCHANGED found  BY <1>0, <1>2, <2>1 DEF SentInv
  <2>2. CASE found' = NoneFound  BY <1>2, <2>2 DEF NoneFound
  <2>3. ASSUME NEW c \in Held(Members[member]), found' = [found EXCEPT ![member] = c]
        PROVE  <<Members[i], found'[i]>> \in sentConfirms'
    <3>1. PICK p \in online : c = confirms[p][Members[member]] /\ c # NoConfirm  BY <2>3 DEF Held
    <3>2. p \in Peers /\ Members[member] \in Addresses  BY MemberFacts DEF TypeOK
    <3>3. <<Members[member], c>> \in sentConfirms  BY <3>1, <3>2 DEF SentInv
    <3>4. CASE i = member
      <4>1. found'[i] = c  BY <2>3, <3>4 DEF TypeOK
      <4> QED  BY <1>0, <3>3, <3>4, <4>1
    <3>5. CASE i # member
      <4>1. found'[i] = found[i]  BY <2>3, <3>5 DEF TypeOK
      <4> QED  BY <1>0, <1>2, <4>1 DEF SentInv
    <3> QED  BY <3>4, <3>5
  <2> QED  BY <2>1, <2>2, <2>3, NetworkStep
<1>3. qpc' # "found" => \A i \in Indices : sigs'[i] = NoSignature
  BY NetworkStep DEF SentInv, Check
<1> QED  BY <1>1, <1>2, <1>3 DEF SentInv

LEMMA SentAlways == Spec => [](QueryInv /\ SentInv /\ FoundIsEnough)
<1>1. Init => SentInv  BY DEF Init, SentInv, NoneFound
<1>2. QueryInv /\ SentInv /\ [Next]_vars => SentInv'  BY SentKept DEF QueryInv
<1> QED  BY <1>1, <1>2, QueryAlways, SubmittedIsEnough, PTL DEF Spec

\* those who signed, and the members whose signatures are submitted
Gave == {a \in Addresses : SignedBy(a)}
Given == {Members[i] : i \in {j \in Indices : sigs[j] = Genuine(Members[j])}}

\* a signature that is put is that of one member at most
LEMMA SignsFor ==
    ASSUME NEW a \in Addresses, NEW b \in Addresses, Genuine(a) = Genuine(b)
    PROVE  a = b
BY DEF Genuine

\* The answer: what the query submits is of members who put it and have the power.
LEMMA CheckAnswers ==
    ASSUME QueryInv, SentInv, Check, qpc' = "found"
    PROVE  /\ Given = {} /\ Given' \subseteq Gave
           /\ PowerOf(Given') >= TwoThirdsThreshold
<1> DEFINE counted == {i \in Indices : Counts(i)}
           f == [i \in counted |-> Power[Members[i]]]
           g == [a \in Given' |-> Power[a]]
<1>1. Given = {}
  <2>1. \A i \in Indices : sigs[i] = NoSignature  BY DEF Check, SentInv
  <2> QED  BY <2>1, ConfirmFacts, MemberFacts DEF Given
<1>2. \A i \in Indices : sigs'[i] = IF Counts(i) THEN Genuine(Members[i]) ELSE NoSignature
  BY MatchedSigs DEF Check
<1>3. Given' = {Members[i] : i \in counted}
  BY <1>2, ConfirmFacts, MemberFacts DEF Given
<1>4. \A i \in counted : SignedBy(Members[i])
  <2> SUFFICES ASSUME NEW i \in counted PROVE SignedBy(Members[i])  OBVIOUS
  <2>1. <<Members[i], found[i]>> \in sentConfirms  BY DEF Counts, SentInv
  <2>2. found[i].Signature = Genuine(Members[i])  BY CountsForItself
  <2> QED  BY <2>1, <2>2 DEF SignedBy
<1>5. Given' \subseteq Gave  BY <1>3, <1>4, MemberFacts DEF Gave
<1>6. SumFunction(f) >= TwoThirdsThreshold
  <2>1. {i \in Indices : sigs'[i] # NoSignature} = counted  BY <1>2, ConfirmFacts, MemberFacts
  <2> QED  BY <2>1, CheckFindsEnough DEF FoundIsEnough, TwoThirdsThreshold
<1>7. SumFunction(f) = SumFunction(g)
  <2>1. IsFiniteSet(counted)
    <3>1. IsFiniteSet(Indices)  BY FS_Interval, MemberFacts
    <3>2. counted \subseteq Indices  OBVIOUS
    <3> HIDE DEF counted
    <3> QED  BY <3>1, <3>2, FS_Subset
  <2>2. \A i \in counted : f[i] \in Nat /\ f[i] = g[Members[i]]
    BY <1>3, MemberFacts, MembersAssumption
  <2>3. \A i, j \in counted : Members[i] = Members[j] => i = j  BY MemberFacts
  <2>4. DOMAIN f = counted /\ DOMAIN g = {Members[i] : i \in counted}  BY <1>3
  <2> HIDE DEF f, g, counted
  <2>5. SumFunctionOnSet(f, counted) = SumFunctionOnSet(g, {Members[i] : i \in counted})
    BY <2>1, <2>2, <2>3, SumRenamed
  <2> QED  BY <2>4, <2>5 DEF SumFunction
<1>8. SumFunction(g) = PowerOf(Given')  BY DEF PowerOf
<1> QED  BY <1>1, <1>5, <1>6, <1>7, <1>8

\* The network with the query implements Signing (the three validators, the lookups
\* of the DHT, QueryTwoThirds*Confirms and matchAttestationConfirmSigs together).
THEOREM NetworkIsAQuorum == Spec => ImplementsQuorum
<1>1. Init => Abstract!Init
  <2> SUFFICES ASSUME Init PROVE Gave = {} /\ Given = {}  BY DEF Abstract!Init, Gave, Given
  <2>1. Gave = {}  BY DEF Init, Gave, SignedBy
  <2>2. Given = {}  BY ConfirmFacts, MemberFacts DEF Init, Given
  <2> QED  BY <2>1, <2>2
<1>2. ASSUME QueryInv, SentInv, [Next]_vars
      PROVE  [Abstract!Next]_<<Gave, Given>>
  <2>1. CASE Check /\ qpc' = "found"
    <3>1. Given = {} /\ Given' \subseteq Gave /\ Given' \in Quorums
      BY <1>2, <2>1, CheckAnswers DEF Quorums, Gave
    <3>2. Gave' = Gave  BY <2>1 DEF Check, sentVars, Gave, SignedBy
    <3>3. Abstract!Answer  BY <3>1, <3>2 DEF Abstract!Answer, Gave, Given
    <3> QED  BY <3>3 DEF Abstract!Next
  <2>2. CASE ~(Check /\ qpc' = "found")
    <3>1. Given' = Given  BY <1>2, <2>2, NetworkStep DEF QueryInv, Check, Given
    <3>2. CASE UNCHANGED sentConfirms
      <4>1. Gave' = Gave  BY <3>2 DEF Gave, SignedBy
      <4> QED  BY <3>1, <4>1
    <3>3. ASSUME NEW m \in Addresses \X Confirms, sentConfirms' = sentConfirms \union {m}
          PROVE  [Abstract!Next]_<<Gave, Given>>
      <4>1. \A a \in Addresses : SignedBy(a)' <=> SignedBy(a) \/ m[2].Signature = Genuine(a)
        BY <3>3 DEF SignedBy
      <4>2. CASE \E a \in Addresses : m[2].Signature = Genuine(a)
        <5>1. PICK a \in Addresses : m[2].Signature = Genuine(a)  BY <4>2
        <5>2. Gave' = Gave \union {a}  BY <4>1, <5>1, SignsFor DEF Gave
        <5>3. Abstract!Sign(a)  BY <3>1, <5>2 DEF Abstract!Sign, Gave, Given
        <5> QED  BY <5>3 DEF Abstract!Next
      <4>3. CASE ~\E a \in Addresses : m[2].Signature = Genuine(a)
        <5>1. Gave' = Gave  BY <4>1, <4>3 DEF Gave
        <5> QED  BY <3>1, <5>1
      <4> QED  BY <4>2, <4>3
    <3> QED  BY <1>2, <3>2, <3>3, NetworkStep DEF QueryInv
  <2> QED  BY <2>1, <2>2
<1> QED  BY <1>1, <1>2, SentAlways, PTL DEF Spec, ImplementsQuorum, Abstract!Spec, Gave, Given

LEMMA PowerIsSum ==
    ASSUME NEW S \in SUBSET Addresses
    PROVE  IsFiniteSet(S) /\ PowerOf(S) = SumFunctionOnSet(Power, S) /\ PowerOf(S) \in Nat
<1> DEFINE f == [a \in S |-> Power[a]]
           memberOf == [i \in Indices |-> Members[i]]
<1>1. IsFiniteSet(Addresses)
  <2>1. IsFiniteSet(Indices)  BY FS_Interval, MemberFacts
  <2>2. memberOf \in Surjection(Indices, Addresses)  BY DEF Surjection, Addresses
  <2> HIDE DEF memberOf
  <2> QED  BY <2>1, <2>2, FS_Surjection
<1>2. IsFiniteSet(S)  BY <1>1, FS_Subset
<1>3. \A a \in S : f[a] \in Nat /\ f[a] = Power[a]  BY MembersAssumption
<1>4. PowerOf(S) = SumFunctionOnSet(f, S)  BY DEF PowerOf, SumFunction
<1> HIDE DEF f
<1> QED  BY <1>2, <1>3, <1>4, SumsOfEquals, SumIsNatural

\* Two quorums have members in common who hold more than a third of the power: two
\* answers over different digests for one nonce take that many who signed both
\* (celestia-app's TwoThirdsThreshold, which rounds the third up).
THEOREM QuorumsShareAThird ==
    \A Q, R \in Quorums : 3 * PowerOf(Q \intersect R) > PowerOf(Addresses)
<1> SUFFICES ASSUME NEW Q \in Quorums, NEW R \in Quorums
             PROVE  3 * PowerOf(Q \intersect R) > PowerOf(Addresses)
  OBVIOUS
<1> DEFINE both == Q \intersect R
           onlyQ == Q \ R
           Sum(S) == SumFunctionOnSet(Power, S)
<1>1. /\ Q \in SUBSET Addresses /\ R \in SUBSET Addresses
      /\ both \in SUBSET Addresses /\ onlyQ \in SUBSET Addresses
      /\ onlyQ \union R \in SUBSET Addresses /\ Addresses \in SUBSET Addresses
  BY DEF Quorums
<1>2. \A S \in SUBSET Addresses : IsFiniteSet(S) /\ PowerOf(S) = Sum(S) /\ Sum(S) \in Nat
  BY PowerIsSum
<1>3. \A a \in Addresses : Power[a] \in Nat  BY MembersAssumption
<1>4. Sum(Q) = Sum(onlyQ) + Sum(both)
  <2>1. onlyQ \union both = Q /\ onlyQ \intersect both = {}  OBVIOUS
  <2>2. \A a \in onlyQ \union both : Power[a] \in Nat  BY <1>1, <1>3
  <2> HIDE DEF onlyQ, both
  <2> QED  BY <1>1, <1>2, <2>1, <2>2, SumOfBoth
<1>5. Sum(onlyQ \union R) = Sum(onlyQ) + Sum(R)
  <2>1. onlyQ \intersect R = {}  OBVIOUS
  <2>2. \A a \in onlyQ \union R : Power[a] \in Nat  BY <1>1, <1>3
  <2> HIDE DEF onlyQ
  <2> QED  BY <1>1, <1>2, <2>1, <2>2, SumOfBoth
<1>6. Sum(onlyQ \union R) <= Sum(Addresses)
  <2> HIDE DEF onlyQ
  <2> QED  BY <1>1, <1>2, <1>3, SumGrows
<1>7. PICK total \in Nat : total = Sum(Addresses) /\ TwoThirdsThreshold = 2 * (total \div 3 + 1)
  <2>1. DOMAIN Power = Addresses  BY MembersAssumption
  <2> QED  BY <1>1, <1>2, <2>1 DEF TwoThirdsThreshold, SumFunction
<1>8. PICK third \in Nat : third = total \div 3 /\ total <= 3 * third + 2  OBVIOUS
<1>9. Sum(Q) >= 2 * (third + 1) /\ Sum(R) >= 2 * (third + 1)
  BY <1>1, <1>2, <1>7, <1>8 DEF Quorums
<1>10. PowerOf(both) = Sum(both) /\ PowerOf(Addresses) = total
       /\ Sum(Q) \in Nat /\ Sum(R) \in Nat /\ Sum(both) \in Nat /\ Sum(onlyQ) \in Nat
  BY <1>1, <1>2, <1>7
<1> HIDE DEF Sum, both, onlyQ
<1>11. Sum(both) >= third + 2  BY <1>4, <1>5, <1>6, <1>7, <1>8, <1>9, <1>10
<1> QED  BY <1>8, <1>10, <1>11 DEF both

-----------------------------------------------------------------------------
(* The key "latest".                                                       *)

\* Select, asked for the better of two sets as the DHT does, never prefers the
\* older one (of more than two it may).
LEMMA SelectOfTwo ==
    ASSUME NEW n \in Nat \ {0}, NEW v \in Nat \ {0}, SelectValset(<<n, v>>) = 1
    PROVE  v <= n
<1> SUFFICES ASSUME v > n PROVE FALSE  OBVIOUS
<1> DEFINE values == <<n, v>>
           before(i) == IF i = 1 THEN 0 ELSE values[i - 1]
           rises == {i \in DOMAIN values : values[i] > before(i)}
<1>1. DOMAIN values = {1, 2} /\ values[1] = n /\ values[2] = v  OBVIOUS
<1>2. rises = {1, 2}  BY <1>1
<1>3. Max({1, 2}) = 2
  <2>1. \E x \in {1, 2} : \A y \in {1, 2} : x >= y  OBVIOUS
  <2> QED  BY <2>1 DEF Max
<1>4. SelectValset(<<n, v>>) = 2  BY <1>2, <1>3 DEF SelectValset
<1> QED  BY <1>4

LEMMA StoresNewer ==
    ASSUME TypeOK, NEW p \in Peers, NEW n \in 1..MaxValset, StoresValset(p, n)
    PROVE  n >= valset[p]
<1>1. valset[p] \in Nat /\ n \in Nat \ {0}  BY BoundAssumption DEF TypeOK
<1>2. CASE valset[p] = 0  BY <1>1, <1>2
<1>3. CASE valset[p] # 0  BY <1>1, <1>3, SelectOfTwo DEF StoresValset
<1> QED  BY <1>2, <1>3

\* No peer replaces a validator set by an older one (LatestValsetValidator).
THEOREM PeersNeverGoBack == Spec => NeverBack
<1> DEFINE Newer == \A p \in Peers : valset'[p] >= valset[p]
<1>1. ASSUME TypeOK, [Next]_vars PROVE [Newer]_vars
  <2>0. \A q \in Peers : valset[q] \in Nat /\ valset[q] >= valset[q]
    BY <1>1, BoundAssumption DEF TypeOK
  <2>1. CASE UNCHANGED valset  BY <2>0, <2>1
  <2>2. ASSUME NEW p \in Peers, NEW n \in 1..MaxValset, StoresValset(p, n),
               valset' = [valset EXCEPT ![p] = n]
        PROVE  Newer
    BY <1>1, <2>0, <2>2, StoresNewer DEF TypeOK
  <2>3. CASE Orchestrators
    BY <2>1, <2>2, <2>3 DEF Orchestrators, ProvideConfirm, ProvideLatestValset
  <2>4. ASSUME NEW p \in Peers, ReceiveValset(p) PROVE Newer
    BY <1>1, <2>2, <2>4 DEF ReceiveValset, TypeOK
  <2>5. CASE DHT
    BY <2>1, <2>4, <2>5 DEF DHT, PutForeign, ReceiveConfirm, Leave, Join, storeVars
  <2>6. CASE Query \/ TimeOut \/ UNCHANGED vars
    BY <2>1, <2>6 DEF Query, StartQuery, GetConfirm, Check, TimeOut, storeVars, vars
  <2> QED  BY <1>1, <2>3, <2>5, <2>6 DEF Next
<1> QED  BY <1>1, TypeCorrect, PTL DEF Spec, NeverBack
=============================================================================
