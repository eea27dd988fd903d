------------------------- MODULE OrchestratorProofs -------------------------
(***************************************************************************)
(* Theorems about Orchestrator, for every capacity, retry count, window    *)
(* and bound: the types; no nonce is forgotten; a nonce is handled only    *)
(* when its confirm is in the network, or none is due; and a helper can    *)
(* only panic once Start is through.                                       *)
(***************************************************************************)
EXTENDS Orchestrator, SequenceTheorems, TLAPS

\* what the program counters say of the rest of the state
Control ==
    /\ earliest = 1 \/ earliest <= latest
    /\ lpc = "enqueue" => levent # <<>>
    /\ epc = "earliest" => enext \in earliest..latest
    /\ epc = "send" => elow \in 1..enext
    /\ ppc = "retry" => ptries < Retries
    /\ ppc \in {"previous", "sign"} => pnonce \in 2..latest

IInv == TypeOK /\ Control

\* TypeOK in parts: the sequences, the flags, and the rest
ChannelTypes ==
    /\ results \in Seq(Events) /\ levent \in Seq(Nonces)
    /\ noncesQueue \in Seq(0..MaxNonce) /\ Len(noncesQueue) <= QueueSize
    /\ requeueQueue \in Seq(0..MaxNonce) /\ Len(requeueQueue) <= QueueSize

FlagTypes ==
    /\ nodeUp \in BOOLEAN /\ subscribed \in BOOLEAN
    /\ noncesClosed \in BOOLEAN /\ requeueClosed \in BOOLEAN
    /\ ctxDone \in BOOLEAN /\ signalled \in BOOLEAN /\ panicked \in BOOLEAN

ScalarTypes ==
    /\ latest \in 0..MaxNonce /\ earliest \in Nat \ {0}
    /\ lpc \in {"subscribe", "listen", "redial", "resubscribe", "enqueue", "done"}
    /\ ltries \in 0..Retries
    /\ epc \in {"query", "earliest", "send", "done"}
    /\ enext \in 0..MaxNonce /\ elow \in Nat
    /\ ppc \in {"select", "att", "previous", "sign", "retry", "done"}
    /\ pnonce \in 0..MaxNonce /\ ptries \in 0..Retries
    /\ mrQuery \in Counts /\ mrSend \in Counts /\ tgRecv \in Nat /\ tgSend \in Counts
    /\ confirms \subseteq Nonces /\ offered \in 0..MaxNonce
    /\ known \subseteq 0..MaxNonce /\ handled \subseteq 0..MaxNonce
    /\ dropped \subseteq 0..MaxNonce /\ lost \subseteq Nonces /\ blind \subseteq Nonces
    /\ failures \in Nat /\ outages \in Nat /\ restarts \in Nat

Typed == ChannelTypes /\ FlagTypes /\ ScalarTypes /\ Control

-----------------------------------------------------------------------------
(* Sequences as channels.                                                  *)

\* a send on a channel adds its element, and nothing else
LEMMA SendAdds ==
    ASSUME NEW S, NEW s \in Seq(S), NEW e \in S
    PROVE  /\ Append(s, e) \in Seq(S)
           /\ Len(Append(s, e)) = Len(s) + 1
           /\ ToSet(Append(s, e)) = ToSet(s) \union {e}
<1>1. /\ Append(s, e) \in Seq(S) /\ Len(Append(s, e)) = Len(s) + 1
      /\ \A i \in 1..Len(s) : Append(s, e)[i] = s[i]
      /\ Append(s, e)[Len(s) + 1] = e
  BY AppendProperties
<1>2. /\ Len(s) \in Nat /\ DOMAIN s = 1..Len(s)
      /\ DOMAIN Append(s, e) = 1..Len(s) + 1
  BY <1>1, LenProperties
<1>3. \A i \in 1..Len(s) + 1 : i \in 1..Len(s) \/ i = Len(s) + 1
  BY <1>2
<1>4. ToSet(Append(s, e)) = ToSet(s) \union {e}
  BY <1>1, <1>2, <1>3 DEF ToSet
<1> QED BY <1>1, <1>4

\* a receive takes the first element, and leaves the others
LEMMA ReceiveTakes ==
    ASSUME NEW S, NEW s \in Seq(S), s # <<>>
    PROVE  /\ Head(s) \in S /\ Tail(s) \in Seq(S)
           /\ Len(Tail(s)) = Len(s) - 1
           /\ ToSet(s) = {Head(s)} \union ToSet(Tail(s))
<1>1. /\ Head(s) \in S /\ Tail(s) \in Seq(S) /\ Len(Tail(s)) = Len(s) - 1
      /\ \A i \in 1..Len(Tail(s)) : Tail(s)[i] = s[i + 1]
  BY HeadTailProperties
<1>2. Len(s) \in Nat \ {0} /\ Head(s) = s[1]
  BY EmptySeq
<1>3. \A i \in 1..Len(s) : i = 1 \/ (i - 1 \in 1..Len(Tail(s)) /\ Tail(s)[i - 1] = s[i])
  BY <1>1, <1>2
<1>4. ToSet(s) \subseteq {Head(s)} \union ToSet(Tail(s))
  <2> SUFFICES ASSUME NEW i \in 1..Len(s) PROVE s[i] \in {Head(s)} \union ToSet(Tail(s))
    BY DEF ToSet
  <2>1. DOMAIN Tail(s) = 1..Len(Tail(s))
    BY <1>1, LenProperties
  <2> QED BY <1>2, <1>3, <2>1 DEF ToSet
<1>5. ToSet(Tail(s)) \subseteq ToSet(s) /\ Head(s) \in ToSet(s)
  BY <1>1, <1>2 DEF ToSet
<1> QED BY <1>1, <1>4, <1>5

\* a send that waited for room keeps the channel within its capacity
LEMMA SendFits ==
    ASSUME NEW s \in Seq(0..MaxNonce), NEW e \in 0..MaxNonce, Room(s)
    PROVE  Append(s, e) \in Seq(0..MaxNonce) /\ Len(Append(s, e)) <= QueueSize
BY SendAdds, LenProperties, QueueAssumption DEF Room

\* ... and so does a receive
LEMMA ReceiveFits ==
    ASSUME NEW s \in Seq(0..MaxNonce), s # <<>>, Len(s) <= QueueSize
    PROVE  /\ Head(s) \in 0..MaxNonce
           /\ Tail(s) \in Seq(0..MaxNonce) /\ Len(Tail(s)) <= QueueSize
<1>1. Len(s) \in Nat /\ QueueSize \in Nat
  BY LenProperties, QueueAssumption
<1>2. Head(s) \in 0..MaxNonce /\ Tail(s) \in Seq(0..MaxNonce) /\ Len(Tail(s)) = Len(s) - 1
  BY ReceiveTakes
<1> QED BY <1>1, <1>2

\* counting the helpers that hold a nonce
LEMMA CountsTyped ==
    ASSUME NEW f \in Counts, NEW n \in 0..MaxNonce
    PROVE  Plus(f, n) \in Counts /\ (f[n] > 0 => Minus(f, n) \in Counts)
BY DEF Counts, Plus, Minus

\* what a channel holds is of its type
LEMMA HeldIsTyped ==
    ASSUME NEW S, NEW s \in Seq(S)
    PROVE  ToSet(s) \subseteq S
BY DEF ToSet

-----------------------------------------------------------------------------
(* Types and control.                                                      *)

LEMMA TypeParts == IInv <=> Typed
BY DEF IInv, Typed, TypeOK, ChannelTypes, FlagTypes, ScalarTypes

LEMMA InitTyped == Init => Typed
<1> SUFFICES ASSUME Init PROVE Typed
  OBVIOUS
<1> USE QueueAssumption, RetrierAssumption, ChainAssumption DEF Init, StartState
<1>1. None \in Counts
  BY DEF None, Counts
<1>2. /\ <<>> \in Seq(Events) /\ <<>> \in Seq(Nonces) /\ <<>> \in Seq(0..MaxNonce)
      /\ Len(<<>>) = 0
  BY EmptySeq
<1>3. ChannelTypes
  BY <1>2 DEF ChannelTypes
<1>4. ScalarTypes
  BY <1>1 DEF ScalarTypes, Nonces
<1>5. FlagTypes
  BY DEF FlagTypes
<1>6. Control
  BY DEF Control
<1> QED BY <1>3, <1>4, <1>5, <1>6 DEF Typed

\* an event of one or two new nonces
LEMMA EventTyped ==
    ASSUME NEW k \in {1, 2}, NEW n \in Nat, n + k <= MaxNonce
    PROVE  [i \in 1..k |-> n + i] \in Events
<1> DEFINE event == [i \in 1..k |-> n + i]
<1>1. event \in [1..k -> Nonces]
  BY ChainAssumption DEF Nonces
<1>2. event \in Seq(Nonces)
  BY <1>1
<1>3. event # <<>>
  BY Len(event) = k, Len(<<>>) = 0
<1> QED BY <1>2, <1>3 DEF Events

LEMMA TypeChain == Typed /\ Chain => Typed'
<1> SUFFICES ASSUME Typed, Chain PROVE Typed'
  OBVIOUS
<1> USE ChainAssumption, RetrierAssumption DEF Typed
<1> USE DEF chainVars, linkVars, listenVars, enqVars, procVars, queueVars, closeVars,
            helperVars, lifeVars, budgetVars, networkVars, histVars
<1>1. CASE NewBlock
  <2>1. PICK k \in {1, 2} :
          /\ latest + k <= MaxNonce /\ latest' = latest + k
          /\ results' \in {results, Append(results, [i \in 1..k |-> latest + i])}
          /\ lost' \in {lost, lost \union (latest + 1 .. latest + k)}
    BY <1>1 DEF NewBlock
  <2>2. latest \in Nat /\ results \in Seq(Events)
    BY DEF ScalarTypes, ChannelTypes
  <2>3. [i \in 1..k |-> latest + i] \in Events
    BY <2>1, <2>2, EventTyped
  <2>4. results' \in Seq(Events)
    BY <2>1, <2>2, <2>3, AppendProperties
  <2>5. ChannelTypes'
    BY <1>1, <2>4 DEF ChannelTypes, NewBlock
  <2>6. lost' \subseteq Nonces /\ latest' \in 0..MaxNonce /\ latest <= latest'
    BY <2>1 DEF ScalarTypes, Nonces
  <2>7. ScalarTypes'
    BY <1>1, <2>6 DEF ScalarTypes, NewBlock
  <2>8. Control'
    BY <1>1, <2>6 DEF ScalarTypes, Control, NewBlock
  <2>9. FlagTypes'
    BY <1>1 DEF FlagTypes, NewBlock
  <2> QED BY <2>5, <2>7, <2>8, <2>9
<1>2. CASE Prune
  <2>1. ChannelTypes'
    BY <1>2 DEF ChannelTypes, Prune
  <2>2. FlagTypes'
    BY <1>2 DEF FlagTypes, Prune
  <2>3. ScalarTypes'
    BY <1>2 DEF ScalarTypes, Prune
  <2>4. Control'
    BY <1>2 DEF ScalarTypes, Control, Prune
  <2> QED BY <2>1, <2>2, <2>3, <2>4
<1>3. CASE NodeDown
  <2>1. ChannelTypes'
    BY <1>3 DEF ChannelTypes, NodeDown
  <2>2. FlagTypes'
    BY <1>3 DEF FlagTypes, NodeDown
  <2>3. ScalarTypes'
    BY <1>3 DEF ScalarTypes, NodeDown
  <2>4. Control'
    BY <1>3 DEF ScalarTypes, Control, NodeDown
  <2> QED BY <2>1, <2>2, <2>3, <2>4
<1>4. CASE NodeRecovers
  <2>1. ChannelTypes'
    BY <1>4 DEF ChannelTypes, NodeRecovers
  <2>2. FlagTypes'
    BY <1>4 DEF FlagTypes, NodeRecovers
  <2>3. ScalarTypes'
    BY <1>4 DEF ScalarTypes, NodeRecovers
  <2>4. Control'
    BY <1>4 DEF ScalarTypes, Control, NodeRecovers
  <2> QED BY <2>1, <2>2, <2>3, <2>4
<1> QED BY <1>1, <1>2, <1>3, <1>4 DEF Chain

LEMMA EventsTyped == ChannelTypes => InEvents \subseteq Nonces
<1> SUFFICES ASSUME ChannelTypes PROVE InEvents \subseteq Nonces
  OBVIOUS
<1>1. \A i \in 1..Len(results) : results[i] \in Seq(Nonces)
  BY ElementOfSeq DEF ChannelTypes, Events
<1>2. \A i \in 1..Len(results) : ToSet(results[i]) \subseteq Nonces
  BY <1>1, HeldIsTyped
<1>3. ToSet(levent) \subseteq Nonces
  BY HeldIsTyped DEF ChannelTypes
<1> SUFFICES ASSUME NEW n \in InEvents PROVE n \in Nonces
  OBVIOUS
<1>4. n \in ToSet(levent) \/ \E i \in 1..Len(results) : n \in ToSet(results[i])
  BY DEF InEvents
<1> QED BY <1>2, <1>3, <1>4

LEMMA TypeListener == Typed /\ Listener => Typed'
<1> SUFFICES ASSUME Typed, Listener PROVE Typed'
  OBVIOUS
<1> USE QueueAssumption, ChainAssumption, RetrierAssumption, EventsTyped DEF Typed
<1> USE DEF chainVars, linkVars, listenVars, enqVars, procVars, queueVars, closeVars,
            helperVars, lifeVars, budgetVars, networkVars, histVars
<1>0. /\ UNCHANGED <<chainVars, enqVars, procVars, requeueQueue, closeVars, helperVars,
                     lifeVars, networkVars, handled, dropped, blind, budgetVars>>
      /\ LEnqueue \/ UNCHANGED <<noncesQueue, known>>
  BY DEF Listener
<1>e. <<>> \in Seq(Events) /\ <<>> \in Seq(Nonces)
  BY EmptySeq
<1>1. CASE LSubscribe
  <2>0. UNCHANGED <<noncesQueue, known>>
    BY <1>0, <1>1 DEF LSubscribe, LEnqueue
  <2>1. ChannelTypes'
    BY <1>0, <1>e, <1>1, <2>0 DEF ChannelTypes, LSubscribe, CallFails
  <2>2. FlagTypes'
    BY <1>0, <1>1 DEF FlagTypes, LSubscribe, CallFails
  <2>3. ScalarTypes'
    BY <1>0, <1>1, <2>0 DEF ScalarTypes, LSubscribe, CallFails
  <2>4. Control'
    BY <1>0, <1>1 DEF ScalarTypes, Control, LSubscribe, CallFails
  <2> QED BY <2>1, <2>2, <2>3, <2>4
<1>2. CASE LStop
  <2>0. UNCHANGED <<noncesQueue, known>>
    BY <1>0, <1>2 DEF LStop, LEnqueue
  <2>1. ChannelTypes'
    BY <1>0, <1>e, <1>2, <2>0 DEF ChannelTypes, LStop, LoseResults
  <2>2. FlagTypes'
    BY <1>0, <1>2 DEF FlagTypes, LStop, LoseResults
  <2>3. ScalarTypes'
    BY <1>0, <1>2, <2>0 DEF ScalarTypes, LStop, LoseResults
  <2>4. Control'
    BY <1>0, <1>2 DEF ScalarTypes, Control, LStop, LoseResults
  <2> QED BY <2>1, <2>2, <2>3, <2>4
<1>3. CASE LHealthTick
  <2>0. UNCHANGED <<noncesQueue, known>>
    BY <1>0, <1>3 DEF LHealthTick, LEnqueue
  <2>1. ChannelTypes'
    BY <1>0, <1>e, <1>3, <2>0 DEF ChannelTypes, LHealthTick, NodeFails
  <2>2. FlagTypes'
    BY <1>0, <1>3 DEF FlagTypes, LHealthTick, NodeFails
  <2>3. ScalarTypes'
    BY <1>0, <1>3, <2>0 DEF ScalarTypes, LHealthTick, NodeFails
  <2>4. Control'
    BY <1>0, <1>3 DEF ScalarTypes, Control, LHealthTick, NodeFails
  <2> QED BY <2>1, <2>2, <2>3, <2>4
<1>4. CASE LRedial
  <2>0. UNCHANGED <<noncesQueue, known>>
    BY <1>0, <1>4 DEF LRedial, LEnqueue
  <2>1. ChannelTypes'
    BY <1>0, <1>e, <1>4, <2>0 DEF ChannelTypes, LRedial, NodeAnswers, NodeFails, LAttemptFails, LoseResults
  <2>2. FlagTypes'
    BY <1>0, <1>4 DEF FlagTypes, LRedial, NodeAnswers, NodeFails, LAttemptFails, LoseResults
  <2>3. ScalarTypes'
    BY <1>0, <1>4, <2>0 DEF ScalarTypes, LRedial, NodeAnswers, NodeFails, LAttemptFails, LoseResults
  <2>4. Control'
    BY <1>0, <1>4 DEF ScalarTypes, Control, LRedial, NodeAnswers, NodeFails, LAttemptFails, LoseResults
  <2> QED BY <2>1, <2>2, <2>3, <2>4
<1>5. CASE LResubscribe
  <2>0. UNCHANGED <<noncesQueue, known>>
    BY <1>0, <1>5 DEF LResubscribe, LEnqueue
  <2>1. ChannelTypes'
    BY <1>0, <1>e, <1>5, <2>0 DEF ChannelTypes, LResubscribe, CallFails, LAttemptFails, LoseResults
  <2>2. FlagTypes'
    BY <1>0, <1>5 DEF FlagTypes, LResubscribe, CallFails, LAttemptFails, LoseResults
  <2>3. ScalarTypes'
    BY <1>0, <1>5, <2>0 DEF ScalarTypes, LResubscribe, CallFails, LAttemptFails, LoseResults
  <2>4. Control'
    BY <1>0, <1>5 DEF ScalarTypes, Control, LResubscribe, CallFails, LAttemptFails, LoseResults
  <2> QED BY <2>1, <2>2, <2>3, <2>4
<1>6. CASE LReceive
  <2>0. UNCHANGED <<noncesQueue, known>>
    BY <1>0, <1>6 DEF LReceive, LEnqueue
  <2>e. Head(results) \in Events /\ Tail(results) \in Seq(Events)
    BY <1>6, HeadTailProperties DEF ChannelTypes, LReceive
  <2>1. ChannelTypes'
    BY <1>0, <1>6, <2>0, <2>e DEF ChannelTypes, Events, LReceive
  <2>2. FlagTypes'
    BY <1>0, <1>6 DEF FlagTypes, LReceive
  <2>3. ScalarTypes'
    BY <1>0, <1>6, <2>0 DEF ScalarTypes, LReceive
  <2>4. Control'
    BY <1>0, <1>6, <2>e DEF ScalarTypes, Control, Events, LReceive
  <2> QED BY <2>1, <2>2, <2>3, <2>4
<1>7. CASE LEnqueue
  <2>1. Head(levent) \in Nonces /\ Tail(levent) \in Seq(Nonces)
    BY <1>7, ReceiveTakes DEF ChannelTypes, Control, LEnqueue
  <2>2. Head(levent) \in 0..MaxNonce
    BY <2>1 DEF Nonces
  <2>3. noncesQueue' \in Seq(0..MaxNonce) /\ Len(noncesQueue') <= QueueSize
    BY <1>7, <2>2, SendFits DEF ChannelTypes, LEnqueue
  <2>4. ChannelTypes'
    BY <1>0, <1>7, <2>1, <2>3 DEF ChannelTypes, LEnqueue
  <2>5. FlagTypes'
    BY <1>0, <1>7 DEF FlagTypes, LEnqueue
  <2>6. ScalarTypes'
    BY <1>0, <1>7, <2>2 DEF ScalarTypes, LEnqueue
  <2>7. Control'
    BY <1>0, <1>7 DEF ScalarTypes, Control, LEnqueue
  <2> QED BY <2>4, <2>5, <2>6, <2>7
<1> QED BY <1>1, <1>2, <1>3, <1>4, <1>5, <1>6, <1>7 DEF Listener

LEMMA GiveUpTyped ==
    ASSUME ScalarTypes, EGiveUp
    PROVE  lost' \subseteq Nonces
<1>1. lost \subseteq Nonces /\ earliest..latest \subseteq Nonces
  BY ChainAssumption DEF ScalarTypes, Nonces
<1> QED BY <1>1 DEF EGiveUp

LEMMA TypeEnqueuer == Typed /\ Enqueuer => Typed'
<1> SUFFICES ASSUME Typed, Enqueuer PROVE Typed'
  OBVIOUS
<1> USE QueueAssumption, ChainAssumption, EventsTyped DEF Typed
<1> USE DEF chainVars, linkVars, listenVars, enqVars, procVars, queueVars, closeVars,
            helperVars, lifeVars, budgetVars, networkVars, histVars
<1>0. UNCHANGED <<chainVars, linkVars, listenVars, procVars, requeueQueue, closeVars,
                  helperVars, lifeVars, networkVars, handled, dropped, blind, budgetVars>>
  BY DEF Enqueuer
<1>1. CASE EQuery \/ EQueryEarliest
  <2>l. lost' \subseteq Nonces
    BY <1>1, GiveUpTyped DEF EQuery, EQueryEarliest, ScalarTypes
  <2>1. ChannelTypes'
    BY <1>0, <1>1 DEF ChannelTypes, EQuery, EQueryEarliest
  <2>2. FlagTypes'
    BY <1>0 DEF FlagTypes
  <2>e. epc' \in {"earliest", "send", "done"} /\ enext' \in 0..MaxNonce /\ elow' \in Nat
    BY <1>1 DEF ScalarTypes, EQuery, EQueryEarliest, EGiveUp
  <2>f. failures' \in Nat
    BY <1>1 DEF ScalarTypes, EQuery, EQueryEarliest, NodeAnswers, NodeFails
  <2>k. known' = known
    BY <1>1 DEF EQuery, EQueryEarliest
  <2>3. ScalarTypes'
    BY <1>0, <2>l, <2>e, <2>f, <2>k DEF ScalarTypes
  <2>4. Control'
    BY <1>0, <1>1 DEF ScalarTypes, Control, EQuery, EQueryEarliest, EGiveUp, NodeAnswers
  <2> QED BY <2>1, <2>2, <2>3, <2>4
<1>2. CASE ESend
  <2>1. enext \in 1..MaxNonce /\ elow \in 1..enext
    BY <1>2 DEF ESend, Control, ScalarTypes
  <2>2. noncesQueue' \in Seq(0..MaxNonce) /\ Len(noncesQueue') <= QueueSize
    <3>1. noncesQueue \in Seq(0..MaxNonce) /\ noncesQueue' = Append(noncesQueue, enext)
          /\ Room(noncesQueue) /\ enext \in 0..MaxNonce
      BY <1>2, <2>1 DEF ChannelTypes, ESend
    <3> QED BY <3>1, SendFits
  <2>3. ChannelTypes'
    BY <1>0, <2>2 DEF ChannelTypes
  <2>4. FlagTypes'
    BY <1>0 DEF FlagTypes
  <2>5. ScalarTypes'
    BY <1>0, <1>2, <2>1 DEF ScalarTypes, ESend
  <2>6. Control'
    BY <1>0, <1>2, <2>1 DEF ScalarTypes, Control, ESend, LastMissing
  <2> QED BY <2>3, <2>4, <2>5, <2>6
<1>3. CASE EStop
  <2>l. lost' \subseteq Nonces
    BY <1>3, GiveUpTyped DEF EStop
  <2>1. ChannelTypes'
    BY <1>0, <1>3 DEF ChannelTypes, EStop
  <2>2. FlagTypes'
    BY <1>0 DEF FlagTypes
  <2>3. ScalarTypes'
    BY <1>0, <1>3, <2>l DEF ScalarTypes, EStop, EGiveUp, Nonces
  <2>4. Control'
    BY <1>0, <1>3 DEF Control, EStop, EGiveUp
  <2> QED BY <2>1, <2>2, <2>3, <2>4
<1> QED BY <1>1, <1>2, <1>3 DEF Enqueuer

LEMMA OfferTyped ==
    ASSUME offered \in 0..MaxNonce, NEW v \in 0..MaxNonce, OfferValset(v)
    PROVE  offered' \in 0..MaxNonce
<1>1. Max({offered, v}) \in {offered, v}
  BY ChainAssumption DEF Max
<1> QED BY <1>1 DEF OfferValset

\* what every end of an attempt leaves
OutcomeTypes ==
    /\ pnonce \in 0..MaxNonce /\ ptries \in 0..Retries /\ mrQuery \in Counts
    /\ handled \subseteq 0..MaxNonce
    /\ ppc = "retry" => ptries < Retries

LEMMA OutcomeTyped ==
    ASSUME ScalarTypes, PDone \/ PError \/ PGiveUp
    PROVE  OutcomeTypes' /\ ppc' \in {"select", "retry"}
<1> USE RetrierAssumption, ChainAssumption
<1>1. Plus(mrQuery, pnonce) \in Counts
  BY CountsTyped DEF ScalarTypes
<1>2. pnonce \in 0..MaxNonce /\ handled \subseteq 0..MaxNonce
      /\ mrQuery \in Counts /\ ptries \in 0..Retries
  BY DEF ScalarTypes
<1>3. CASE PDone
  BY <1>2, <1>3 DEF PDone, OutcomeTypes
<1>4. CASE PGiveUp
  BY <1>1, <1>2, <1>4 DEF PGiveUp, OutcomeTypes
<1>5. CASE PError /\ ptries < Retries
  BY <1>2, <1>5 DEF PError, OutcomeTypes
<1> QED BY <1>3, <1>4, <1>5 DEF PError

LEMMA TypeProcessor == Typed /\ Processor => Typed'
<1> SUFFICES ASSUME Typed, Processor PROVE Typed'
  OBVIOUS
<1> USE QueueAssumption, ChainAssumption, RetrierAssumption DEF Typed
<1> USE DEF chainVars, linkVars, listenVars, enqVars, procVars, queueVars, closeVars,
            helperVars, lifeVars, budgetVars, networkVars, histVars
<1>0. UNCHANGED <<chainVars, linkVars, listenVars, enqVars, requeueQueue, closeVars, mrSend,
                  tgSend, ctxDone, panicked, known, dropped, lost, budgetVars>>
  BY DEF Processor
<1>1. CASE PTake
  <2>1. /\ pnonce' \in 0..MaxNonce
        /\ noncesQueue' \in Seq(0..MaxNonce) /\ Len(noncesQueue') <= QueueSize
    BY <1>1, ReceiveFits DEF ChannelTypes, PTake
  <2>2. ChannelTypes'
    BY <1>0, <2>1 DEF ChannelTypes
  <2>3. FlagTypes'
    BY <1>0, <1>1 DEF FlagTypes, PTake
  <2>4. ScalarTypes'
    BY <1>0, <1>1, <2>1 DEF ScalarTypes, PTake
  <2>5. Control'
    BY <1>0, <1>1 DEF Control, PTake
  <2> QED BY <2>2, <2>3, <2>4, <2>5
<1>2. CASE PTick
  <2>1. ChannelTypes'
    BY <1>0, <1>2 DEF ChannelTypes, PTick
  <2>2. FlagTypes'
    BY <1>0, <1>2 DEF FlagTypes, PTick
  <2>3. ScalarTypes'
    BY <1>0, <1>2 DEF ScalarTypes, Control, PTick
  <2>4. Control'
    BY <1>0, <1>2 DEF ScalarTypes, Control, PTick
  <2> QED BY <2>1, <2>2, <2>3, <2>4
<1>3. CASE PStop
  <2>1. ChannelTypes'
    BY <1>0, <1>3 DEF ChannelTypes, PStop
  <2>2. FlagTypes'
    BY <1>0, <1>3 DEF FlagTypes, PStop
  <2>3. ScalarTypes'
    BY <1>0, <1>3 DEF ScalarTypes, Control, PStop
  <2>4. Control'
    BY <1>0, <1>3 DEF ScalarTypes, Control, PStop
  <2> QED BY <2>1, <2>2, <2>3, <2>4
<1>4. CASE PRetry
  <2>1. ChannelTypes'
    BY <1>0, <1>4 DEF ChannelTypes, PRetry
  <2>2. FlagTypes'
    BY <1>0, <1>4 DEF FlagTypes, PRetry
  <2>o. OutcomeTypes' /\ ppc' \in {"att", "select", "retry"}
    <3>1. CASE PGiveUp
      BY <3>1, OutcomeTyped
    <3>2. CASE ~PGiveUp
      <4>1. ptries \in 0..Retries - 1 /\ ptries' = ptries + 1 /\ ppc' = "att"
            /\ UNCHANGED <<pnonce, mrQuery, handled>>
        BY <1>4, <3>2 DEF PRetry, ScalarTypes, Control
      <4> QED BY <4>1 DEF ScalarTypes, OutcomeTypes
    <3> QED BY <3>1, <3>2
  <2>3. ScalarTypes'
    BY <1>0, <1>4, <2>o DEF ScalarTypes, OutcomeTypes, PRetry
  <2>4. Control'
    BY <1>0, <1>4, <2>o DEF ScalarTypes, Control, OutcomeTypes, PRetry, NodeAnswers, Exists
  <2> QED BY <2>1, <2>2, <2>3, <2>4
<1>5. CASE PQueryAttestation
  <2>1. ChannelTypes'
    BY <1>0, <1>5 DEF ChannelTypes, PQueryAttestation
  <2>2. FlagTypes'
    BY <1>0, <1>5 DEF FlagTypes, PQueryAttestation
  <2>o. OutcomeTypes' /\ ppc' \in {"previous", "select", "retry"}
    BY <1>5, OutcomeTyped DEF PQueryAttestation, ScalarTypes, Control, OutcomeTypes
  <2>3. ScalarTypes'
    BY <1>0, <1>5, <2>o DEF ScalarTypes, OutcomeTypes, PQueryAttestation, NodeFails, NodeAnswers
  <2>p. ppc' = "previous" => pnonce' \in 2..latest
    BY <1>5 DEF ScalarTypes, PQueryAttestation, Exists, PDone, PError, PGiveUp
  <2>4. Control'
    BY <1>0, <2>o, <2>p DEF Control, OutcomeTypes
  <2> QED BY <2>1, <2>2, <2>3, <2>4
<1>6. CASE PQueryPrevious
  <2>1. ChannelTypes'
    BY <1>0, <1>6 DEF ChannelTypes, PQueryPrevious
  <2>2. FlagTypes'
    BY <1>0, <1>6 DEF FlagTypes, PQueryPrevious
  <2>v. offered' \in 0..MaxNonce
    BY <1>6, OfferTyped DEF PQueryPrevious, ScalarTypes, Exists
  <2>o. OutcomeTypes' /\ ppc' \in {"sign", "select", "retry"}
    BY <1>6, OutcomeTyped DEF PQueryPrevious, ScalarTypes, Control, OutcomeTypes
  <2>b. pnonce \in 2..latest /\ pnonce \in Nonces
    BY <1>6 DEF PQueryPrevious, Control, ScalarTypes, Nonces
  <2>f. failures' \in Nat
    BY <1>6 DEF PQueryPrevious, ScalarTypes, NodeFails, NodeAnswers
  <2>c. blind' \subseteq Nonces /\ confirms' = confirms
    BY <1>6, <2>b DEF PQueryPrevious, ScalarTypes
  <2>3. ScalarTypes'
    BY <1>0, <1>6, <2>o, <2>v, <2>c, <2>f DEF ScalarTypes, OutcomeTypes, PQueryPrevious
  <2>p. ppc' = "sign" => pnonce' = pnonce
    BY <1>6 DEF PQueryPrevious, PDone
  <2>4. Control'
    BY <1>0, <2>b, <2>o, <2>p DEF Control, OutcomeTypes
  <2> QED BY <2>1, <2>2, <2>3, <2>4
<1>7. CASE PSign
  <2>1. ChannelTypes'
    BY <1>0, <1>7 DEF ChannelTypes, PSign
  <2>2. FlagTypes'
    BY <1>0, <1>7 DEF FlagTypes, PSign
  <2>n. pnonce \in 2..MaxNonce
    BY <1>7 DEF PSign, Control, ScalarTypes
  <2>v. offered' \in 0..MaxNonce
    BY <1>7, <2>n, OfferTyped DEF PSign, ScalarTypes
  <2>o. OutcomeTypes' /\ ppc' \in {"select", "retry"}
    BY <1>7, OutcomeTyped DEF PSign, ScalarTypes, Control, OutcomeTypes
  <2>f. failures' \in Nat
    BY <1>7 DEF PSign, ScalarTypes, CallFails, NodeFails
  <2>c. confirms' \subseteq Nonces /\ blind' = blind
    <3>1. pnonce \in Nonces /\ confirms \subseteq Nonces
      BY <2>n DEF Nonces, ScalarTypes
    <3>2. confirms' \in {confirms, confirms \union {pnonce}} /\ blind' = blind
      BY <1>7 DEF PSign
    <3> QED BY <3>1, <3>2
  <2>3. ScalarTypes'
    BY <1>0, <1>7, <2>o, <2>v, <2>c, <2>f DEF ScalarTypes, OutcomeTypes, PSign
  <2>4. Control'
    BY <1>0, <1>7, <2>o DEF ScalarTypes, Control, OutcomeTypes, PSign, NodeAnswers, Exists
  <2> QED BY <2>1, <2>2, <2>3, <2>4
<1> QED BY <1>1, <1>2, <1>3, <1>4, <1>5, <1>6, <1>7 DEF Processor

LEMMA TypeHelper == Typed /\ Helper => Typed'
<1> SUFFICES ASSUME Typed, Helper PROVE Typed'
  OBVIOUS
<1> USE QueueAssumption, ChainAssumption DEF Typed
<1> USE DEF chainVars, linkVars, listenVars, enqVars, procVars, queueVars, closeVars,
            helperVars, lifeVars, budgetVars, networkVars, histVars
<1>0. UNCHANGED <<chainVars, linkVars, listenVars, enqVars, procVars, closeVars, ctxDone,
                  signalled, networkVars, known, handled, lost, blind, budgetVars>>
  BY DEF Helper
<1>n. Nonces \subseteq 0..MaxNonce
  BY DEF Nonces
<1>f. mrQuery \in Counts /\ mrSend \in Counts /\ tgSend \in Counts
  BY DEF ScalarTypes
<1>1. ASSUME NEW n \in Nonces, MRQuery(n) PROVE Typed'
  <2>1. n \in 0..MaxNonce
    BY <1>n
  <2>2. /\ mrQuery' \in Counts /\ mrSend' \in Counts /\ tgSend' \in Counts
        /\ dropped' \subseteq 0..MaxNonce
    BY <1>1, <1>f, <2>1, CountsTyped DEF MRQuery, ScalarTypes
  <2>3. ChannelTypes'
    BY <1>0, <1>1 DEF ChannelTypes, MRQuery
  <2>4. FlagTypes'
    BY <1>0, <1>1 DEF FlagTypes, MRQuery
  <2>5. ScalarTypes'
    BY <1>0, <1>1, <2>2 DEF ScalarTypes, MRQuery, NodeFails, NodeAnswers
  <2>6. Control'
    BY <1>0 DEF Control
  <2> QED BY <2>3, <2>4, <2>5, <2>6
<1>2. ASSUME NEW n \in Nonces, MRSend(n) PROVE Typed'
  <2>1. n \in 0..MaxNonce
    BY <1>n
  <2>2. mrSend' \in Counts
    BY <1>2, <1>f, <2>1, CountsTyped DEF MRSend
  <2>3. requeueQueue' \in Seq(0..MaxNonce) /\ Len(requeueQueue') <= QueueSize
    BY <1>2, <2>1, SendFits DEF ChannelTypes, MRSend
  <2>4. ChannelTypes'
    BY <1>0, <1>2, <2>3 DEF ChannelTypes, MRSend
  <2>5. FlagTypes'
    BY <1>0, <1>2 DEF FlagTypes, MRSend
  <2>6. ScalarTypes'
    BY <1>0, <1>2, <2>2 DEF ScalarTypes, MRSend
  <2>7. Control'
    BY <1>0 DEF Control
  <2> QED BY <2>4, <2>5, <2>6, <2>7
<1>3. CASE TGRecv
  <2>1. 0 \in 0..MaxNonce
    OBVIOUS
  <2>2. tgSend' \in Counts /\ requeueQueue' \in Seq(0..MaxNonce) /\ Len(requeueQueue') <= QueueSize
    BY <1>3, <1>f, <2>1, CountsTyped, ReceiveFits DEF TGRecv, ChannelTypes
  <2>3. ChannelTypes'
    BY <1>0, <1>3, <2>2 DEF ChannelTypes, TGRecv
  <2>4. FlagTypes'
    BY <1>0, <1>3 DEF FlagTypes, TGRecv
  <2>5. ScalarTypes'
    BY <1>0, <1>3, <2>2 DEF ScalarTypes, TGRecv
  <2>6. Control'
    BY <1>0 DEF Control
  <2> QED BY <2>3, <2>4, <2>5, <2>6
<1>4. ASSUME NEW n \in 0..MaxNonce, TGSend(n) PROVE Typed'
  <2>1. tgSend' \in Counts
    BY <1>4, <1>f, CountsTyped DEF TGSend
  <2>2. noncesQueue' \in Seq(0..MaxNonce) /\ Len(noncesQueue') <= QueueSize
    BY <1>4, SendFits DEF ChannelTypes, TGSend
  <2>3. ChannelTypes'
    BY <1>0, <1>4, <2>2 DEF ChannelTypes, TGSend
  <2>4. FlagTypes'
    BY <1>0, <1>4 DEF FlagTypes, TGSend
  <2>5. ScalarTypes'
    BY <1>0, <1>4, <2>1 DEF ScalarTypes, TGSend
  <2>6. Control'
    BY <1>0 DEF Control
  <2> QED BY <2>3, <2>4, <2>5, <2>6
<1> QED BY <1>1, <1>2, <1>3, <1>4 DEF Helper

LEMMA TypeStart == Typed /\ (Cancel \/ CloseQueues \/ Restart) => Typed'
<1> SUFFICES ASSUME Typed, Cancel \/ CloseQueues \/ Restart PROVE Typed'
  OBVIOUS
<1> USE QueueAssumption, ChainAssumption, RetrierAssumption DEF Typed
<1> USE DEF chainVars, linkVars, listenVars, enqVars, procVars, queueVars, closeVars,
            helperVars, lifeVars, budgetVars, networkVars, histVars
<1>1. CASE Cancel
  <2>1. ChannelTypes'
    BY <1>1 DEF ChannelTypes, Cancel
  <2>2. FlagTypes'
    BY <1>1 DEF FlagTypes, Cancel
  <2>3. ScalarTypes'
    BY <1>1 DEF ScalarTypes, Cancel
  <2>4. Control'
    BY <1>1 DEF Control, Cancel
  <2> QED BY <2>1, <2>2, <2>3, <2>4
<1>2. CASE CloseQueues
  <2>1. ChannelTypes'
    BY <1>2 DEF ChannelTypes, CloseQueues
  <2>2. FlagTypes'
    BY <1>2 DEF FlagTypes, CloseQueues
  <2>3. ScalarTypes'
    BY <1>2 DEF ScalarTypes, CloseQueues
  <2>4. Control'
    BY <1>2 DEF Control, CloseQueues
  <2> QED BY <2>1, <2>2, <2>3, <2>4
<1>3. CASE Restart
  <2>1. None \in Counts
    BY DEF None, Counts
  <2>2. /\ <<>> \in Seq(Events) /\ <<>> \in Seq(Nonces) /\ <<>> \in Seq(0..MaxNonce)
        /\ Len(<<>>) = 0
    BY EmptySeq
  <2>3. ChannelTypes'
    BY <1>3, <2>2 DEF ChannelTypes, Restart
  <2>4. FlagTypes'
    BY <1>3 DEF FlagTypes, Restart
  <2>5. ScalarTypes'
    BY <1>3, <2>1 DEF ScalarTypes, Restart
  <2>6. Control'
    BY <1>3 DEF Control, Restart
  <2> QED BY <2>3, <2>4, <2>5, <2>6
<1> QED BY <1>1, <1>2, <1>3

LEMMA TypeStutter == Typed /\ UNCHANGED vars => Typed'
BY DEF Typed, vars, ChannelTypes, FlagTypes, ScalarTypes, Control, chainVars, linkVars,
       listenVars, enqVars, procVars, queueVars, closeVars, helperVars, lifeVars, budgetVars,
       networkVars, histVars

LEMMA TypedInvariant == Spec => []Typed
<1>1. Typed /\ [Next]_vars => Typed'
  BY TypeChain, TypeListener, TypeEnqueuer, TypeProcessor, TypeHelper, TypeStart, TypeStutter
  DEF Next
<1> QED BY <1>1, InitTyped, PTL DEF Spec

\* The state keeps its types, the channels never hold more than their capacity,
\* and no attempt of the Retrier goes beyond the last (orchestrator.go's channels
\* and helpers/retrier.go), for every capacity, window and number of retries.
THEOREM TypeCorrect == Spec => []TypeOK
<1>1. Typed => TypeOK
  BY TypeParts DEF IInv
<1> QED BY <1>1, TypedInvariant, PTL

-----------------------------------------------------------------------------
(* The channels of nonces, as sets.                                        *)

LEMMA QueueSend ==
    ASSUME NEW s \in Seq(0..MaxNonce), NEW e \in 0..MaxNonce
    PROVE  ToSet(Append(s, e)) = ToSet(s) \union {e}
<1> DEFINE S == 0..MaxNonce
<1>1. s \in Seq(S) /\ e \in S
  OBVIOUS
<1> HIDE DEF S
<1> QED BY <1>1, SendAdds

LEMMA QueueReceive ==
    ASSUME NEW s \in Seq(0..MaxNonce), s # <<>>
    PROVE  Head(s) \in 0..MaxNonce /\ ToSet(s) = {Head(s)} \union ToSet(Tail(s))
BY ReceiveTakes

LEMMA EventReceive ==
    ASSUME NEW s \in Seq(Nonces), s # <<>>
    PROVE  /\ Head(s) \in Nonces /\ Head(s) \in 0..MaxNonce
           /\ ToSet(s) = {Head(s)} \union ToSet(Tail(s))
<1>1. Head(s) \in Nonces /\ ToSet(s) = {Head(s)} \union ToSet(Tail(s))
  BY ReceiveTakes
<1> QED BY <1>1 DEF Nonces

\* one helper more that holds m, or one less
LEMMA CountsMove ==
    ASSUME NEW f \in Counts, NEW m \in 0..MaxNonce, NEW n \in 0..MaxNonce
    PROVE  /\ Plus(f, m)[m] > 0 /\ (f[n] > 0 => Plus(f, m)[n] > 0)
           /\ n # m => Plus(f, m)[n] = f[n] /\ Minus(f, m)[n] = f[n]
BY DEF Counts, Plus, Minus

-----------------------------------------------------------------------------
(* No nonce is forgotten.                                                  *)

Accounted(n) == InFlight(n) \/ n \in handled \union dropped

\* the variables InFlight reads, and the two sets it ends in
AccountVars == <<noncesQueue, requeueQueue, ppc, pnonce, mrQuery, mrSend, tgSend, handled, dropped>>

LEMMA AccountUnchanged ==
    ASSUME UNCHANGED AccountVars, NEW n
    PROVE  Accounted(n) => Accounted(n)'
BY DEF AccountVars, Accounted, InFlight, Busy

\* a nonce added to noncesQueue is in flight, and no other is lost
LEMMA AccountSend ==
    ASSUME ChannelTypes, NEW m \in 0..MaxNonce,
           noncesQueue' = Append(noncesQueue, m),
           UNCHANGED <<requeueQueue, ppc, pnonce, mrQuery, mrSend, tgSend, handled, dropped>>
    PROVE  Accounted(m)' /\ \A n : Accounted(n) => Accounted(n)'
<1>1. ToSet(noncesQueue') = ToSet(noncesQueue) \union {m}
  BY QueueSend DEF ChannelTypes
<1> QED BY <1>1 DEF Accounted, InFlight, Busy

LEMMA AccountListener ==
    ASSUME Typed, Listener, NonceAccounting
    PROVE  NonceAccounting'
<1>1. CASE LEnqueue
  <2>1. PICK m \in 0..MaxNonce : m = Head(levent)
    <3>1. levent \in Seq(Nonces) /\ levent # <<>>
      BY <1>1 DEF LEnqueue, Typed, ChannelTypes, Control
    <3> QED BY <3>1, EventReceive
  <2>2. /\ noncesQueue' = Append(noncesQueue, m)
        /\ UNCHANGED <<requeueQueue, ppc, pnonce, mrQuery, mrSend, tgSend, handled, dropped>>
    BY <1>1, <2>1 DEF Listener, LEnqueue, procVars, helperVars
  <2>3. Accounted(m)' /\ \A n : Accounted(n) => Accounted(n)'
    BY <2>2, AccountSend DEF Typed
  <2>4. known' = known \union {m}
    BY <1>1, <2>1 DEF LEnqueue
  <2> QED BY <2>3, <2>4 DEF NonceAccounting, Accounted
<1>2. CASE ~LEnqueue
  <2>1. UNCHANGED AccountVars /\ known' = known
    BY <1>2 DEF Listener, AccountVars, procVars, helperVars
  <2> QED BY <2>1, AccountUnchanged DEF NonceAccounting, Accounted
<1> QED BY <1>1, <1>2

LEMMA AccountEnqueuer ==
    ASSUME Typed, Enqueuer, NonceAccounting
    PROVE  NonceAccounting'
<1>1. CASE ESend
  <2>1. PICK m \in 0..MaxNonce : m = enext
    BY DEF Typed, ScalarTypes
  <2>2. /\ noncesQueue' = Append(noncesQueue, m)
        /\ UNCHANGED <<requeueQueue, ppc, pnonce, mrQuery, mrSend, tgSend, handled, dropped>>
    BY <1>1, <2>1 DEF Enqueuer, ESend, procVars, helperVars
  <2>3. Accounted(m)' /\ \A n : Accounted(n) => Accounted(n)'
    BY <2>2, AccountSend DEF Typed
  <2>4. known' = known \union {m}
    BY <1>1, <2>1 DEF ESend
  <2> QED BY <2>3, <2>4 DEF NonceAccounting, Accounted
<1>2. CASE ~ESend
  <2>1. UNCHANGED AccountVars /\ known' = known
    BY <1>2 DEF Enqueuer, EQuery, EQueryEarliest, EStop, AccountVars, procVars, helperVars
  <2> QED BY <2>1, AccountUnchanged DEF NonceAccounting, Accounted
<1> QED BY <1>1, <1>2

\* the end of an attempt keeps the nonce in hand, requeues it, or handles it
LEMMA AccountOutcome ==
    ASSUME Typed, PDone \/ PError \/ PGiveUp, UNCHANGED <<noncesQueue, requeueQueue, mrSend, tgSend, dropped>>,
           NEW n \in 0..MaxNonce, Accounted(n)
    PROVE  Accounted(n)'
<1>1. CASE PDone
  BY <1>1 DEF PDone, Accounted, InFlight, Busy
<1>2. CASE PGiveUp
  <2>1. mrQuery \in [0..MaxNonce -> Nat] /\ pnonce \in 0..MaxNonce
    BY DEF Typed, ScalarTypes, Counts
  <2>2. mrQuery'[pnonce] > 0 /\ (mrQuery[n] > 0 => mrQuery'[n] > 0)
    BY <1>2, <2>1 DEF PGiveUp, Plus
  <2> QED BY <1>2, <2>2 DEF PGiveUp, Accounted, InFlight, Busy
<1>3. CASE PError /\ ~PGiveUp
  BY <1>3 DEF PError, Accounted, InFlight, Busy
<1> QED BY <1>1, <1>2, <1>3

LEMMA AccountProcessor ==
    ASSUME Typed, Processor, NonceAccounting
    PROVE  NonceAccounting'
<1>0. /\ UNCHANGED <<requeueQueue, mrSend, tgSend, dropped, known>>
      /\ known \subseteq 0..MaxNonce
  BY DEF Processor, Typed, ScalarTypes, queueVars
<1> SUFFICES ASSUME NEW n \in 0..MaxNonce, Accounted(n) PROVE Accounted(n)'
  BY <1>0 DEF NonceAccounting, Accounted
<1>1. CASE PTake
  <2>1. ToSet(noncesQueue) = {pnonce'} \union ToSet(noncesQueue')
    BY <1>1, QueueReceive DEF PTake, Typed, ChannelTypes
  <2> QED BY <1>0, <1>1, <2>1 DEF PTake, Accounted, InFlight, Busy
<1>2. CASE PTick \/ PStop
  BY <1>0, <1>2 DEF PTick, PStop, procVars, Accounted, InFlight, Busy
<1>3. CASE PDone \/ PError \/ PGiveUp
  <2>1. UNCHANGED noncesQueue \/ PTake
    BY DEF Processor, PTick, PStop, PRetry, PQueryAttestation, PQueryPrevious, PSign
  <2> QED BY <1>0, <1>1, <1>3, <2>1, AccountOutcome
<1>4. CASE /\ PRetry \/ PQueryAttestation \/ PQueryPrevious \/ PSign
           /\ ~PDone /\ ~PError /\ ~PGiveUp
  <2>1. /\ Busy /\ Busy' /\ pnonce' = pnonce
        /\ UNCHANGED <<noncesQueue, mrQuery, handled>>
    BY <1>4 DEF PRetry, PQueryAttestation, PQueryPrevious, PSign, Busy
  <2> QED BY <1>0, <2>1 DEF Accounted, InFlight
<1> QED BY <1>1, <1>2, <1>3, <1>4 DEF Processor

LEMMA AccountHelper ==
    ASSUME Typed, Helper, NonceAccounting
    PROVE  NonceAccounting'
<1>0. /\ UNCHANGED <<ppc, pnonce, handled, known>>
      /\ known \subseteq 0..MaxNonce
      /\ mrQuery \in Counts /\ mrSend \in Counts /\ tgSend \in Counts
  BY DEF Helper, Typed, ScalarTypes, procVars
<1> SUFFICES ASSUME NEW n \in 0..MaxNonce, Accounted(n) PROVE Accounted(n)'
  BY <1>0 DEF NonceAccounting, Accounted
<1>1. ASSUME NEW m \in Nonces, MRQuery(m) PROVE Accounted(n)'
  <2>1. m \in 0..MaxNonce
    BY DEF Nonces
  <2>2. CASE n = m
    <3>1. n \in dropped' \/ mrSend'[n] > 0
      BY <1>0, <1>1, <2>1, <2>2, CountsMove DEF MRQuery
    <3> QED BY <3>1 DEF Accounted, InFlight
  <2>3. CASE n # m
    <3>1. mrQuery'[n] = mrQuery[n] /\ mrSend'[n] = mrSend[n] /\ dropped \subseteq dropped'
      BY <1>0, <1>1, <2>1, <2>3, CountsMove DEF MRQuery
    <3> QED BY <1>0, <1>1, <3>1 DEF MRQuery, queueVars, Accounted, InFlight, Busy
  <2> QED BY <2>2, <2>3
<1>2. ASSUME NEW m \in Nonces, MRSend(m) PROVE Accounted(n)'
  <2>1. m \in 0..MaxNonce
    BY DEF Nonces
  <2>2. CASE UNCHANGED <<requeueQueue, mrSend>>
    BY <1>0, <1>2, <2>2 DEF MRSend, Accounted, InFlight, Busy
  <2>3. CASE requeueQueue' = Append(requeueQueue, m) /\ mrSend' = Minus(mrSend, m)
    <3>1. ToSet(requeueQueue') = ToSet(requeueQueue) \union {m}
      BY <2>1, <2>3, QueueSend DEF Typed, ChannelTypes
    <3>2. n = m \/ mrSend'[n] = mrSend[n]
      BY <1>0, <2>1, <2>3, CountsMove
    <3> QED BY <1>0, <1>2, <3>1, <3>2 DEF MRSend, Accounted, InFlight, Busy
  <2> QED BY <1>2, <2>2, <2>3 DEF MRSend
<1>3. CASE TGRecv
  <2>1. CASE requeueQueue # <<>>
    <3>1. /\ ToSet(requeueQueue) = {Head(requeueQueue)} \union ToSet(requeueQueue')
          /\ Head(requeueQueue) \in 0..MaxNonce
      BY <1>3, <2>1, QueueReceive DEF TGRecv, Typed, ChannelTypes
    <3>2. tgSend'[Head(requeueQueue)] > 0 /\ (tgSend[n] > 0 => tgSend'[n] > 0)
      BY <1>0, <1>3, <2>1, <3>1, CountsMove DEF TGRecv
    <3> QED BY <1>0, <1>3, <3>1, <3>2 DEF TGRecv, Accounted, InFlight, Busy
  <2>2. CASE requeueQueue = <<>>
    <3>1. requeueQueue' = requeueQueue /\ (tgSend[n] > 0 => tgSend'[n] > 0)
      BY <1>0, <1>3, <2>2, CountsMove, ChainAssumption DEF TGRecv
    <3> QED BY <1>0, <1>3, <3>1 DEF TGRecv, Accounted, InFlight, Busy
  <2> QED BY <2>1, <2>2
<1>4. ASSUME NEW m \in 0..MaxNonce, TGSend(m) PROVE Accounted(n)'
  <2>1. CASE UNCHANGED <<noncesQueue, tgSend>>
    BY <1>0, <1>4, <2>1 DEF TGSend, Accounted, InFlight, Busy
  <2>2. CASE noncesQueue' = Append(noncesQueue, m) /\ tgSend' = Minus(tgSend, m)
    <3>1. ToSet(noncesQueue') = ToSet(noncesQueue) \union {m}
      BY <2>2, QueueSend DEF Typed, ChannelTypes
    <3>2. n = m \/ tgSend'[n] = tgSend[n]
      BY <1>0, <2>2, CountsMove
    <3> QED BY <1>0, <1>4, <3>1, <3>2 DEF TGSend, Accounted, InFlight, Busy
  <2> QED BY <1>4, <2>1, <2>2 DEF TGSend
<1> QED BY <1>1, <1>2, <1>3, <1>4 DEF Helper

\* No nonce that a goroutine put in the queue is ever forgotten, whatever fails,
\* however the goroutines interleave and however small the channels are
\* (ProcessNonces, MaybeRequeue and the ticker's go statement).
THEOREM NoNonceIsForgotten == Spec => []NonceAccounting
<1>1. Init => NonceAccounting
  BY DEF Init, StartState, NonceAccounting
<1>2. ASSUME Typed, NonceAccounting, [Next]_vars PROVE NonceAccounting'
  <2>1. CASE Chain \/ Cancel \/ CloseQueues \/ UNCHANGED vars
    <3>1. UNCHANGED AccountVars /\ known' = known
      BY <2>1 DEF Chain, NewBlock, Prune, NodeDown, NodeRecovers, Cancel, CloseQueues, vars,
         AccountVars, queueVars, procVars, helperVars, histVars
    <3> QED BY <1>2, <3>1, AccountUnchanged DEF NonceAccounting, Accounted
  <2>2. CASE Listener
    BY <1>2, <2>2, AccountListener
  <2>3. CASE Enqueuer
    BY <1>2, <2>3, AccountEnqueuer
  <2>4. CASE Processor
    BY <1>2, <2>4, AccountProcessor
  <2>5. CASE Helper
    BY <1>2, <2>5, AccountHelper
  <2>6. CASE Restart
    BY <2>6 DEF Restart, NonceAccounting
  <2> QED BY <1>2, <2>1, <2>2, <2>3, <2>4, <2>5, <2>6 DEF Next
<1> QED BY <1>1, <1>2, TypedInvariant, PTL DEF Spec

-----------------------------------------------------------------------------
(* A nonce is handled only when its confirm is in the network or not due.   *)

\* what PQueryPrevious has found for the nonce that is about to be signed
DueWhenSigned == ppc = "sign" => pnonce \in blind \/ PreviousValset(pnonce) \in MemberOf

ConfirmInv == HandledMeansConfirmed /\ ConfirmsAreDue /\ DueWhenSigned

ConfirmVars == <<latest, ppc, pnonce, confirms, handled, blind>>

LEMMA ConfirmUnchanged ==
    ASSUME ConfirmInv, UNCHANGED ConfirmVars
    PROVE  ConfirmInv'
BY DEF ConfirmInv, ConfirmVars, HandledMeansConfirmed, ConfirmsAreDue, DueWhenSigned

LEMMA ConfirmProcessor ==
    ASSUME Typed, Processor, ConfirmInv
    PROVE  ConfirmInv'
<1> USE DEF ConfirmInv
<1>0. latest' = latest /\ latest \in Nat /\ pnonce \in Nat
  BY DEF Processor, chainVars, Typed, ScalarTypes
<1>1. CASE PTake \/ PTick \/ PStop
  BY <1>0, <1>1 DEF PTake, PTick, PStop, networkVars, procVars, HandledMeansConfirmed,
     ConfirmsAreDue, DueWhenSigned
<1>2. CASE PRetry
  BY <1>0, <1>2 DEF PRetry, PGiveUp, networkVars, HandledMeansConfirmed, ConfirmsAreDue, DueWhenSigned
<1>3. CASE PQueryAttestation
  <2>1. confirms' = confirms /\ blind' = blind
        /\ (handled' = handled \/ (pnonce = 1 /\ handled' = handled \union {1}))
        /\ ppc' \in {"previous", "select", "retry"}
    BY <1>3 DEF PQueryAttestation, PDone, PError, PGiveUp, networkVars
  <2> QED BY <1>0, <2>1 DEF HandledMeansConfirmed, ConfirmsAreDue, DueWhenSigned
<1>4. CASE PQueryPrevious
  <2>1. CASE ppc' = "sign"
    <3>1. /\ confirms' = confirms /\ handled' = handled /\ pnonce' = pnonce
          /\ \/ blind' = blind \union {pnonce}
             \/ blind' = blind /\ PreviousValset(pnonce) \in MemberOf
      BY <1>4, <2>1 DEF PQueryPrevious, PDone, PartOfValset
    <3> QED BY <1>0, <3>1 DEF HandledMeansConfirmed, ConfirmsAreDue, DueWhenSigned
  <2>2. CASE ppc' # "sign"
    <3>1. /\ confirms' = confirms /\ blind' = blind /\ PreviousValset(pnonce) \notin MemberOf
          /\ handled' = handled \union {pnonce}
      BY <1>4, <2>2 DEF PQueryPrevious, PDone, PartOfValset
    <3> QED BY <1>0, <2>2, <3>1 DEF HandledMeansConfirmed, ConfirmsAreDue, DueWhenSigned
  <2> QED BY <2>1, <2>2
<1>5. CASE PSign
  <2>1. /\ pnonce \in 2..latest /\ (pnonce \in blind \/ PreviousValset(pnonce) \in MemberOf)
        /\ blind' = blind /\ ppc' \in {"select", "retry"}
    BY <1>5 DEF PSign, PDone, PError, PGiveUp, Typed, Control, DueWhenSigned
  <2>2. /\ confirms' \in {confirms, confirms \union {pnonce}}
        /\ handled' = handled \/ (handled' = handled \union {pnonce} /\ pnonce \in confirms')
    BY <1>5 DEF PSign, PDone, PError, PGiveUp
  <2>3. HandledMeansConfirmed'
    BY <2>2 DEF HandledMeansConfirmed
  <2>4. ConfirmsAreDue' /\ DueWhenSigned'
    BY <1>0, <2>1, <2>2 DEF ConfirmsAreDue, DueWhenSigned
  <2> QED BY <2>3, <2>4
<1> QED BY <1>1, <1>2, <1>3, <1>4, <1>5 DEF Processor

LEMMA ConfirmInvariant == Spec => []ConfirmInv
<1>1. Init => ConfirmInv
  BY DEF Init, StartState, ConfirmInv, HandledMeansConfirmed, ConfirmsAreDue, DueWhenSigned
<1>2. ASSUME Typed, ConfirmInv, [Next]_vars PROVE ConfirmInv'
  <2>1. CASE NewBlock
    <3>1. latest \in Nat /\ latest' \in Nat /\ latest <= latest'
          /\ UNCHANGED <<ppc, pnonce, confirms, handled, blind>>
      BY <1>2, <2>1 DEF NewBlock, Typed, ScalarTypes, procVars, networkVars
    <3> QED BY <1>2, <3>1 DEF ConfirmInv, HandledMeansConfirmed, ConfirmsAreDue, DueWhenSigned
  <2>2. CASE Prune \/ NodeDown \/ NodeRecovers \/ Cancel \/ CloseQueues \/ UNCHANGED vars
    <3>1. UNCHANGED ConfirmVars
      BY <2>2 DEF Prune, NodeDown, NodeRecovers, Cancel, CloseQueues, vars, ConfirmVars,
         chainVars, procVars, networkVars, histVars
    <3> QED BY <1>2, <3>1, ConfirmUnchanged
  <2>3. CASE Listener \/ Enqueuer \/ Helper
    <3>1. UNCHANGED ConfirmVars
      BY <2>3 DEF Listener, Enqueuer, Helper, ConfirmVars, chainVars, procVars, networkVars
    <3> QED BY <1>2, <3>1, ConfirmUnchanged
  <2>4. CASE Processor
    BY <1>2, <2>4, ConfirmProcessor
  <2>5. CASE Restart
    BY <1>2, <2>5 DEF Restart, chainVars, networkVars, ConfirmInv, HandledMeansConfirmed,
       ConfirmsAreDue, DueWhenSigned
  <2> QED BY <1>2, <2>1, <2>2, <2>3, <2>4, <2>5 DEF Next, Chain
<1> QED BY <1>1, <1>2, TypedInvariant, PTL DEF Spec

\* Process returns nil only for a nonce whose confirm the network holds, or for
\* which none is due, whatever the number of attempts and the calls that fail.
THEOREM HandledIsConfirmed == Spec => []HandledMeansConfirmed
BY ConfirmInvariant, PTL DEF ConfirmInv

\* The orchestrator puts a confirm only for an attestation of the chain whose
\* previous validator set contains it, unless it could not see that set.
THEOREM OnlyDueConfirms == Spec => []ConfirmsAreDue
BY ConfirmInvariant, PTL DEF ConfirmInv

-----------------------------------------------------------------------------
(* A send on a closed channel panics only once Start is through.            *)

AllDone == ctxDone /\ lpc = "done" /\ epc = "done" /\ ppc = "done"

\* the channels are closed last, and the processor stops only when cancelled
StopInv ==
    /\ ppc = "done" => ctxDone
    /\ noncesClosed \/ requeueClosed \/ panicked => AllDone

StopVars == <<ctxDone, lpc, epc, ppc, noncesClosed, requeueClosed, panicked>>

LEMMA StopInvariant == Spec => []StopInv
<1> USE DEF StopInv, AllDone
<1>1. Init => StopInv
  BY DEF Init, StartState
<1>2. ASSUME StopInv, [Next]_vars PROVE StopInv'
  <2>1. CASE Chain \/ UNCHANGED vars
    <3>1. UNCHANGED StopVars
      BY <2>1 DEF Chain, NewBlock, Prune, NodeDown, NodeRecovers, vars, StopVars, listenVars,
         enqVars, procVars, closeVars, lifeVars
    <3> QED BY <1>2, <3>1 DEF StopVars
  <2>2. CASE Listener
    <3>1. UNCHANGED <<ctxDone, epc, ppc, noncesClosed, requeueClosed, panicked>> /\ lpc # "done"
      BY <2>2 DEF Listener, LSubscribe, LStop, LHealthTick, LRedial, LResubscribe, LReceive,
         LEnqueue, enqVars, procVars, closeVars, lifeVars
    <3> QED BY <1>2, <3>1
  <2>3. CASE Enqueuer
    <3>1. UNCHANGED <<ctxDone, lpc, ppc, noncesClosed, requeueClosed, panicked>> /\ epc # "done"
      BY <2>3 DEF Enqueuer, EQuery, EQueryEarliest, ESend, EStop, listenVars, procVars, closeVars, lifeVars
    <3> QED BY <1>2, <3>1
  <2>4. CASE Processor
    <3>1. UNCHANGED <<ctxDone, lpc, epc, noncesClosed, requeueClosed, panicked>> /\ ppc # "done"
      BY <2>4 DEF Processor, PTake, PTick, PStop, PRetry, PQueryAttestation, PQueryPrevious,
         PSign, listenVars, enqVars, closeVars
    <3>2. ppc' = "done" => ctxDone
      BY <2>4 DEF Processor, PTake, PTick, PStop, PRetry, PQueryAttestation, PQueryPrevious,
         PSign, PDone, PError, PGiveUp, procVars
    <3> QED BY <1>2, <3>1, <3>2
  <2>5. CASE Helper
    <3>1. /\ UNCHANGED <<ctxDone, lpc, epc, ppc, noncesClosed, requeueClosed>>
          /\ panicked' = panicked \/ noncesClosed \/ requeueClosed
      BY <2>5 DEF Helper, MRQuery, MRSend, TGRecv, TGSend, listenVars, enqVars, procVars, closeVars
    <3> QED BY <1>2, <3>1
  <2>6. CASE Cancel
    BY <1>2, <2>6 DEF Cancel, listenVars, enqVars, procVars, closeVars
  <2>7. CASE CloseQueues
    BY <1>2, <2>7 DEF CloseQueues, WgWait, listenVars, enqVars, procVars, lifeVars
  <2>8. CASE Restart
    BY <2>8 DEF Restart
  <2> QED BY <1>2, <2>1, <2>2, <2>3, <2>4, <2>5, <2>6, <2>7, <2>8 DEF Next
<1> QED BY <1>1, <1>2, PTL DEF Spec

\* A helper goroutine that nothing waits for can bring the process down (a send
\* on a closed channel) only after a cancelled Start has seen its goroutines end.
THEOREM OnlyAStoppedProcessPanics == Spec => []NoPanicWhileServing
<1>1. StopInv => NoPanicWhileServing
  BY DEF StopInv, AllDone, NoPanicWhileServing
<1> QED BY <1>1, StopInvariant, PTL

-----------------------------------------------------------------------------
(* What the listener and the enqueuer can lose.                             *)

Delivered(rs) == UNION {ToSet(rs[i]) : i \in 1..Len(rs)}

LEMMA DeliveredSend ==
    ASSUME NEW rs \in Seq(Events), NEW e \in Events, NEW n,
           n \in Delivered(rs) \/ n \in ToSet(e)
    PROVE  n \in Delivered(Append(rs, e))
<1>1. /\ Len(Append(rs, e)) = Len(rs) + 1 /\ Len(rs) \in Nat
      /\ \A i \in 1..Len(rs) : Append(rs, e)[i] = rs[i]
      /\ Append(rs, e)[Len(rs) + 1] = e
  BY AppendProperties, LenProperties
<1>2. \E i \in 1..Len(Append(rs, e)) : n \in ToSet(Append(rs, e)[i])
  <2>1. CASE n \in ToSet(e)
    BY <1>1, <2>1
  <2>2. CASE n \in Delivered(rs)
    <3>1. PICK i \in 1..Len(rs) : n \in ToSet(rs[i])
      BY <2>2 DEF Delivered
    <3>2. i \in 1..Len(Append(rs, e)) /\ Append(rs, e)[i] = rs[i]
      BY <1>1, <3>1
    <3> QED BY <3>1, <3>2
  <2> QED BY <2>1, <2>2
<1> QED BY <1>2 DEF Delivered

LEMMA DeliveredReceive ==
    ASSUME NEW rs \in Seq(Events), rs # <<>>, NEW n \in Delivered(rs)
    PROVE  n \in ToSet(Head(rs)) \/ n \in Delivered(Tail(rs))
<1>1. /\ Len(Tail(rs)) = Len(rs) - 1 /\ Len(rs) \in Nat \ {0} /\ Head(rs) = rs[1]
      /\ \A i \in 1..Len(Tail(rs)) : Tail(rs)[i] = rs[i + 1]
  BY HeadTailProperties, EmptySeq
<1>2. PICK i \in 1..Len(rs) : n \in ToSet(rs[i])
  BY DEF Delivered
<1>3. CASE i = 1
  BY <1>1, <1>2, <1>3
<1>4. CASE i # 1
  <2>1. i - 1 \in 1..Len(Tail(rs)) /\ Tail(rs)[i - 1] = rs[i]
    BY <1>1, <1>4
  <2> QED BY <1>2, <2>1 DEF Delivered
<1> QED BY <1>3, <1>4

\* the listener holds an event only while it enqueues it
EmptyHanded == lpc # "enqueue" => levent = <<>>

LossInv == EmptyHanded /\ NothingElseIsLost

Covered == known \union EnqueuerWill \union InEvents \union lost

LossVars == <<latest, earliest, results, levent, epc, enext, elow, known, lost, ctxDone, signalled>>

LEMMA LossUnchanged ==
    ASSUME NothingElseIsLost, UNCHANGED LossVars
    PROVE  NothingElseIsLost'
BY DEF NothingElseIsLost, LossVars, EnqueuerWill, InEvents, Stopping

LEMMA LossChain ==
    ASSUME Typed, Chain, LossInv
    PROVE  NothingElseIsLost'
<1>1. CASE NewBlock
  <2>1. PICK k \in {1, 2} :
          /\ latest + k <= MaxNonce /\ latest' = latest + k
          /\ results' = IF NoOneIsTold THEN results
                        ELSE Append(results, [i \in 1..k |-> latest + i])
          /\ lost' = IF NoOneIsTold /\ EnqueuerHasRead
                     THEN lost \union (latest + 1 .. latest + k) ELSE lost
    BY <1>1 DEF NewBlock
  <2>2. UNCHANGED <<earliest, levent, epc, enext, elow, known, ctxDone, signalled>>
    BY <1>1 DEF NewBlock, listenVars, enqVars, lifeVars
  <2>3. /\ latest \in Nat /\ earliest \in Nat \ {0} /\ results \in Seq(Events)
        /\ epc \in {"query", "earliest", "send", "done"}
    BY DEF Typed, ScalarTypes, ChannelTypes
  <2> DEFINE event == [i \in 1..k |-> latest + i]
  <2>4. event \in Events
    BY <2>1, <2>3, EventTyped
  <2>5. \A n \in latest + 1 .. latest + k : n \in ToSet(event)
    <3> SUFFICES ASSUME NEW n \in latest + 1 .. latest + k PROVE n \in ToSet(event)
      OBVIOUS
    <3>1. n - latest \in 1..k /\ event[n - latest] = n
      BY <2>3
    <3> QED BY <3>1 DEF ToSet
  <2> HIDE DEF event
  <2>6. InEvents \subseteq InEvents'
    BY <2>1, <2>2, <2>3, <2>4, DeliveredSend DEF InEvents, Delivered, event
  <2>7. EnqueuerWill \subseteq EnqueuerWill' /\ lost \subseteq lost'
    BY <2>1, <2>2, <2>3 DEF EnqueuerWill
  <2>8. \A n \in latest + 1 .. latest + k : n \in EnqueuerWill' \/ n \in InEvents' \/ n \in lost'
    <3> SUFFICES ASSUME NEW n \in latest + 1 .. latest + k
                 PROVE n \in EnqueuerWill' \/ n \in InEvents' \/ n \in lost'
      OBVIOUS
    <3>1. CASE ~NoOneIsTold
      <4>1. n \in Delivered(results')
        BY <2>1, <2>3, <2>4, <2>5, <3>1, DeliveredSend DEF event
      <4> QED BY <4>1 DEF InEvents, Delivered
    <3>2. CASE epc = "query"
      BY <2>1, <2>2, <2>3, <3>2 DEF EnqueuerWill
    <3>3. CASE NoOneIsTold /\ epc # "query"
      BY <2>1, <3>3 DEF EnqueuerHasRead
    <3> QED BY <3>1, <3>2, <3>3
  <2>9. \A n \in earliest..latest' : n \in earliest..latest \/ n \in latest + 1 .. latest + k
    BY <2>1, <2>3
  <2> QED BY <2>2, <2>6, <2>7, <2>8, <2>9 DEF LossInv, NothingElseIsLost, Stopping
<1>2. CASE Prune
  <2>1. /\ earliest' = earliest + 1 /\ earliest \in Nat /\ latest \in Nat
        /\ UNCHANGED <<latest, results, levent, epc, enext, elow, known, lost, ctxDone, signalled>>
    BY <1>2 DEF Prune, linkVars, listenVars, enqVars, histVars, lifeVars, Typed, ScalarTypes
  <2>2. (earliest..latest)' \subseteq earliest..latest
    BY <2>1
  <2>3. EnqueuerWill' = EnqueuerWill /\ InEvents' = InEvents /\ Stopping' = Stopping
    BY <2>1 DEF EnqueuerWill, InEvents, Stopping
  <2> QED BY <2>1, <2>2, <2>3 DEF LossInv, NothingElseIsLost
<1>3. CASE NodeDown \/ NodeRecovers
  <2>1. UNCHANGED LossVars
    BY <1>3 DEF NodeDown, NodeRecovers, LossVars, chainVars, listenVars, enqVars, histVars, lifeVars
  <2> QED BY <2>1, LossUnchanged DEF LossInv
<1> QED BY <1>1, <1>2, <1>3 DEF Chain

LEMMA LossListener ==
    ASSUME Typed, Listener, LossInv
    PROVE  NothingElseIsLost'
<1>0. UNCHANGED <<latest, earliest, epc, enext, elow, ctxDone, signalled>>
  BY DEF Listener, chainVars, enqVars, lifeVars
<1>1. EnqueuerWill' = EnqueuerWill /\ Stopping' = Stopping
  BY <1>0 DEF EnqueuerWill, Stopping
<1>s. ASSUME InEvents \subseteq known' \union EnqueuerWill \union InEvents' \union lost',
             known \subseteq known', lost \subseteq lost'
      PROVE  NothingElseIsLost'
  BY <1>0, <1>1, <1>s DEF LossInv, NothingElseIsLost
<1>k. LEnqueue \/ known' = known
  BY DEF Listener
<1>2. CASE LoseResults /\ ~LEnqueue
  BY <1>2, <1>k, <1>s DEF LoseResults
<1>3. CASE UNCHANGED <<results, levent, lost>> /\ ~LEnqueue
  BY <1>3, <1>k, <1>s DEF InEvents
<1>4. CASE LReceive
  <2>1. /\ results \in Seq(Events) /\ results # <<>> /\ levent = <<>>
        /\ levent' = Head(results) /\ results' = Tail(results) /\ lost' = lost /\ known' = known
    BY <1>4, <1>k DEF LReceive, LEnqueue, LossInv, EmptyHanded, Typed, ChannelTypes
  <2>2. ToSet(levent) = {}
    BY <2>1 DEF ToSet
  <2>3. InEvents \subseteq InEvents'
    BY <2>1, <2>2, DeliveredReceive DEF InEvents, Delivered
  <2> QED BY <1>s, <2>1, <2>3
<1>5. CASE LEnqueue
  <2>1. /\ levent \in Seq(Nonces) /\ levent # <<>> /\ levent' = Tail(levent)
        /\ results' = results /\ lost' = lost /\ known' = known \union {Head(levent)}
    BY <1>5 DEF LEnqueue, linkVars, Typed, ChannelTypes, Control
  <2>2. ToSet(levent) = {Head(levent)} \union ToSet(levent')
    BY <2>1, EventReceive
  <2> QED BY <1>s, <2>1, <2>2 DEF InEvents
<1>6. LoseResults \/ UNCHANGED <<results, levent, lost>> \/ LReceive \/ LEnqueue
  BY DEF Listener, LSubscribe, LStop, LHealthTick, LRedial, LResubscribe, LAttemptFails, linkVars
<1> QED BY <1>2, <1>3, <1>4, <1>5, <1>6

LEMMA LossEnqueuer ==
    ASSUME Typed, Enqueuer, LossInv
    PROVE  NothingElseIsLost'
<1>0. UNCHANGED <<latest, earliest, results, levent, ctxDone, signalled>>
  BY DEF Enqueuer, chainVars, linkVars, listenVars, lifeVars
<1>1. InEvents' = InEvents /\ Stopping' = Stopping
  BY <1>0 DEF InEvents, Stopping
<1>2. CASE EGiveUp /\ known' = known
  BY <1>0, <1>1, <1>2 DEF EGiveUp, NothingElseIsLost
<1>3. CASE (EQuery \/ EQueryEarliest) /\ ~EGiveUp
  <2>1. earliest..latest \intersect EnqueuerWill \subseteq EnqueuerWill'
    BY <1>0, <1>3 DEF EQuery, EQueryEarliest, EnqueuerWill, Typed, ScalarTypes
  <2>2. known' = known /\ lost' = lost
    BY <1>3 DEF EQuery, EQueryEarliest
  <2> QED BY <1>0, <1>1, <2>1, <2>2 DEF LossInv, NothingElseIsLost
<1>4. CASE ESend
  <2>1. /\ elow \in Nat /\ enext \in Nat /\ epc = "send" /\ elow' = elow /\ enext' = enext - 1
        /\ epc' = (IF enext = elow THEN "done" ELSE "send")
        /\ known' = known \union {enext} /\ lost' = lost
    BY <1>4 DEF ESend, LastMissing, Typed, ScalarTypes
  <2>2. \A n \in EnqueuerWill : n = enext \/ n \in EnqueuerWill'
    BY <2>1 DEF EnqueuerWill
  <2> QED BY <1>0, <1>1, <2>1, <2>2 DEF LossInv, NothingElseIsLost
<1> QED BY <1>2, <1>3, <1>4 DEF Enqueuer, EQuery, EQueryEarliest, EStop

\* Only four steps lose an attestation: a block whose event nobody receives once
\* the enqueuer has read the chain, a subscription that is given up or replaced,
\* and an enqueuer that gives up.  The queues, the sends and the loops of
\* StartNewEventsListener and EnqueueMissingEvents lose none.
THEOREM OnlyTheseAreLost == Spec => []NothingElseIsLost
<1>1. Init => LossInv
  <2> SUFFICES ASSUME Init PROVE LossInv
    OBVIOUS
  <2>1. EnqueuerWill = 1..latest /\ earliest = 1 /\ levent = <<>>
    BY DEF Init, StartState, EnqueuerWill
  <2> QED BY <2>1 DEF LossInv, EmptyHanded, NothingElseIsLost
<1>2. ASSUME Typed, LossInv, [Next]_vars PROVE LossInv'
  <2>1. CASE Chain
    <3>1. EmptyHanded'
      BY <1>2, <2>1 DEF LossInv, EmptyHanded, Chain, NewBlock, Prune, NodeDown, NodeRecovers, listenVars
    <3> QED BY <1>2, <2>1, <3>1, LossChain DEF LossInv
  <2>2. CASE Listener
    <3>1. EmptyHanded'
      <4>1. CASE LStop \/ LReceive \/ LEnqueue
        BY <4>1 DEF EmptyHanded, LStop, LReceive, LEnqueue
      <4>2. CASE LSubscribe \/ LHealthTick \/ LRedial \/ LResubscribe
        <5>1. levent' = levent /\ lpc # "enqueue"
          BY <4>2 DEF LSubscribe, LHealthTick, LRedial, LResubscribe
        <5> QED BY <1>2, <5>1 DEF LossInv, EmptyHanded
      <4> QED BY <2>2, <4>1, <4>2 DEF Listener
    <3> QED BY <1>2, <2>2, <3>1, LossListener DEF LossInv
  <2>3. CASE Enqueuer
    <3>1. EmptyHanded'
      BY <1>2, <2>3 DEF LossInv, EmptyHanded, Enqueuer, listenVars
    <3> QED BY <1>2, <2>3, <3>1, LossEnqueuer DEF LossInv
  <2>4. CASE Processor \/ Helper \/ Cancel \/ CloseQueues \/ UNCHANGED vars
    <3>1. UNCHANGED <<latest, earliest, results, levent, lpc, epc, enext, elow, known, lost>>
      BY <2>4 DEF Processor, Helper, Cancel, CloseQueues, vars, chainVars, linkVars, listenVars,
         enqVars, histVars
    <3>2. Stopping => Stopping'
      BY <2>4 DEF Processor, Helper, Cancel, CloseQueues, vars, lifeVars, PTake, PTick, PStop, PRetry,
         PQueryAttestation, PQueryPrevious, PSign, Stopping
    <3> QED BY <1>2, <3>1, <3>2 DEF LossInv, EmptyHanded, NothingElseIsLost, EnqueuerWill, InEvents
  <2>5. CASE Restart
    <3>1. EnqueuerWill' = 1..latest /\ UNCHANGED <<latest, earliest>> /\ levent' = <<>>
      BY <2>5 DEF Restart, EnqueuerWill, chainVars
    <3>2. earliest..latest \subseteq 1..latest
      BY <1>2 DEF Typed, ScalarTypes
    <3> QED BY <3>1, <3>2 DEF LossInv, EmptyHanded, NothingElseIsLost
  <2> QED BY <1>2, <2>1, <2>2, <2>3, <2>4, <2>5 DEF Next
<1>3. LossInv => NothingElseIsLost
  BY DEF LossInv
<1> QED BY <1>1, <1>2, <1>3, TypedInvariant, PTL DEF Spec
=============================================================================
