---------------------------- MODULE Orchestrator ----------------------------
(***************************************************************************)
(* One orchestrator process (orchestrator/orchestrator.go).                *)
(*                                                                         *)
(* Start runs three goroutines around a bounded channel of nonces:         *)
(*   listener   StartNewEventsListener: new attestations, as events of the *)
(*              node's websocket, watched by a health ticker;              *)
(*   enqueuer   EnqueueMissingEvents: the attestations that existed before;*)
(*   processor  ProcessNonces: takes a nonce, signs the attestation and    *)
(*              puts the confirm in the P2P network, retries, gives up.    *)
(* A nonce given up goes to a second bounded channel through a helper      *)
(* goroutine (MaybeRequeue), and an hourly tick moves it back through      *)
(* another.  Cancelling the context stops the three goroutines; Start then *)
(* closes both channels, whatever the helpers are still doing.             *)
(***************************************************************************)
EXTENDS Integers, Sequences, SequencesExt, FiniteSetsExt

CONSTANTS
    QueueSize,      \* capacity of both channels (queueSize, 1000)
    RequeueWindow,  \* nonces this far behind the latest are not retried (50)
    Retries,        \* the Retrier's retriesNumber (5)
    ResultsCap,     \* capacity of the websocket client's event channel (external)
    Valsets,        \* the nonces whose attestation is a validator set
    MemberOf,       \* the validator sets that contain this orchestrator
    KeptNonces,     \* how many of the latest attestations the chain keeps (external)
    MaxNonce,       \* bound: attestations the chain creates
    MaxAtStart,     \* bound: attestations that exist at the first start
    MaxFailures,    \* bound: calls that fail although the node is up
    MaxOutages,     \* bound: times the node goes down
    MaxStops,       \* bound: times the operator stops the process (0 or 1)
    MaxRestarts,    \* bound: times the process is started again
    MaxHelpers      \* bound: ticker helpers waiting for a failed nonce

Nonces == 1..MaxNonce

ASSUME QueueAssumption == QueueSize \in Nat \ {0} /\ ResultsCap \in Nat \ {0}
ASSUME RetrierAssumption == Retries \in Nat \ {0} /\ RequeueWindow \in Nat
ASSUME ChainAssumption ==
    /\ MaxNonce \in Nat /\ MaxAtStart \in 0..MaxNonce /\ KeptNonces \in Nat
    /\ KeptNonces > RequeueWindow \* three weeks of attestations are more than 50
    /\ 1 \in Valsets /\ Valsets \subseteq Nat /\ MemberOf \subseteq Valsets
ASSUME BoundAssumption ==
    /\ MaxFailures \in Nat /\ MaxOutages \in Nat
    /\ MaxStops \in 0..1 /\ MaxRestarts \in Nat /\ MaxHelpers \in Nat \ {0}

VARIABLES
    \* the chain, seen through its queries
    latest,         \* latest attestation nonce
    earliest,       \* earliest attestation nonce that is not pruned
    \* the websocket connection and the subscription "attestation-changes"
    nodeUp, subscribed,
    results,        \* delivered events, each the sequence of its new nonces
    \* StartNewEventsListener
    lpc, levent, ltries,
    \* EnqueueMissingEvents: the loop sends enext, enext - 1, ..., elow
    epc, enext, elow,
    \* ProcessNonces
    ppc, pnonce, ptries,
    \* the two channels of Start, and whether Start has closed them
    noncesQueue, requeueQueue, noncesClosed, requeueClosed,
    \* helper goroutines, counted by the nonce they hold:
    mrQuery, mrSend,  \* MaybeRequeue before its query, and at its send
    tgRecv, tgSend,   \* the ticker's helper at its receive, and at its send
    \* the process
    ctxDone, signalled, panicked,
    \* the P2P network: confirms of this orchestrator it holds, and the nonce of
    \* the latest validator set it has been given
    confirms, offered,
    \* history: blind of all time, the others of this run of the process
    known,          \* nonces a goroutine has put in noncesQueue
    handled,        \* nonces for which Process returned nil
    dropped,        \* nonces MaybeRequeue has discarded
    lost,           \* nonces whose event nobody received
    blind,          \* nonces signed without seeing the previous validator set
    \* spent budgets
    failures, outages, restarts

chainVars   == <<latest, earliest>>
linkVars    == <<nodeUp, subscribed, results>>
listenVars  == <<lpc, levent, ltries>>
enqVars     == <<epc, enext, elow>>
procVars    == <<ppc, pnonce, ptries>>
queueVars   == <<noncesQueue, requeueQueue>>
closeVars   == <<noncesClosed, requeueClosed>>
helperVars  == <<mrQuery, mrSend, tgRecv, tgSend>>
lifeVars    == <<ctxDone, signalled, panicked>>
budgetVars  == <<outages, restarts>>
networkVars == <<confirms, offered>>
histVars    == <<known, handled, dropped, lost, blind>>
vars == <<chainVars, linkVars, listenVars, enqVars, procVars, queueVars, closeVars,
          helperVars, lifeVars, networkVars, histVars, failures, budgetVars>>

-----------------------------------------------------------------------------
(* What every action shares.                                               *)

\* a call to the node: it answers, or it returns an error, as it does once the
\* context is cancelled
NodeAnswers == nodeUp /\ ~ctxDone /\ UNCHANGED failures
NodeFails ==
    /\ ctxDone \/ ~nodeUp \/ failures < MaxFailures
    /\ failures' = IF ctxDone \/ ~nodeUp THEN failures ELSE failures + 1

\* a local step or a call to the P2P network that returns an error
CallFails ==
    /\ ctxDone \/ failures < MaxFailures
    /\ failures' = IF ctxDone THEN failures ELSE failures + 1

Stopping == ctxDone \/ signalled

\* (a definition named X_Y is a faulty variant of X, used to test a property)
Room_OffByOne(queue) == Len(queue) <= QueueSize
Room(queue) == Len(queue) < QueueSize

Exists(n) == n \in earliest..latest

\* the validator set that has to sign attestation n, n > 1
PreviousValset(n) == Max({v \in Valsets : v < n})

None == [n \in 0..MaxNonce |-> 0]
Plus(f, n) == [f EXCEPT ![n] = @ + 1]
Minus(f, n) == [f EXCEPT ![n] = @ - 1]

-----------------------------------------------------------------------------
(* The chain and the node (external).                                      *)

NoOneIsTold == ~subscribed \/ Len(results) >= ResultsCap
EnqueuerHasRead == epc # "query"

\* A block commits one attestation, or a validator set and a data commitment.
\* Its event reaches the subscription, if there is one and its channel has room;
\* an enqueuer that has still to query the latest nonce will find them too.
NewBlock ==
    /\ \E k \in {1, 2} :
         /\ latest + k <= MaxNonce
         /\ latest' = latest + k
         /\ results' = IF NoOneIsTold THEN results
                       ELSE Append(results, [i \in 1..k |-> latest + i])
         /\ lost' = IF NoOneIsTold /\ EnqueuerHasRead
                    THEN lost \union (latest + 1 .. latest + k) ELSE lost
    /\ UNCHANGED <<earliest, nodeUp, subscribed, listenVars, enqVars, procVars, queueVars,
                   closeVars, helperVars, lifeVars, networkVars, known, handled, dropped, blind,
                   failures, budgetVars>>

\* The chain forgets its oldest attestation, weeks after it was committed: what
\* the enqueuer's first query called the latest is still there at its second.
Prune ==
    /\ earliest + KeptNonces <= latest
    /\ epc = "earliest" => earliest < enext
    /\ earliest' = earliest + 1
    /\ UNCHANGED <<latest, linkVars, listenVars, enqVars, procVars, queueVars, closeVars,
                   helperVars, lifeVars, networkVars, histVars, failures, budgetVars>>

\* The node goes down; the client is not told and the subscription is gone.
NodeDown ==
    /\ nodeUp /\ outages < MaxOutages
    /\ nodeUp' = FALSE /\ subscribed' = FALSE /\ outages' = outages + 1
    /\ UNCHANGED <<chainVars, results, listenVars, enqVars, procVars, queueVars, closeVars,
                   helperVars, lifeVars, networkVars, histVars, failures, restarts>>

\* The node is back; the websocket client may or may not have subscribed again.
NodeRecovers ==
    /\ ~nodeUp
    /\ nodeUp' = TRUE
    /\ \E again \in BOOLEAN : subscribed' = (again /\ lpc \in {"listen", "enqueue"})
    /\ UNCHANGED <<chainVars, results, listenVars, enqVars, procVars, queueVars,
                   closeVars, helperVars, lifeVars, networkVars, histVars, failures, budgetVars>>

-----------------------------------------------------------------------------
(* StartNewEventsListener.                                                 *)

\* the nonces in the events that the listener has still to pass on
InEvents == ToSet(levent) \union UNION {ToSet(results[i]) : i \in 1..Len(results)}

\* the nonces EnqueueMissingEvents has still to enqueue
EnqueuerWill ==
    CASE epc = "query" -> 1..latest
      [] epc = "earliest" -> 1..enext
      [] epc = "send"  -> elow..enext
      [] epc = "done"  -> {}

\* giving up the subscription's channel loses the events that wait in it
LoseResults ==
    /\ results' = <<>>
    /\ lost' = lost \union (InEvents \ (known \union EnqueuerWill))

\* The subscription.  "This doesn't seem to complain when the node is down."
LSubscribe ==
    /\ lpc = "subscribe"
    /\ \/ lpc' = "listen" /\ subscribed' = nodeUp /\ UNCHANGED failures
       \/ CallFails /\ lpc' = "done" /\ UNCHANGED subscribed
    /\ UNCHANGED <<nodeUp, results, levent, ltries, lost>>

\* signalChan, or the context: the deferred call removes the subscription
LStop ==
    /\ \/ lpc \in {"listen", "enqueue"} /\ Stopping
       \/ lpc \in {"redial", "resubscribe"} /\ ctxDone
    /\ lpc' = "done" /\ subscribed' = FALSE /\ levent' = <<>>
    /\ LoseResults
    /\ UNCHANGED <<nodeUp, ltries, failures>>

\* the 30 s health ticker finds that the node does not answer
LHealthTick ==
    /\ lpc = "listen"
    /\ NodeFails
    /\ lpc' = "redial"
    /\ UNCHANGED <<linkVars, levent, ltries, lost>>

\* a failed attempt of the Retrier: the next one, or the end of the listener
LAttemptFails ==
    /\ IF ltries + 1 < Retries
       THEN lpc' = "redial" /\ ltries' = ltries + 1 /\ UNCHANGED <<results, lost>>
       ELSE lpc' = "done" /\ ltries' = 0 /\ LoseResults

\* Reconnect: the old connection is stopped first, then a new one is dialled
LRedial ==
    /\ lpc = "redial"
    /\ subscribed' = FALSE
    /\ \/ NodeAnswers /\ lpc' = "resubscribe" /\ UNCHANGED <<results, ltries, lost>>
       \/ NodeFails /\ LAttemptFails
    /\ UNCHANGED <<nodeUp, levent>>

\* the listener reads from the new subscription's channel from now on
LResubscribe ==
    /\ lpc = "resubscribe"
    /\ \/ lpc' = "listen" /\ subscribed' = nodeUp /\ ltries' = 0 /\ LoseResults /\ UNCHANGED failures
       \/ CallFails /\ LAttemptFails /\ UNCHANGED subscribed
    /\ UNCHANGED <<nodeUp, levent>>

LReceive ==
    /\ lpc = "listen" /\ results # <<>>
    /\ levent' = Head(results) /\ results' = Tail(results)
    /\ lpc' = "enqueue"
    /\ UNCHANGED <<nodeUp, subscribed, ltries, lost, failures>>

\* one nonce of the event in hand; the send waits for room in the queue
LEnqueue ==
    /\ lpc = "enqueue" /\ Room(noncesQueue)
    /\ noncesQueue' = Append(noncesQueue, Head(levent))
    /\ known' = known \union {Head(levent)}
    /\ levent' = Tail(levent)
    /\ lpc' = IF Tail(levent) = <<>> THEN "listen" ELSE "enqueue"
    /\ UNCHANGED <<linkVars, ltries, lost, failures>>

Listener ==
    /\ ~panicked
    /\ \/ /\ \/ LSubscribe \/ LStop \/ LHealthTick \/ LRedial \/ LResubscribe \/ LReceive
          /\ UNCHANGED <<noncesQueue, known>>
       \/ LEnqueue
    /\ UNCHANGED <<chainVars, enqVars, procVars, requeueQueue, closeVars, helperVars,
                   lifeVars, networkVars, handled, dropped, blind, budgetVars>>

-----------------------------------------------------------------------------
(* EnqueueMissingEvents.                                                   *)

\* returning early leaves the attestations no event announces to nobody
EGiveUp ==
    /\ epc' = "done"
    /\ lost' = lost \union ((earliest..latest) \ (known \union InEvents))
    /\ UNCHANGED <<enext, elow>>

\* WaitForHeight(1), which gives up after a minute without a first block (the
\* one that commits attestation 1), then the latest nonce.
EQuery ==
    /\ epc = "query"
    /\ \/ /\ NodeAnswers /\ latest >= 1
          /\ epc' = "earliest" /\ enext' = latest
          /\ UNCHANGED <<elow, lost>>
       \/ NodeFails /\ EGiveUp
       \/ latest = 0 /\ EGiveUp /\ UNCHANGED failures
    /\ UNCHANGED <<noncesQueue, known>>

\* The earliest nonce, from a chain that may have moved on since.
EQueryEarliest ==
    /\ epc = "earliest"
    /\ \/ NodeAnswers /\ epc' = "send" /\ elow' = earliest /\ UNCHANGED <<enext, lost>>
       \/ NodeFails /\ EGiveUp
    /\ UNCHANGED <<noncesQueue, known>>

\* i < latestNonce - earliest + 1 fails after this send
LastMissing_OffByOne == enext <= elow + 1
LastMissing == enext = elow

\* latestNonce - i for i in 0..(latestNonce - earliest), one send at a time
ESend ==
    /\ epc = "send" /\ Room(noncesQueue)
    /\ noncesQueue' = Append(noncesQueue, enext)
    /\ known' = known \union {enext}
    /\ enext' = enext - 1
    /\ epc' = IF LastMissing THEN "done" ELSE "send"
    /\ UNCHANGED <<elow, lost, failures>>

EStop_QueryOnly ==
    /\ epc \in {"query", "earliest"} /\ ctxDone
    /\ EGiveUp
    /\ UNCHANGED <<noncesQueue, known, failures>>

\* the context or signalChan, also while the send waits for room
EStop ==
    /\ \/ epc = "send" /\ Stopping
       \/ epc \in {"query", "earliest"} /\ ctxDone
    /\ EGiveUp
    /\ UNCHANGED <<noncesQueue, known, failures>>

Enqueuer ==
    /\ ~panicked
    /\ EQuery \/ EQueryEarliest \/ ESend \/ EStop
    /\ UNCHANGED <<chainVars, linkVars, listenVars, procVars, requeueQueue, closeVars,
                   helperVars, lifeVars, networkVars, handled, dropped, blind, budgetVars>>

-----------------------------------------------------------------------------
(* ProcessNonces and Process.                                              *)

\* Process returned nil
PDone ==
    /\ ppc' = "select" /\ pnonce' = 0 /\ ptries' = 0
    /\ handled' = handled \union {pnonce}
    /\ UNCHANGED mrQuery

PGiveUp_NoRequeue ==
    /\ ppc' = "select" /\ pnonce' = 0 /\ ptries' = 0
    /\ UNCHANGED <<mrQuery, handled>>

\* The Retrier has no attempt left: go MaybeRequeue.
PGiveUp ==
    /\ ppc' = "select" /\ pnonce' = 0 /\ ptries' = 0
    /\ mrQuery' = Plus(mrQuery, pnonce)
    /\ UNCHANGED handled

PError_Swallowed == PDone

\* Process returned an error
PError ==
    IF ptries < Retries
    THEN ppc' = "retry" /\ UNCHANGED <<pnonce, ptries, mrQuery, handled>>
    ELSE PGiveUp

PTake ==
    /\ ppc = "select" /\ noncesQueue # <<>>
    /\ pnonce' = Head(noncesQueue) /\ noncesQueue' = Tail(noncesQueue)
    /\ ppc' = "att"
    /\ UNCHANGED <<ptries, mrQuery, tgRecv, signalled, networkVars, handled, blind, failures>>

FailedWaiting_OffByOne == Len(requeueQueue) > 1
FailedWaiting == Len(requeueQueue) > 0

\* the hourly tick: a helper will move one failed nonce
PTick ==
    /\ ppc = "select"
    /\ FailedWaiting /\ Room(noncesQueue)
    /\ tgRecv < MaxHelpers
    /\ tgRecv' = tgRecv + 1
    /\ UNCHANGED <<procVars, noncesQueue, mrQuery, signalled, networkVars, handled, blind, failures>>

\* the context is done: close(signalChan)
PStop ==
    /\ ppc = "select" /\ ctxDone
    /\ signalled' = TRUE
    /\ ppc' = "done"
    /\ UNCHANGED <<pnonce, ptries, noncesQueue, mrQuery, tgRecv, networkVars, handled, blind, failures>>

\* Retry waits for the next attempt, or for the context
PRetry ==
    /\ ppc = "retry"
    /\ \/ ptries' = ptries + 1 /\ ppc' = "att" /\ UNCHANGED <<pnonce, mrQuery, handled>>
       \/ ctxDone /\ PGiveUp
    /\ UNCHANGED <<noncesQueue, tgRecv, signalled, networkVars, blind, failures>>

\* QueryAttestationByNonce; nonce 1 is not signed
PQueryAttestation ==
    /\ ppc = "att"
    /\ \/ NodeFails /\ PError
       \/ NodeAnswers /\ ~Exists(pnonce) /\ PError
       \/ NodeAnswers /\ Exists(pnonce) /\ pnonce = 1 /\ PDone
       \/ /\ NodeAnswers /\ Exists(pnonce) /\ pnonce # 1
          /\ ppc' = "previous" /\ UNCHANGED <<pnonce, ptries, mrQuery, handled>>
    /\ UNCHANGED <<noncesQueue, tgRecv, signalled, networkVars, blind>>

\* ValidatorPartOfValset
PartOfValset_Anyone(v) == TRUE
PartOfValset(v) == v \in MemberOf

\* Broadcaster.ProvideLatestValset, whose error is ignored: the network keeps
\* the newer of what it has and what it is given
OfferValset(v) ==
    \/ offered' = Max({offered, v})
    \/ (ctxDone \/ failures < MaxFailures) /\ UNCHANGED offered

\* QueryLastValsetBeforeNonce: without an answer (the set is pruned, or the
\* call fails) the attestation is signed anyway
PQueryPrevious ==
    /\ ppc = "previous"
    /\ \/ /\ NodeFails \/ (NodeAnswers /\ ~Exists(PreviousValset(pnonce)))
          /\ ppc' = "sign" /\ blind' = blind \union {pnonce}
          /\ UNCHANGED <<pnonce, ptries, mrQuery, handled, offered>>
       \/ /\ NodeAnswers /\ Exists(PreviousValset(pnonce))
          /\ IF PartOfValset(PreviousValset(pnonce))
             THEN /\ ppc' = "sign" /\ OfferValset(PreviousValset(pnonce))
                  /\ UNCHANGED <<pnonce, ptries, mrQuery, handled>>
             ELSE PDone /\ UNCHANGED offered
          /\ UNCHANGED blind
    /\ UNCHANGED <<noncesQueue, tgRecv, signalled, confirms>>

\* Is this orchestrator's confirm in the network already?  (The lookup may miss.)
\* If not, ProcessValsetEvent or ProcessDataCommitmentEvent signs and puts it; a
\* put that returns an error may have stored it, or not (an empty peers table).
\* A data commitment is asked from the node first; a validator set is offered.
PSign ==
    /\ ppc = "sign"
    /\ \/ /\ CallFails \/ (pnonce \notin Valsets /\ NodeFails)
          /\ PError /\ UNCHANGED <<confirms, offered>>
       \/ pnonce \in confirms /\ PDone /\ UNCHANGED <<confirms, offered, failures>>
       \/ /\ \/ confirms' = confirms \union {pnonce} /\ PDone /\ UNCHANGED failures
             \/ CallFails /\ PError /\ confirms' \in {confirms, confirms \union {pnonce}}
          /\ IF pnonce \in Valsets THEN OfferValset(pnonce) ELSE UNCHANGED offered
    /\ UNCHANGED <<noncesQueue, tgRecv, signalled, blind>>

Processor ==
    /\ ~panicked
    /\ \/ PTake \/ PTick \/ PStop \/ PRetry
       \/ PQueryAttestation \/ PQueryPrevious \/ PSign
    /\ UNCHANGED <<chainVars, linkVars, listenVars, enqVars, requeueQueue, closeVars, mrSend,
                   tgSend, ctxDone, panicked, known, dropped, lost, budgetVars>>

-----------------------------------------------------------------------------
(* The helper goroutines: nothing waits for them.                          *)

\* "After this window is elapsed, the nonce is discarded."
WithinWindow(n) == latest <= RequeueWindow \/ n >= latest - RequeueWindow

\* MaybeRequeue: the query; its error discards the nonce, whatever its age
MRQuery(n) ==
    /\ mrQuery[n] > 0
    /\ mrQuery' = Minus(mrQuery, n)
    /\ \/ NodeFails /\ dropped' = dropped \union {n} /\ UNCHANGED mrSend
       \/ NodeAnswers /\ ~WithinWindow(n) /\ dropped' = dropped \union {n} /\ UNCHANGED mrSend
       \/ NodeAnswers /\ WithinWindow(n) /\ mrSend' = Plus(mrSend, n) /\ UNCHANGED dropped
    /\ UNCHANGED <<queueVars, tgRecv, tgSend, panicked>>

\* a send on a closed channel panics, and takes the process with it
MRSend(n) ==
    /\ mrSend[n] > 0
    /\ \/ /\ requeueClosed
          /\ panicked' = TRUE
          /\ UNCHANGED <<requeueQueue, mrSend>>
       \/ /\ ~requeueClosed /\ Room(requeueQueue)
          /\ requeueQueue' = Append(requeueQueue, n)
          /\ mrSend' = Minus(mrSend, n)
          /\ UNCHANGED panicked
    /\ UNCHANGED <<noncesQueue, mrQuery, tgRecv, tgSend, dropped, failures>>

\* the ticker's helper: a receive on a closed, empty channel returns 0
TGRecv ==
    /\ tgRecv > 0
    /\ \/ /\ requeueQueue # <<>>
          /\ requeueQueue' = Tail(requeueQueue)
          /\ tgSend' = Plus(tgSend, Head(requeueQueue))
       \/ /\ requeueClosed /\ requeueQueue = <<>>
          /\ tgSend' = Plus(tgSend, 0)
          /\ UNCHANGED requeueQueue
    /\ tgRecv' = tgRecv - 1
    /\ UNCHANGED <<noncesQueue, mrQuery, mrSend, dropped, panicked, failures>>

TGSend(n) ==
    /\ tgSend[n] > 0
    /\ \/ /\ noncesClosed
          /\ panicked' = TRUE
          /\ UNCHANGED <<noncesQueue, tgSend>>
       \/ /\ ~noncesClosed /\ Room(noncesQueue)
          /\ noncesQueue' = Append(noncesQueue, n)
          /\ tgSend' = Minus(tgSend, n)
          /\ UNCHANGED panicked
    /\ UNCHANGED <<requeueQueue, mrQuery, mrSend, tgRecv, dropped, failures>>

Helper ==
    /\ ~panicked
    /\ (\E n \in Nonces : MRQuery(n) \/ MRSend(n)) \/ TGRecv \/ (\E n \in 0..MaxNonce : TGSend(n))
    /\ UNCHANGED <<chainVars, linkVars, listenVars, enqVars, procVars, closeVars, ctxDone,
                   signalled, networkVars, known, handled, lost, blind, budgetVars>>

-----------------------------------------------------------------------------
(* Start.                                                                  *)

\* The operator stops the orchestrator (TrapSignal cancels the context).
Cancel ==
    /\ ~panicked /\ ~ctxDone /\ MaxStops = 1
    /\ ctxDone' = TRUE
    /\ UNCHANGED <<chainVars, linkVars, listenVars, enqVars, procVars, queueVars, closeVars,
                   helperVars, signalled, panicked, networkVars, histVars, failures, budgetVars>>

\* wg.Wait returns
WgWait_NoEnqueuer == lpc = "done" /\ ppc = "done"
WgWait == lpc = "done" /\ epc = "done" /\ ppc = "done"

\* Start returns: the deferred closes, failedNoncesQueue first, then noncesQueue
CloseQueues ==
    /\ ~panicked /\ WgWait
    /\ \/ ~requeueClosed /\ requeueClosed' = TRUE /\ UNCHANGED noncesClosed
       \/ requeueClosed /\ ~noncesClosed /\ noncesClosed' = TRUE /\ UNCHANGED requeueClosed
    /\ UNCHANGED <<chainVars, linkVars, listenVars, enqVars, procVars, queueVars, helperVars,
                   lifeVars, networkVars, histVars, failures, budgetVars>>

\* everything the process holds in memory when Start begins
StartState ==
    /\ subscribed = FALSE /\ results = <<>>
    /\ lpc = "subscribe" /\ levent = <<>> /\ ltries = 0
    /\ epc = "query" /\ enext = 0 /\ elow = 0
    /\ ppc = "select" /\ pnonce = 0 /\ ptries = 0
    /\ noncesQueue = <<>> /\ requeueQueue = <<>>
    /\ noncesClosed = FALSE /\ requeueClosed = FALSE
    /\ mrQuery = None /\ mrSend = None /\ tgRecv = 0 /\ tgSend = None
    /\ ctxDone = FALSE /\ signalled = FALSE /\ panicked = FALSE
    /\ known = {} /\ handled = {} /\ dropped = {} /\ lost = {}

\* The process ends, killed, crashed or stopped, and is started again.  It keeps
\* nothing: the nonces in its memory are found again in the chain.
Restart ==
    /\ restarts < MaxRestarts
    /\ restarts' = restarts + 1
    /\ subscribed' = FALSE /\ results' = <<>>
    /\ lpc' = "subscribe" /\ levent' = <<>> /\ ltries' = 0
    /\ epc' = "query" /\ enext' = 0 /\ elow' = 0
    /\ ppc' = "select" /\ pnonce' = 0 /\ ptries' = 0
    /\ noncesQueue' = <<>> /\ requeueQueue' = <<>>
    /\ noncesClosed' = FALSE /\ requeueClosed' = FALSE
    /\ mrQuery' = None /\ mrSend' = None /\ tgRecv' = 0 /\ tgSend' = None
    /\ ctxDone' = FALSE /\ signalled' = FALSE /\ panicked' = FALSE
    /\ known' = {} /\ handled' = {} /\ dropped' = {} /\ lost' = {}
    /\ UNCHANGED <<chainVars, nodeUp, networkVars, blind, failures, outages>>

-----------------------------------------------------------------------------

Init ==
    /\ latest \in 0..MaxAtStart /\ earliest = 1
    /\ nodeUp = TRUE
    /\ StartState
    /\ confirms = {} /\ offered = 0 /\ blind = {}
    /\ failures = 0 /\ outages = 0 /\ restarts = 0

Chain == NewBlock \/ Prune \/ NodeDown \/ NodeRecovers

Next == Chain \/ Listener \/ Enqueuer \/ Processor \/ Helper \/ Cancel \/ CloseQueues \/ Restart

Spec == Init /\ [][Next]_vars

-----------------------------------------------------------------------------
(* Fairness: each goroutine is scheduled and every call returns.  Go's     *)
(* select picks among its ready cases at random, so a cancelled context is *)
(* not passed over for ever while the other cases stay ready.              *)

Fairness ==
    /\ WF_vars(NodeRecovers)
    /\ WF_vars(Listener) /\ WF_vars(Enqueuer) /\ WF_vars(Processor) /\ WF_vars(Helper)
    /\ SF_vars(Listener /\ LStop) /\ SF_vars(Processor /\ PStop)

FairSpec == Spec /\ Fairness

-----------------------------------------------------------------------------
(* Properties.                                                             *)

Counts == [0..MaxNonce -> Nat]
Events == Seq(Nonces) \ {<<>>}

\* The state's types, and the capacities of the channels.
TypeOK ==
    /\ latest \in 0..MaxNonce /\ earliest \in Nat \ {0}
    /\ nodeUp \in BOOLEAN /\ subscribed \in BOOLEAN /\ results \in Seq(Events)
    /\ lpc \in {"subscribe", "listen", "redial", "resubscribe", "enqueue", "done"}
    /\ levent \in Seq(Nonces) /\ ltries \in 0..Retries
    /\ epc \in {"query", "earliest", "send", "done"}
    /\ enext \in 0..MaxNonce /\ elow \in Nat
    /\ ppc \in {"select", "att", "previous", "sign", "retry", "done"}
    /\ pnonce \in 0..MaxNonce /\ ptries \in 0..Retries
    /\ noncesQueue \in Seq(0..MaxNonce) /\ Len(noncesQueue) <= QueueSize
    /\ requeueQueue \in Seq(0..MaxNonce) /\ Len(requeueQueue) <= QueueSize
    /\ noncesClosed \in BOOLEAN /\ requeueClosed \in BOOLEAN
    /\ mrQuery \in Counts /\ mrSend \in Counts /\ tgRecv \in Nat /\ tgSend \in Counts
    /\ ctxDone \in BOOLEAN /\ signalled \in BOOLEAN /\ panicked \in BOOLEAN
    /\ confirms \subseteq Nonces /\ offered \in 0..MaxNonce
    /\ known \subseteq 0..MaxNonce /\ handled \subseteq 0..MaxNonce
    /\ dropped \subseteq 0..MaxNonce /\ lost \subseteq Nonces /\ blind \subseteq Nonces
    /\ failures \in Nat /\ outages \in Nat /\ restarts \in Nat

Busy == ppc \notin {"select", "done"}

\* where a nonce can be between two goroutines, or in one
InFlight(n) ==
    \/ n \in ToSet(noncesQueue) \union ToSet(requeueQueue)
    \/ Busy /\ pnonce = n
    \/ mrQuery[n] > 0 \/ mrSend[n] > 0 \/ tgSend[n] > 0

\* A nonce that was put in the queue is never forgotten: it is in a channel or
\* in the hands of a goroutine until Process returned nil for it or MaybeRequeue
\* discarded it.  (The two channels, ProcessNonces and its go statements.)
NonceAccounting == \A n \in known : InFlight(n) \/ n \in handled \union dropped

\* Process returns nil only when the network holds this orchestrator's confirm,
\* or none is due: nonce 1, or a previous set without this orchestrator.
HandledMeansConfirmed ==
    \A n \in handled : n > 1 => n \in confirms \/ PreviousValset(n) \notin MemberOf

\* A confirm is put only for an attestation of the chain after the first, and
\* for a set that contains the orchestrator unless the set could not be seen.
ConfirmsAreDue ==
    \A n \in confirms : n \in 2..latest /\ (n \in blind \/ PreviousValset(n) \in MemberOf)

\* While the orchestrator serves, each unpruned attestation is enqueued, or the
\* enqueuer or an event in hand will enqueue it, or it is one of the losses:
\* its event found no subscription, a full channel or a replaced subscription
\* after the enqueuer had asked for the latest nonce, or the enqueuer gave up.
NothingElseIsLost ==
    ~Stopping => earliest..latest \subseteq known \union EnqueuerWill \union InEvents \union lost

\* A helper's send on a closed channel can only bring the process down once it
\* is stopping and the three goroutines of Start have returned.
NoPanicWhileServing == panicked => ctxDone /\ lpc = "done" /\ epc = "done" /\ ppc = "done"

\* Every enqueued nonce is handled or discarded in the end, if the calls that
\* fail are finitely many: no chain of full channels holds it for ever.
EnqueuedIsResolved ==
    \A n \in Nonces : n \in known ~> n \in handled \union dropped \/ n \notin known \/ ctxDone

\* Once the context is cancelled, Start's three goroutines return.
StopReturns == ctxDone ~> (lpc = "done" /\ epc = "done" /\ ppc = "done") \/ ~ctxDone
=============================================================================
