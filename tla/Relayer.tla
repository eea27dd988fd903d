------------------------------ MODULE Relayer ------------------------------
(***************************************************************************)
(* Relayers (relayer/relayer.go) of one Blobstream contract, each with an  *)
(* EVM account of its own, some of them backup relayers.                   *)
(*                                                                         *)
(* processFunc loops while the contract is behind the chain: it takes the  *)
(* next attestation, finds the validator set that signed it, waits for 2/3 *)
(* of the signatures, stores them, submits a transaction and waits for it, *)
(* offering more gas when it is slow.  An error goes to the Retrier, and   *)
(* when its attempts are spent the process exits.  A backup relayer sleeps *)
(* before it relays.  A signal cancels the context that the loop, the      *)
(* calls and the Retrier look at.  The chain, the P2P network, the mempool *)
(* and the contract are external.                                          *)
(***************************************************************************)
EXTENDS Integers, FiniteSets, FiniteSetsExt

CONSTANTS
    Relayers, Backups,  \* the relayers, and those with IsBackupRelayer
    Valsets,        \* the nonces whose attestation is a validator set
    Retries,        \* the Retrier's retriesNumber (6)
    Waits,          \* attempts of waitForTransactionAndRetryIfNeeded (10)
    Archive,        \* TRUE if the node the relayers use keeps pruned state
    KeptNonces,     \* attestations the chain keeps (external)
    StartNonce,     \* the attestation the contract was deployed with
    MaxNonce,       \* bound: attestations the chain creates
    MaxPrice,       \* bound: the highest gas price
    MaxFailures,    \* bound: calls that fail
    MaxTimeouts,    \* bound: waits that time out
    MaxRestarts,    \* bound: processes started again
    MaxStops        \* bound: processes told to stop

ASSUME RelayerAssumption == Backups \subseteq Relayers /\ IsFiniteSet(Relayers)
ASSUME ConstantAssumption ==
    /\ Retries \in Nat \ {0} /\ Waits \in Nat \ {0} /\ Archive \in BOOLEAN
    /\ MaxNonce \in Nat /\ StartNonce \in 1..MaxNonce /\ KeptNonces \in Nat \ {0}
    /\ MaxPrice \in Nat \ {0}
    /\ MaxFailures \in Nat /\ MaxTimeouts \in Nat /\ MaxRestarts \in Nat /\ MaxStops \in Nat
ASSUME ValsetAssumption == Valsets \subseteq Nat /\ 1 \in Valsets

Nonces == 1..MaxNonce

VARIABLES
    \* the chain and the P2P network
    latest, earliest,
    quorum,         \* attestations with 2/3 of their signatures in the network
    \* the contract and the mempool
    cNonce,         \* state_eventNonce
    pool,           \* transactions sent and not mined
    account,        \* next nonce of each relayer's account
    \* each relayer
    pc, tries,      \* where it is, and the Retrier's attempt (0: none)
    mayRelay,       \* backupRelayerShouldRelay
    target, valset, seq, \* attestation, validator set and account nonce in hand
    tx, receipt,    \* the transaction it waits for, and whether it is mined
    waits,          \* timeouts of that wait
    stopping,       \* whether its context is cancelled
    saved,          \* attestations whose signatures are in its SignatureStore
    \* history
    waited,         \* latest nonce a backup had seen when it last woke up
    \* spent budgets
    failures, timeouts, restarts, stops

chainVars    == <<latest, earliest, quorum>>
contractVars == <<cNonce, pool, account>>
loopVars     == <<pc, tries, mayRelay>>
workVars     == <<target, valset, seq, tx, receipt, waits>>
histVars     == <<waited>>
stopVars     == <<stopping, restarts, stops>>
budgetVars   == <<failures, timeouts>>
vars == <<chainVars, contractVars, loopVars, workVars, saved, histVars, stopVars, budgetVars>>

-----------------------------------------------------------------------------

Exists(n) == n \in earliest..latest

\* the validator set that signs attestation n, n > 1
PreviousValset(n) == Max({v \in Valsets : v < n})

\* the validator set whose checkpoint the contract holds after attestation n
Checkpoint(n) == PreviousValset(n + 1)

Txs == [from : Relayers, seq : Nat, att : Nonces, valset : Valsets, price : 1..MaxPrice]
NoTx == <<>>

PoolOf(r) == {t \in pool : t.from = r}

\* (a definition named X_Y is a faulty variant of X, used to test a property)
PendingNonce_Mined(r) == account[r]

\* PendingNonceAt: after the account's transactions in the mempool
PendingNonce(r) == account[r] + Cardinality(PoolOf(r))

CallFails ==
    /\ failures < MaxFailures
    /\ failures' = failures + 1
    /\ UNCHANGED timeouts

\* a call returns an error, if only because the context it was given is cancelled
CallErrs(r) == CallFails \/ (stopping[r] /\ UNCHANGED budgetVars)

-----------------------------------------------------------------------------
(* The chain, the orchestrators, the mempool and the contract (external).  *)

Attest ==
    /\ latest < MaxNonce
    /\ latest' = latest + 1
    /\ UNCHANGED <<earliest, quorum, contractVars, loopVars, workVars, saved, histVars, stopVars, budgetVars>>

Prune ==
    /\ earliest + KeptNonces <= latest
    /\ earliest' = earliest + 1
    /\ UNCHANGED <<latest, quorum, contractVars, loopVars, workVars, saved, histVars, stopVars, budgetVars>>

\* the orchestrators' confirms for n make 2/3 of its validator set's power
Sign(n) ==
    /\ n \in (StartNonce + 1 .. latest) \ quorum
    /\ quorum' = quorum \union {n}
    /\ UNCHANGED <<latest, earliest, contractVars, loopVars, workVars, saved, histVars, stopVars, budgetVars>>

\* the contract accepts the next nonce, signed by 2/3 of the set it trusts
Accepts(t) == t.att = cNonce + 1 /\ t.valset = Checkpoint(cNonce) /\ t.att \in quorum

\* An account's transactions are mined in the order of their nonces.  A mined
\* transaction replaces every other one with its nonce; a rejected one reverts.
MineAs(t, accepted) ==
    /\ t \in pool /\ t.seq = account[t.from]
    /\ cNonce' = IF accepted THEN cNonce + 1 ELSE cNonce
    /\ pool' = {u \in pool : u.from # t.from \/ u.seq # t.seq}
    /\ receipt' = [receipt EXCEPT ![t.from] = @ \/ tx[t.from] = t]
    /\ account' = [account EXCEPT ![t.from] = @ + 1]
    /\ UNCHANGED <<chainVars, loopVars, target, valset, seq, tx, waits, saved, waited,
                   stopVars, budgetVars>>

Mine(t) == MineAs(t, Accepts(t))

\* SendTransaction: refused if its nonce is used, or taken at the same price or more
Admits(t) ==
    /\ t.seq >= account[t.from]
    /\ \A u \in PoolOf(t.from) : u.seq = t.seq => u.price < t.price
Admit(t) ==
    pool' = {u \in pool : u.from # t.from \/ u.seq # t.seq} \union {t}

-----------------------------------------------------------------------------
(* The relayer.                                                            *)

AttemptLeft(r) == tries[r] < Retries

\* processFunc returned an error: the Retrier's next attempt, or the end
Fail(r) ==
    IF AttemptLeft(r)
    THEN pc' = [pc EXCEPT ![r] = "backoff"]
    ELSE pc' = [pc EXCEPT ![r] = "exited"]

Drop(r) ==
    /\ target' = [target EXCEPT ![r] = 0] /\ valset' = [valset EXCEPT ![r] = 0]
    /\ seq' = [seq EXCEPT ![r] = 0]
    /\ tx' = [tx EXCEPT ![r] = NoTx] /\ receipt' = [receipt EXCEPT ![r] = FALSE]
    /\ waits' = [waits EXCEPT ![r] = 0]

\* the 100 s tick of ImmediateTicker
Tick(r) ==
    /\ pc[r] = "idle"
    /\ latest > cNonce \* nothing happens otherwise
    /\ pc' = [pc EXCEPT ![r] = "check"]
    /\ UNCHANGED <<chainVars, contractVars, tries, mayRelay, workVars, saved, histVars, stopVars, budgetVars>>

\* the Retrier's delay is over
Retry(r) ==
    /\ pc[r] = "backoff"
    /\ pc' = [pc EXCEPT ![r] = "check"] /\ tries' = [tries EXCEPT ![r] = @ + 1]
    /\ UNCHANGED <<chainVars, contractVars, mayRelay, workVars, saved, histVars, stopVars, budgetVars>>

MustSleep(r) == r \in Backups /\ ~mayRelay[r]

\* The head of processFunc's loop: StateLastEventNonce, QueryLatestAttestationNonce
Check(r) ==
    /\ pc[r] = "check"
    /\ \/ CallErrs(r) /\ Fail(r) /\ UNCHANGED <<tries, target>>
       \/ /\ ~stopping[r] /\ cNonce >= latest
          /\ pc' = [pc EXCEPT ![r] = "idle"] /\ tries' = [tries EXCEPT ![r] = 0]
          /\ UNCHANGED <<target, budgetVars>>
       \/ /\ ~stopping[r] /\ cNonce < latest /\ MustSleep(r)
          /\ pc' = [pc EXCEPT ![r] = "sleep"]
          /\ UNCHANGED <<tries, target, budgetVars>>
       \/ /\ ~stopping[r] /\ cNonce < latest /\ ~MustSleep(r)
          /\ pc' = [pc EXCEPT ![r] = "prepare"] /\ target' = [target EXCEPT ![r] = cNonce + 1]
          /\ UNCHANGED <<tries, budgetVars>>
    /\ UNCHANGED <<chainVars, contractVars, mayRelay, valset, seq, tx, receipt, waits, saved, histVars,
                   stopVars>>

Wake_Again(r) ==
    /\ pc[r] = "sleep"
    /\ pc' = [pc EXCEPT ![r] = "check"]
    /\ waited' = [waited EXCEPT ![r] = latest]
    /\ UNCHANGED <<chainVars, contractVars, tries, mayRelay, workVars, saved,
                   stopVars, budgetVars>>

\* time.Sleep(BackupRelayerWaitTime) is over: back to the head of the loop
Wake(r) ==
    /\ pc[r] = "sleep"
    /\ pc' = [pc EXCEPT ![r] = "check"] /\ mayRelay' = [mayRelay EXCEPT ![r] = TRUE]
    /\ waited' = [waited EXCEPT ![r] = latest]
    /\ UNCHANGED <<chainVars, contractVars, tries, workVars, saved, stopVars, budgetVars>>

P2PValsets_Unchecked == {v \in Valsets : v <= latest}

\* QueryValsetFromP2PNetworkAndValidateIt: whatever set the network holds, if its
\* hash is the contract's checkpoint
P2PValsets == {v \in Valsets : v <= latest /\ v = Checkpoint(cNonce)}

\* The set that signed the attestation: from the state; or, if it is pruned there,
\* from the P2P network; or from the history of an archive node.
FoundValset(r) ==
    LET previous == PreviousValset(target[r])
    IN  IF Exists(previous) THEN {previous}
        ELSE P2PValsets \union (IF Archive THEN {previous} ELSE {})

\* It is looked for after the account's pending nonce.  The P2P network, and the
\* call to the state, may also fail where they could have answered.

Prepare(r) ==
    /\ pc[r] = "prepare"
    /\ \/ CallErrs(r) /\ Fail(r) /\ Drop(r)
       \/ /\ ~Exists(target[r]) \/ (~Exists(PreviousValset(target[r])) /\ ~Archive)
          /\ Fail(r) /\ Drop(r) /\ UNCHANGED budgetVars
       \/ /\ ~stopping[r] /\ Exists(target[r])
          /\ seq' = [seq EXCEPT ![r] = PendingNonce(r)]
          /\ \E v \in FoundValset(r) : valset' = [valset EXCEPT ![r] = v]
          /\ pc' = [pc EXCEPT ![r] = "gather"]
          /\ UNCHANGED <<target, tx, receipt, waits, budgetVars>>
    /\ UNCHANGED <<chainVars, contractVars, tries, mayRelay, saved, histVars, stopVars>>

\* QueryTwoThirdsValsetConfirms, QueryTwoThirdsDataCommitmentConfirms.  Counted
\* with another set than the one that signs, the power may suffice or not.
TwoThirdsFound(r) == target[r] \in quorum \/ valset[r] # PreviousValset(target[r])

\* UpdateValidatorSet asks the state again for the previous set, with no
\* fallback; SubmitDataRootTupleRoot uses the set in hand.
SubmittedValset(r) == IF target[r] \in Valsets THEN PreviousValset(target[r]) ELSE valset[r]
SetIsThere(r) == target[r] \in Valsets => Exists(PreviousValset(target[r]))

Submission(r, p) ==
    [from |-> r, seq |-> seq[r], att |-> target[r], valset |-> SubmittedValset(r), price |-> p]

\* The search for the confirms fails, or its 30 minutes pass, which may happen
\* although there are enough.
GiveUp(r) ==
    /\ pc[r] = "gather"
    /\ Fail(r) /\ Drop(r)
    /\ \/ CallErrs(r)
       \/ timeouts < MaxTimeouts /\ timeouts' = timeouts + 1 /\ UNCHANGED failures
    /\ UNCHANGED <<chainVars, contractVars, tries, mayRelay, saved, histVars, stopVars>>

Found_SendsFirst(r) ==
    /\ pc[r] = "gather" /\ ~stopping[r]
    /\ pc' = [pc EXCEPT ![r] = "submit"]
    /\ UNCHANGED <<chainVars, contractVars, tries, mayRelay, workVars, saved, histVars, stopVars,
                   budgetVars>>

\* the search returns the confirms
Found(r) ==
    /\ pc[r] = "gather" /\ ~stopping[r]
    /\ pc' = [pc EXCEPT ![r] = "save"]
    /\ UNCHANGED <<chainVars, contractVars, tries, mayRelay, workVars, saved, histVars, stopVars,
                   budgetVars>>

Gather(r) == GiveUp(r) \/ (Found(r) /\ TwoThirdsFound(r))

\* the batch is committed
Stored(r) == saved' = [saved EXCEPT ![r] = @ \union {target[r]}]

\* SaveValsetSignaturesToStore, SaveDataCommitmentSignaturesToStore, on the disk
\* before anything is submitted.  A commit that returns an error may have stored
\* them; one that succeeds has not looked at the context.
Save(r) ==
    /\ pc[r] = "save"
    /\ \/ CallErrs(r) /\ Fail(r) /\ Drop(r) /\ (UNCHANGED saved \/ Stored(r))
       \/ /\ Stored(r)
          /\ pc' = [pc EXCEPT ![r] = "submit"]
          /\ UNCHANGED <<workVars, budgetVars>>
    /\ UNCHANGED <<chainVars, contractVars, tries, mayRelay, histVars, stopVars>>

\* The transaction is signed and sent.  Its account nonce is never refused: see
\* AccountNonceIsFree.  A call that returns an error may have sent it.
Submit(r) ==
    /\ pc[r] = "submit"
    /\ \/ /\ CallErrs(r) /\ Fail(r) /\ Drop(r)
          /\ UNCHANGED pool \/ (SetIsThere(r) /\ \E p \in 1..MaxPrice : Admit(Submission(r, p)))
       \/ /\ ~SetIsThere(r)
          /\ Fail(r) /\ Drop(r)
          /\ UNCHANGED <<pool, budgetVars>>
       \/ /\ ~stopping[r] /\ SetIsThere(r)
          /\ \E p \in 1..MaxPrice :
               /\ Admit(Submission(r, p))
               /\ tx' = [tx EXCEPT ![r] = Submission(r, p)]
          /\ pc' = [pc EXCEPT ![r] = "wait"]
          /\ UNCHANGED <<target, valset, seq, receipt, waits, budgetVars>>
    /\ UNCHANGED <<chainVars, cNonce, account, tries, mayRelay, saved, histVars, stopVars>>

\* WaitForTransaction found the receipt, whatever its status
Mined(r) ==
    /\ pc[r] = "wait" /\ receipt[r] /\ ~stopping[r]
    /\ mayRelay' = [mayRelay EXCEPT ![r] = FALSE]
    /\ pc' = [pc EXCEPT ![r] = "check"]
    /\ Drop(r)
    /\ UNCHANGED <<chainVars, contractVars, tries, saved, waited, stopVars, budgetVars>>

\* any error but the deadline
WaitFails(r) ==
    /\ pc[r] = "wait"
    /\ CallErrs(r) /\ Fail(r) /\ Drop(r)
    /\ UNCHANGED <<chainVars, contractVars, tries, mayRelay, saved, histVars, stopVars>>

\* RetryTimeout passes: the same transaction is sent again if the suggested gas
\* price is higher than the first one's (an error of the node is only logged),
\* and the wait goes on, for the first one's hash.  The last wait that times out
\* returns ErrTransactionStillPending.
WaitTimesOut(r) ==
    /\ pc[r] = "wait" /\ ~receipt[r] /\ ~stopping[r]
    /\ timeouts < MaxTimeouts /\ timeouts' = timeouts + 1
    /\ \E p \in 1..MaxPrice :
         LET spedUp == [tx[r] EXCEPT !.price = p]
         IN  IF p > tx[r].price /\ Admits(spedUp) THEN Admit(spedUp) ELSE UNCHANGED pool
    /\ IF waits[r] + 1 < Waits
       THEN /\ waits' = [waits EXCEPT ![r] = @ + 1]
            /\ UNCHANGED <<pc, target, valset, seq, tx, receipt>>
       ELSE Fail(r) /\ Drop(r)
    /\ UNCHANGED <<chainVars, cNonce, account, tries, mayRelay, saved, histVars, stopVars,
                   failures>>

\* TrapSignal: the first signal cancels the context; the others are not read.
Signal(r) ==
    /\ pc[r] # "exited" /\ ~stopping[r]
    /\ stops < MaxStops /\ stops' = stops + 1
    /\ stopping' = [stopping EXCEPT ![r] = TRUE]
    /\ UNCHANGED <<chainVars, contractVars, loopVars, workVars, saved, histVars, restarts, budgetVars>>

Stop_TickerDeaf(r) ==
    /\ pc[r] = "backoff" /\ stopping[r]
    /\ pc' = [pc EXCEPT ![r] = "exited"]
    /\ UNCHANGED <<chainVars, contractVars, tries, mayRelay, workVars, saved, histVars, stopVars,
                   budgetVars>>

\* ImmediateTicker and the Retrier wait for their timers and for the context; the
\* ticker's error goes to the Retrier, and the Retrier's ends Start.
Stop(r) ==
    /\ pc[r] \in {"idle", "backoff"} /\ stopping[r]
    /\ pc' = [pc EXCEPT ![r] = "exited"]
    /\ UNCHANGED <<chainVars, contractVars, tries, mayRelay, workVars, saved, histVars, stopVars,
                   budgetVars>>

\* The process ended, by itself or killed, and is started again; only the
\* signature store is on disk.
Restart(r) ==
    /\ restarts < MaxRestarts /\ restarts' = restarts + 1
    /\ stopping' = [stopping EXCEPT ![r] = FALSE]
    /\ pc' = [pc EXCEPT ![r] = "check"] /\ tries' = [tries EXCEPT ![r] = 0]
    /\ mayRelay' = [mayRelay EXCEPT ![r] = FALSE]
    /\ Drop(r)
    /\ waited' = [waited EXCEPT ![r] = 0]
    /\ UNCHANGED <<chainVars, contractVars, saved, stops, budgetVars>>

-----------------------------------------------------------------------------

Init ==
    /\ latest \in StartNonce..MaxNonce /\ earliest = 1 /\ quorum = {}
    /\ cNonce = StartNonce /\ pool = {} /\ account = [r \in Relayers |-> 0]
    /\ pc = [r \in Relayers |-> "check"] /\ tries = [r \in Relayers |-> 0]
    /\ mayRelay = [r \in Relayers |-> FALSE]
    /\ target = [r \in Relayers |-> 0] /\ valset = [r \in Relayers |-> 0]
    /\ seq = [r \in Relayers |-> 0]
    /\ tx = [r \in Relayers |-> NoTx] /\ receipt = [r \in Relayers |-> FALSE]
    /\ waits = [r \in Relayers |-> 0]
    /\ saved = [r \in Relayers |-> {}]
    /\ waited = [r \in Relayers |-> 0]
    /\ stopping = [r \in Relayers |-> FALSE]
    /\ failures = 0 /\ timeouts = 0 /\ restarts = 0 /\ stops = 0

\* a step of the relayer's own program
Step(r) ==
    \/ Tick(r) \/ Retry(r) \/ Check(r) \/ Wake(r) \/ Prepare(r)
    \/ Gather(r) \/ Save(r) \/ Submit(r)
    \/ Mined(r) \/ WaitFails(r) \/ WaitTimesOut(r) \/ Stop(r)

External == Attest \/ Prune \/ (\E n \in Nonces : Sign(n)) \/ (\E t \in pool : Mine(t))

Next == External \/ \E r \in Relayers : Step(r) \/ Signal(r) \/ Restart(r)

Spec == Init /\ [][Next]_vars

\* Fairness: every relayer's loop goes on, enough orchestrators sign each
\* attestation, and the chain mines what its mempool holds.
Fairness ==
    /\ \A r \in Relayers : WF_vars(Step(r))
    /\ \A n \in Nonces : WF_vars(Sign(n))
    /\ WF_vars(\E t \in pool : Mine(t))

FairSpec == Spec /\ Fairness

-----------------------------------------------------------------------------
(* Properties.                                                             *)

TypeOK ==
    /\ latest \in Nonces /\ earliest \in Nonces /\ quorum \subseteq Nonces
    /\ cNonce \in Nonces /\ account \in [Relayers -> Nat]
    /\ pool \subseteq Txs
    /\ pc \in [Relayers -> {"idle", "check", "sleep", "prepare", "gather", "save",
                            "submit", "wait", "backoff", "exited"}]
    /\ tries \in [Relayers -> 0..Retries] /\ mayRelay \in [Relayers -> BOOLEAN]
    /\ target \in [Relayers -> 0..MaxNonce] /\ valset \in [Relayers -> Valsets \union {0}]
    /\ seq \in [Relayers -> Nat]
    /\ tx \in [Relayers -> Txs \union {NoTx}] /\ receipt \in [Relayers -> BOOLEAN]
    /\ waits \in [Relayers -> 0..Waits - 1]
    /\ saved \in [Relayers -> SUBSET Nonces]
    /\ waited \in [Relayers -> 0..MaxNonce]
    /\ stopping \in [Relayers -> BOOLEAN]
    /\ failures \in Nat /\ timeouts \in Nat /\ restarts \in Nat /\ stops \in Nat

\* A transaction for the contract's next nonce carries the set that the contract
\* trusts, and its signatures: it is not rejected, however the set was found and
\* whatever the other relayers did since (ProcessAttestation's three sources).
NextIsAccepted == \A t \in pool : t.att = cNonce + 1 => Accepts(t)

\* A relayer relays only what it saved the signatures of: though the store may fail
\* before, and the process may be killed after the signatures are found, after they
\* are stored, and after they are sent, and starts again with another attestation.
SubmittedIsSaved == \A t \in pool : t.att \in saved[t.from]

\* The account nonce that NewTransactionOpts read before the signatures were
\* gathered (30 minutes) is still free when the transaction is submitted.
AccountNonceIsFree ==
    \A r \in Relayers : pc[r] \in {"gather", "save", "submit"} =>
        seq[r] >= account[r] /\ \A t \in PoolOf(r) : t.seq # seq[r]

\* The relayers implement the bridge: one attestation after the other, each
\* signed by 2/3 of the set before it.
Abstract == INSTANCE Bridge WITH
    Attestations <- Nonces, Deployed <- 1..StartNonce,
    made <- 1..latest, signed <- quorum, relayed <- 1..cNonce

\* A relayer that is told to stop does so, wherever the signal finds it: asleep
\* as a backup (which does not look at the context), between two ticks or
\* attempts, gathering signatures, storing them, or waiting for a transaction: never
\* is it for good told to stop and running.
RelayerStops == \A r \in Relayers : []<>(stopping[r] => pc[r] = "exited")

\* "if the transaction was mined correctly, the relayer gets back to the pending
\* state waiting for the next nonce + the backup relayer wait time": a backup
\* relays only attestations that were there when it last finished waiting.
BackupWaitsForTheNonce ==
    \A r \in Backups : pc[r] \in {"prepare", "gather", "save", "submit", "wait"} => target[r] <= waited[r]

\* "it's not an issue since we implemented fallback mechanisms that will use the
\* P2P network to get it", or else an archive node: with one, every attestation
\* the chain keeps is relayed, though the set that signed it is pruned.
PrunedSetIsRecovered == \A n \in Nonces : latest >= n ~> cNonce >= n
=============================================================================
