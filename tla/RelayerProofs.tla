---------------------------- MODULE RelayerProofs ----------------------------
(***************************************************************************)
(* Theorems about Relayer and System, for every set of relayers and every  *)
(* value of the constants.  Of Relayer: the types; what is submitted for   *)
(* the contract's next nonce is accepted; what is submitted is saved; the  *)
(* account nonce of a submission is free; and together the relayers        *)
(* implement the bridge.  Of System: it implements Relayer, and so the     *)
(* bridge; what is submitted for the contract's next nonce carries enough  *)
(* signatures.                                                             *)
(***************************************************************************)
EXTENDS System, SetLemmas

-----------------------------------------------------------------------------
(* Validator sets.                                                         *)

\* the set that signs attestation n is the latest before it
LEMMA PreviousIsLatest ==
    ASSUME NEW n \in Nat, n > 1
    PROVE  /\ PreviousValset(n) \in Valsets /\ PreviousValset(n) < n
           /\ \A v \in Valsets : v < n => v <= PreviousValset(n)
<1> DEFINE S == {v \in Valsets : v < n}
<1>1. S \in SUBSET Nat /\ 1 \in S /\ \A s \in S : s <= n
  <2>1. \A v \in Nat : v < n => v <= n
    OBVIOUS
  <2>2. S \in SUBSET Nat /\ 1 \in S
    BY ValsetAssumption
  <2> QED BY <2>1, <2>2
<1>2. Max(S) \in S /\ \A y \in S : y <= Max(S)
  BY <1>1, BoundedHasMaximum
<1> QED BY <1>2 DEF PreviousValset

-----------------------------------------------------------------------------
(* Types and control.                                                      *)

\* a relayer has an attestation, its set and an account nonce in hand
InHand == {"gather", "save", "submit"}

\* what a relayer's program counter says of the rest of its state
Control(r) ==
    /\ pc[r] = "backoff" => tries[r] < Retries
    /\ pc[r] \in {"prepare", "gather", "save", "submit", "wait"} =>
         target[r] \in StartNonce + 1 .. MaxNonce
    /\ pc[r] \in InHand => valset[r] \in Valsets
    /\ pc[r] = "wait" => tx[r] \in Txs /\ tx[r].from = r

PCs == {"idle", "check", "sleep", "prepare", "gather", "save", "submit", "wait", "backoff", "exited"}

\* TypeOK in parts: the world, the relayers' flags, and the rest
WorldTypes ==
    /\ latest \in Nonces /\ earliest \in Nonces /\ quorum \subseteq Nonces
    /\ cNonce \in StartNonce..MaxNonce /\ account \in [Relayers -> Nat]
    /\ pool \subseteq Txs /\ IsFiniteSet(pool)
    /\ failures \in Nat /\ timeouts \in Nat /\ restarts \in Nat /\ stops \in Nat

FlagTypes ==
    /\ mayRelay \in [Relayers -> BOOLEAN] /\ receipt \in [Relayers -> BOOLEAN]
    /\ stopping \in [Relayers -> BOOLEAN]

LoopTypes ==
    /\ pc \in [Relayers -> PCs] /\ tries \in [Relayers -> 0..Retries]
    /\ target \in [Relayers -> 0..MaxNonce] /\ valset \in [Relayers -> Valsets \union {0}]
    /\ seq \in [Relayers -> Nat]
    /\ tx \in [Relayers -> Txs \union {NoTx}]
    /\ waits \in [Relayers -> 0..Waits - 1]

RecordTypes ==
    /\ saved \in [Relayers -> SUBSET Nonces]
    /\ waited \in [Relayers -> 0..MaxNonce]

Controlled == \A r \in Relayers : Control(r)

Typed == WorldTypes /\ FlagTypes /\ LoopTypes /\ RecordTypes /\ Controlled

LEMMA TypedImpliesTypeOK == Typed => TypeOK
<1> SUFFICES ASSUME Typed PROVE TypeOK
  OBVIOUS
<1>1. cNonce \in Nonces
  BY ConstantAssumption DEF Typed, WorldTypes, Nonces
<1> QED BY <1>1 DEF Typed, WorldTypes, FlagTypes, LoopTypes, RecordTypes, TypeOK, PCs

LEMMA InitTyped == Init => Typed
<1> SUFFICES ASSUME Init PROVE Typed
  OBVIOUS
<1> USE ConstantAssumption DEF Init
<1>1. WorldTypes
  BY FS_EmptySet DEF WorldTypes, Nonces
<1>2. FlagTypes
  BY DEF FlagTypes
<1>3. LoopTypes
  BY DEF LoopTypes, PCs
<1>4. RecordTypes
  BY DEF RecordTypes
<1>5. Controlled
  BY DEF Controlled, Control, InHand
<1> QED BY <1>1, <1>2, <1>3, <1>4, <1>5 DEF Typed

LEMMA TypeExternal == Typed /\ External => Typed'
<1> SUFFICES ASSUME Typed, External PROVE Typed'
  OBVIOUS
<1> USE ConstantAssumption DEF Typed
<1> USE DEF chainVars, contractVars, loopVars, workVars, histVars, stopVars, budgetVars
<1>1. CASE Attest \/ Prune \/ \E n \in Nonces : Sign(n)
  <2>1. WorldTypes'
    <3>1. CASE Attest
      BY <3>1 DEF Attest, WorldTypes, Nonces
    <3>2. CASE Prune
      BY <3>2 DEF Prune, WorldTypes, Nonces
    <3>3. CASE \E n \in Nonces : Sign(n)
      BY <3>3 DEF Sign, WorldTypes
    <3> QED BY <1>1, <3>1, <3>2, <3>3
  <2>2. UNCHANGED <<loopVars, workVars, saved, histVars, stopVars>>
    BY <1>1 DEF Attest, Prune, Sign
  <2>3. FlagTypes' /\ LoopTypes' /\ RecordTypes' /\ Controlled'
    BY <2>2 DEF FlagTypes, LoopTypes, RecordTypes, Controlled, Control
  <2> QED BY <2>1, <2>3
<1>2. ASSUME NEW t \in pool, Mine(t) PROVE Typed'
  <2>1. t \in Txs /\ t.from \in Relayers /\ t.att \in Nonces
    BY DEF WorldTypes, Txs
  <2>2. cNonce' \in StartNonce..MaxNonce
    BY <1>2, <2>1 DEF Mine, MineAs, Accepts, WorldTypes, Nonces
  <2>3. pool' \subseteq Txs /\ IsFiniteSet(pool')
    <3>1. pool' \in SUBSET pool
      BY <1>2 DEF Mine, MineAs
    <3> QED BY <3>1, FS_Subset DEF WorldTypes
  <2>4. account' \in [Relayers -> Nat]
    BY <1>2, <2>1 DEF Mine, MineAs, WorldTypes
  <2>5. WorldTypes'
    BY <1>2, <2>2, <2>3, <2>4 DEF Mine, MineAs, WorldTypes
  <2>6. FlagTypes'
    BY <1>2 DEF Mine, MineAs, FlagTypes
  <2>7. LoopTypes' /\ Controlled'
    BY <1>2 DEF Mine, MineAs, LoopTypes, Controlled, Control
  <2>8. RecordTypes'
    BY <1>2, <2>1 DEF Mine, MineAs, RecordTypes
  <2> QED BY <2>5, <2>6, <2>7, <2>8
<1> QED BY <1>1, <1>2 DEF External

-----------------------------------------------------------------------------
(* The steps of one relayer.                                               *)

\* what a step of r leaves alone in the other relayers' programs
OthersSame(r) ==
    \A q \in Relayers \ {r} :
        /\ pc'[q] = pc[q] /\ tries'[q] = tries[q] /\ target'[q] = target[q]
        /\ valset'[q] = valset[q] /\ seq'[q] = seq[q] /\ tx'[q] = tx[q]

LEMMA ControlOthers ==
    ASSUME NEW r \in Relayers, OthersSame(r), Controlled, Control(r)'
    PROVE  Controlled'
BY DEF OthersSame, Controlled, Control

LEMMA FailTyped ==
    ASSUME LoopTypes, NEW r \in Relayers, Fail(r)
    PROVE  /\ pc' \in [Relayers -> PCs] /\ pc'[r] \in {"backoff", "exited"}
           /\ pc'[r] = "backoff" => tries[r] < Retries
           /\ \A q \in Relayers \ {r} : pc'[q] = pc[q]
BY DEF LoopTypes, Fail, AttemptLeft, PCs

LEMMA DropTyped ==
    ASSUME LoopTypes, FlagTypes, NEW r \in Relayers, Drop(r)
    PROVE  /\ target' \in [Relayers -> 0..MaxNonce] /\ valset' \in [Relayers -> Valsets \union {0}]
           /\ seq' \in [Relayers -> Nat] /\ tx' \in [Relayers -> Txs \union {NoTx}]
           /\ waits' \in [Relayers -> 0..Waits - 1] /\ receipt' \in [Relayers -> BOOLEAN]
           /\ \A q \in Relayers \ {r} :
                 /\ target'[q] = target[q] /\ valset'[q] = valset[q]
                 /\ seq'[q] = seq[q] /\ tx'[q] = tx[q]
<1> USE ConstantAssumption
<1>1. receipt' \in [Relayers -> BOOLEAN]
  BY DEF FlagTypes, Drop
<1>2. waits' \in [Relayers -> 0..Waits - 1]
  BY DEF LoopTypes, Drop
<1>3. target' \in [Relayers -> 0..MaxNonce] /\ seq' \in [Relayers -> Nat]
  BY DEF LoopTypes, Drop
<1>4. valset' \in [Relayers -> Valsets \union {0}] /\ tx' \in [Relayers -> Txs \union {NoTx}]
  BY DEF LoopTypes, Drop
<1>5. \A q \in Relayers \ {r} : /\ target'[q] = target[q] /\ valset'[q] = valset[q]
                               /\ seq'[q] = seq[q] /\ tx'[q] = tx[q]
  BY DEF LoopTypes, Drop
<1> QED BY <1>1, <1>2, <1>3, <1>4, <1>5

\* an error: the Retrier, and nothing in hand
LEMMA TypeFailure ==
    ASSUME LoopTypes, FlagTypes, Controlled, NEW r \in Relayers, Fail(r), Drop(r),
           UNCHANGED <<tries, mayRelay, stopping>>
    PROVE  LoopTypes' /\ FlagTypes' /\ Controlled' /\ OthersSame(r)
<1>1. LoopTypes'
  BY FailTyped, DropTyped DEF LoopTypes
<1>2. FlagTypes'
  BY DropTyped DEF FlagTypes
<1>3. OthersSame(r)
  BY FailTyped, DropTyped DEF OthersSame
<1>4. Control(r)'
  BY FailTyped DEF Control, InHand
<1> QED BY <1>1, <1>2, <1>3, <1>4, ControlOthers

\* the pending nonce of an account is a natural number
LEMMA PendingTyped ==
    ASSUME WorldTypes, NEW r \in Relayers
    PROVE  PendingNonce(r) \in Nat /\ IsFiniteSet(PoolOf(r))
<1>1. IsFiniteSet(PoolOf(r))
  <2>1. PoolOf(r) \in SUBSET pool
    BY DEF PoolOf
  <2> QED BY <2>1, FS_Subset DEF WorldTypes
<1>2. Cardinality(PoolOf(r)) \in Nat
  BY <1>1, FS_CardinalityType
<1> QED BY <1>1, <1>2 DEF WorldTypes, PendingNonce

\* a transaction taken by the mempool
LEMMA AdmitTyped ==
    ASSUME WorldTypes, NEW t \in Txs, Admit(t)
    PROVE  pool' \subseteq Txs /\ IsFiniteSet(pool')
<1> DEFINE kept == {u \in pool : u.from # t.from \/ u.seq # t.seq}
<1>1. kept \in SUBSET pool /\ pool' = kept \union {t}
  BY DEF Admit
<1>2. IsFiniteSet(kept) /\ kept \subseteq Txs
  BY <1>1, FS_Subset DEF WorldTypes
<1> QED BY <1>1, <1>2, FS_AddElement

LEMMA TypeStep ==
    ASSUME Typed, NEW r \in Relayers, Step(r) \/ Signal(r) \/ Restart(r)
    PROVE  Typed'
<1> USE ConstantAssumption DEF Typed
<1> USE DEF chainVars, contractVars, loopVars, workVars, histVars, stopVars, budgetVars
<1>c. Control(r)
  BY DEF Controlled
<1>1. CASE Tick(r) \/ Retry(r) \/ Wake(r) \/ Stop(r) \/ Signal(r)
  <2>1. LoopTypes' /\ OthersSame(r)
    BY <1>1, <1>c DEF Tick, Retry, Wake, Stop, Signal, LoopTypes, OthersSame, Control, PCs
  <2>2. FlagTypes'
    BY <1>1 DEF Tick, Retry, Wake, Stop, Signal, FlagTypes
  <2>3. Control(r)'
    BY <1>1, <1>c DEF Tick, Retry, Wake, Stop, Signal, LoopTypes, Control, InHand
  <2>4. latest \in 0..MaxNonce
    BY DEF WorldTypes, Nonces
  <2>5. RecordTypes'
    BY <1>1, <2>4 DEF Tick, Retry, Wake, Stop, Signal, RecordTypes
  <2>6. WorldTypes'
    <3>1. /\ UNCHANGED <<chainVars, contractVars, budgetVars, restarts>>
          /\ stops' \in {stops, stops + 1}
      BY <1>1 DEF Tick, Retry, Wake, Stop, Signal
    <3> QED BY <3>1 DEF WorldTypes
  <2> QED BY <2>1, <2>2, <2>3, <2>5, <2>6, ControlOthers
<1>2. CASE Check(r)
  <2>1. WorldTypes' /\ RecordTypes' /\ FlagTypes'
    BY <1>2 DEF Check, CallErrs, CallFails, WorldTypes, RecordTypes, FlagTypes
  <2>2. CASE Fail(r) /\ UNCHANGED <<tries, target>>
    <3>1. LoopTypes' /\ OthersSame(r) /\ Control(r)'
      BY <1>2, <2>2, FailTyped DEF Check, LoopTypes, OthersSame, Control, InHand
    <3> QED BY <2>1, <3>1, ControlOthers
  <2>3. CASE ~(Fail(r) /\ UNCHANGED <<tries, target>>)
    <3>1. cNonce < latest => cNonce + 1 \in StartNonce + 1 .. MaxNonce
      BY DEF WorldTypes, Nonces
    <3>2. LoopTypes' /\ OthersSame(r)
      BY <1>2, <2>3, <3>1 DEF Check, LoopTypes, OthersSame, PCs
    <3>3. Control(r)'
      BY <1>2, <2>3, <3>1 DEF Check, LoopTypes, Control, InHand
    <3> QED BY <2>1, <3>2, <3>3, ControlOthers
  <2> QED BY <1>2, <2>2, <2>3 DEF Check
<1>3. CASE Prepare(r)
  <2>1. WorldTypes' /\ RecordTypes'
    BY <1>3 DEF Prepare, CallErrs, CallFails, WorldTypes, RecordTypes
  <2>2. CASE Fail(r) /\ Drop(r)
    BY <1>3, <2>1, <2>2, TypeFailure DEF Prepare
  <2>3. CASE ~(Fail(r) /\ Drop(r))
    <3>1. target[r] \in StartNonce + 1 .. MaxNonce /\ target[r] \in Nat /\ target[r] > 1
      BY <1>3, <1>c DEF Prepare, Control
    <3>2. FoundValset(r) \subseteq Valsets
      BY <3>1, PreviousIsLatest DEF FoundValset, P2PValsets
    <3>3. PICK v \in Valsets :
            /\ valset' = [valset EXCEPT ![r] = v] /\ seq' = [seq EXCEPT ![r] = PendingNonce(r)]
            /\ pc' = [pc EXCEPT ![r] = "gather"]
            /\ UNCHANGED <<tries, mayRelay, stopping, target, tx, receipt, waits>>
      BY <1>3, <2>3, <3>2 DEF Prepare
    <3>4. LoopTypes' /\ OthersSame(r) /\ FlagTypes'
      BY <3>3, PendingTyped DEF LoopTypes, OthersSame, PCs, FlagTypes
    <3>5. Control(r)'
      BY <3>1, <3>3 DEF LoopTypes, Control
    <3> QED BY <2>1, <3>4, <3>5, ControlOthers
  <2> QED BY <2>2, <2>3
<1>g. CASE Gather(r)
  <2>1. WorldTypes' /\ RecordTypes'
    BY <1>g DEF Gather, GiveUp, Found, CallErrs, CallFails, WorldTypes, RecordTypes
  <2>2. CASE GiveUp(r)
    BY <2>1, <2>2, TypeFailure DEF GiveUp
  <2>3. CASE Found(r)
    <3>1. LoopTypes' /\ OthersSame(r) /\ FlagTypes'
      BY <2>3 DEF Found, LoopTypes, OthersSame, PCs, FlagTypes
    <3>2. Control(r)'
      BY <1>c, <2>3 DEF Found, LoopTypes, Control, InHand
    <3> QED BY <2>1, <3>1, <3>2, ControlOthers
  <2> QED BY <1>g, <2>2, <2>3 DEF Gather
<1>s. CASE Save(r)
  <2>1. target[r] \in Nonces
    BY <1>s, <1>c DEF Save, Control, Nonces
  <2>2. WorldTypes' /\ RecordTypes'
    BY <1>s, <2>1 DEF Save, Stored, CallErrs, CallFails, WorldTypes, RecordTypes
  <2>3. CASE Fail(r) /\ Drop(r)
    BY <1>s, <2>2, <2>3, TypeFailure DEF Save
  <2>4. CASE ~(Fail(r) /\ Drop(r))
    <3>1. LoopTypes' /\ OthersSame(r) /\ FlagTypes'
      BY <1>s, <2>4 DEF Save, LoopTypes, OthersSame, PCs, FlagTypes
    <3>2. Control(r)'
      BY <1>s, <1>c, <2>4 DEF Save, LoopTypes, Control, InHand
    <3> QED BY <2>2, <3>1, <3>2, ControlOthers
  <2> QED BY <2>3, <2>4
<1>4. CASE Submit(r)
  <2>1. target[r] \in StartNonce + 1 .. MaxNonce /\ target[r] \in Nat /\ target[r] > 1
        /\ target[r] \in Nonces /\ valset[r] \in Valsets
    BY <1>4, <1>c DEF Submit, Control, InHand, Nonces
  <2>2. SubmittedValset(r) \in Valsets
    BY <2>1, PreviousIsLatest DEF SubmittedValset
  <2>3. \A p \in 1..MaxPrice : Submission(r, p) \in Txs /\ Submission(r, p).from = r
    BY <2>1, <2>2 DEF Submission, Txs, LoopTypes
  <2>4. RecordTypes'
    BY <1>4 DEF Submit, RecordTypes
  <2>5. WorldTypes'
    <3>1. pool' = pool \/ \E p \in 1..MaxPrice : Admit(Submission(r, p))
      BY <1>4 DEF Submit
    <3>2. pool' \subseteq Txs /\ IsFiniteSet(pool')
      BY <2>3, <3>1, AdmitTyped DEF WorldTypes
    <3> QED BY <1>4, <3>2 DEF Submit, CallErrs, CallFails, WorldTypes
  <2>6. CASE Fail(r) /\ Drop(r)
    BY <1>4, <2>4, <2>5, <2>6, TypeFailure DEF Submit
  <2>7. CASE ~(Fail(r) /\ Drop(r))
    <3>1. PICK p \in 1..MaxPrice : tx' = [tx EXCEPT ![r] = Submission(r, p)]
      BY <1>4, <2>7 DEF Submit
    <3>2. /\ pc' = [pc EXCEPT ![r] = "wait"]
          /\ UNCHANGED <<tries, mayRelay, target, valset, seq, receipt, waits, budgetVars>>
      BY <1>4, <2>7 DEF Submit
    <3>4. LoopTypes' /\ OthersSame(r) /\ FlagTypes'
      BY <1>4, <2>3, <3>1, <3>2 DEF Submit, LoopTypes, OthersSame, PCs, FlagTypes
    <3>5. Control(r)'
      BY <2>1, <2>3, <3>1, <3>2 DEF LoopTypes, Control, InHand
    <3> QED BY <2>4, <2>5, <3>4, <3>5, ControlOthers
  <2> QED BY <2>6, <2>7
<1>5. CASE Mined(r)
  <2>1. target[r] \in Nonces
    BY <1>5, <1>c DEF Mined, Control, Nonces
  <2>2. WorldTypes' /\ RecordTypes'
    BY <1>5, <2>1 DEF Mined, WorldTypes, RecordTypes
  <2>3. LoopTypes' /\ OthersSame(r)
    BY <1>5, DropTyped DEF Mined, LoopTypes, OthersSame, PCs
  <2>4. FlagTypes'
    BY <1>5, DropTyped DEF Mined, FlagTypes
  <2>5. Control(r)'
    BY <1>5 DEF Mined, LoopTypes, Control, InHand
  <2> QED BY <2>2, <2>3, <2>4, <2>5, ControlOthers
<1>6. CASE WaitFails(r)
  <2>1. WorldTypes' /\ RecordTypes'
    BY <1>6 DEF WaitFails, CallErrs, CallFails, WorldTypes, RecordTypes
  <2> QED BY <1>6, <2>1, TypeFailure DEF WaitFails
<1>7. CASE WaitTimesOut(r)
  <2>1. tx[r] \in Txs
    BY <1>7, <1>c DEF WaitTimesOut, Control
  <2>2. PICK p \in 1..MaxPrice : pool' = pool \/ Admit([tx[r] EXCEPT !.price = p])
    BY <1>7 DEF WaitTimesOut
  <2>3. [tx[r] EXCEPT !.price = p] \in Txs
    BY <2>1 DEF Txs
  <2>4. WorldTypes' /\ RecordTypes'
    BY <1>7, <2>2, <2>3, AdmitTyped DEF WaitTimesOut, WorldTypes, RecordTypes
  <2>5. CASE Fail(r) /\ Drop(r)
    BY <1>7, <2>4, <2>5, TypeFailure DEF WaitTimesOut
  <2>6. CASE ~(Fail(r) /\ Drop(r))
    <3>1. /\ waits[r] + 1 < Waits /\ waits' = [waits EXCEPT ![r] = @ + 1]
          /\ UNCHANGED <<pc, tries, mayRelay, stopping, target, valset, seq, tx, receipt>>
      BY <1>7, <2>6 DEF WaitTimesOut
    <3>2. LoopTypes' /\ FlagTypes' /\ OthersSame(r) /\ Control(r)'
      BY <1>c, <3>1 DEF LoopTypes, FlagTypes, OthersSame, Control
    <3> QED BY <2>4, <3>2, ControlOthers
  <2> QED BY <2>5, <2>6
<1>8. CASE Restart(r)
  <2>1. WorldTypes' /\ RecordTypes'
    BY <1>8 DEF Restart, WorldTypes, RecordTypes
  <2>2. LoopTypes' /\ OthersSame(r)
    BY <1>8, DropTyped DEF Restart, LoopTypes, OthersSame, PCs
  <2>3. FlagTypes'
    BY <1>8, DropTyped DEF Restart, FlagTypes
  <2>4. Control(r)'
    BY <1>8 DEF Restart, LoopTypes, Control, InHand
  <2> QED BY <2>1, <2>2, <2>3, <2>4, ControlOthers
<1> QED BY <1>1, <1>2, <1>3, <1>g, <1>s, <1>4, <1>5, <1>6, <1>7, <1>8 DEF Step

\* a step of one relayer leaves the programs of the others alone
LEMMA StepOthers ==
    ASSUME Typed, NEW r \in Relayers, Step(r) \/ Signal(r) \/ Restart(r)
    PROVE  OthersSame(r)
<1> USE DEF Typed, loopVars, workVars
<1>1. Fail(r) => \A q \in Relayers \ {r} : pc'[q] = pc[q]
  BY FailTyped
<1>2. Drop(r) => \A q \in Relayers \ {r} : /\ target'[q] = target[q] /\ valset'[q] = valset[q]
                                          /\ seq'[q] = seq[q] /\ tx'[q] = tx[q]
  BY DropTyped
<1>3. CASE Tick(r) \/ Retry(r) \/ Check(r) \/ Wake(r) \/ Stop(r) \/ Signal(r)
  BY <1>1, <1>3 DEF Stop, Signal, Tick, Retry, Check, Wake, LoopTypes, OthersSame
<1>4. CASE Prepare(r)
  BY <1>1, <1>2, <1>4 DEF Prepare, LoopTypes, OthersSame
<1>5. CASE Gather(r) \/ Save(r) \/ Submit(r)
  BY <1>1, <1>2, <1>5 DEF Gather, GiveUp, Found, Save, Submit, LoopTypes, OthersSame
<1>6. CASE Mined(r) \/ WaitFails(r) \/ Restart(r)
  BY <1>1, <1>2, <1>6 DEF Mined, WaitFails, Restart, LoopTypes, OthersSame
<1>7. CASE WaitTimesOut(r)
  BY <1>1, <1>2, <1>7 DEF WaitTimesOut, LoopTypes, OthersSame
<1> QED BY <1>3, <1>4, <1>5, <1>6, <1>7 DEF Step

LEMMA TypedNext == ASSUME Typed, [Next]_vars PROVE Typed'
<1>1. CASE UNCHANGED vars
  BY <1>1 DEF vars, chainVars, contractVars, loopVars, workVars, histVars, stopVars, budgetVars,
     Typed, WorldTypes, FlagTypes, LoopTypes, RecordTypes, Controlled, Control
<1> QED BY <1>1, TypeExternal, TypeStep DEF Next

LEMMA TypedInvariant == Spec => []Typed
BY TypedNext, InitTyped, PTL DEF Spec

\* The state keeps its types and no attempt of the Retrier goes beyond the last,
\* for every set of relayers (relayer.go, helpers/retrier.go).
THEOREM TypeCorrect == Spec => []TypeOK
BY TypedInvariant, TypedImpliesTypeOK, PTL

-----------------------------------------------------------------------------
(* What every step does.                                                   *)

\* A step never takes back what the contract accepted or what was signed or saved.
LEMMA OnlyForward ==
    ASSUME Typed, [Next]_vars
    PROVE  /\ cNonce \in Nat /\ cNonce' \in Nat /\ cNonce <= cNonce' /\ quorum \subseteq quorum'
           /\ \A r \in Relayers : saved[r] \subseteq saved'[r]
<1> USE ConstantAssumption DEF chainVars, contractVars, loopVars, workVars, histVars, stopVars, budgetVars
<1>0. cNonce \in Nat /\ saved \in [Relayers -> SUBSET Nonces]
  BY DEF Typed, WorldTypes, RecordTypes
<1>1. CASE External
  <2>1. saved' = saved /\ quorum \subseteq quorum' /\ cNonce' \in {cNonce, cNonce + 1}
    BY <1>1 DEF External, Attest, Prune, Sign, Mine, MineAs
  <2> QED BY <1>0, <2>1
<1>2. ASSUME NEW r \in Relayers, Step(r) \/ Signal(r) \/ Restart(r)
      PROVE  /\ UNCHANGED <<cNonce, quorum>>
             /\ \A q \in Relayers : saved[q] \subseteq saved'[q]
  <2>1. UNCHANGED <<cNonce, quorum>>
    BY <1>2 DEF Step, Stop, Signal, Tick, Retry, Check, Wake, Prepare, Gather, GiveUp, Found, Save, Submit, Mined, WaitFails, WaitTimesOut, Restart
  <2>2. UNCHANGED saved \/ Stored(r)
    BY <1>2 DEF Step, Stop, Signal, Tick, Retry, Check, Wake, Prepare, Gather, GiveUp, Found, Save, Submit, Mined, WaitFails, WaitTimesOut, Restart
  <2> QED BY <1>0, <2>1, <2>2 DEF Stored
<1>3. CASE UNCHANGED vars
  BY <1>0, <1>3 DEF vars
<1> QED BY <1>0, <1>1, <1>2, <1>3 DEF Next

\* where the transactions of the mempool come from
LEMMA PoolOrigin ==
    ASSUME [Next]_vars, NEW t \in pool'
    PROVE  \/ t \in pool
           \/ \E r \in Relayers, p \in 1..MaxPrice : Submit(r) /\ t = Submission(r, p)
           \/ \E r \in Relayers, p \in 1..MaxPrice :
                 WaitTimesOut(r) /\ t = [tx[r] EXCEPT !.price = p]
<1> USE DEF chainVars, contractVars, loopVars, workVars, histVars, stopVars, budgetVars
<1>1. CASE External \/ UNCHANGED vars
  BY <1>1 DEF External, Attest, Prune, Sign, Mine, MineAs, vars
<1>2. ASSUME NEW r \in Relayers, Step(r) \/ Signal(r) \/ Restart(r), ~Submit(r), ~WaitTimesOut(r)
      PROVE  pool' = pool
  BY <1>2 DEF Step, Stop, Signal, Tick, Retry, Check, Wake, Prepare, Gather, GiveUp, Found, Save, Mined,
     WaitFails, Restart
<1>3. ASSUME NEW r \in Relayers, Submit(r), t \notin pool
      PROVE  \E p \in 1..MaxPrice : t = Submission(r, p)
  <2>1. \E p \in 1..MaxPrice : Admit(Submission(r, p))
    BY <1>3 DEF Submit
  <2> QED BY <1>3, <2>1 DEF Admit
<1>4. ASSUME NEW r \in Relayers, WaitTimesOut(r), t \notin pool
      PROVE  \E p \in 1..MaxPrice : t = [tx[r] EXCEPT !.price = p]
  <2>1. PICK p \in 1..MaxPrice : pool' = pool \/ Admit([tx[r] EXCEPT !.price = p])
    BY <1>4 DEF WaitTimesOut
  <2> QED BY <1>4, <2>1 DEF Admit
<1> QED BY <1>1, <1>2, <1>3, <1>4 DEF Next

\* where a relayer that waits comes from, and the transaction it waits for
LEMMA WaitOrigin ==
    ASSUME Typed, [Next]_vars, NEW r \in Relayers, pc'[r] = "wait"
    PROVE  \/ pc[r] = "wait" /\ tx'[r] = tx[r]
           \/ \E p \in 1..MaxPrice :
                 Submit(r) /\ Admit(Submission(r, p)) /\ tx'[r] = Submission(r, p)
<1> USE DEF chainVars, contractVars, loopVars, workVars, histVars, stopVars, budgetVars, Typed
<1>1. CASE External \/ UNCHANGED vars
  BY <1>1 DEF External, Attest, Prune, Sign, Mine, MineAs, vars
<1>2. ASSUME NEW q \in Relayers, Step(q) \/ Signal(q) \/ Restart(q), q # r
      PROVE  pc[r] = "wait" /\ tx'[r] = tx[r]
  <2>1. OthersSame(q)
    BY <1>2, StepOthers
  <2> QED BY <1>2, <2>1 DEF OthersSame
<1>3. CASE Submit(r)
  <2>1. Fail(r) => pc'[r] # "wait"
    BY FailTyped
  <2>2. PICK p \in 1..MaxPrice :
          Admit(Submission(r, p)) /\ tx' = [tx EXCEPT ![r] = Submission(r, p)]
    BY <1>3, <2>1 DEF Submit
  <2> QED BY <1>3, <2>2 DEF LoopTypes
<1>4. CASE WaitTimesOut(r)
  BY <1>4, FailTyped DEF WaitTimesOut
<1>5. CASE (Step(r) \/ Signal(r) \/ Restart(r)) /\ ~Submit(r) /\ ~WaitTimesOut(r)
  <2>1. Fail(r) => pc'[r] # "wait"
    BY FailTyped
  <2> QED BY <1>5, <2>1 DEF Step, Stop, Signal, Tick, Retry, Check, Wake, Prepare, Gather, GiveUp, Found,
        Save, Mined, WaitFails, Restart, LoopTypes
<1> QED BY <1>1, <1>2, <1>3, <1>4, <1>5 DEF Next

-----------------------------------------------------------------------------
(* What is submitted for the contract's next nonce is accepted.            *)

\* the contract is past the attestation, or accepts it with this set when it comes
Backed(att, v) == att <= cNonce \/ (v = PreviousValset(att) /\ att \in quorum)

\* The inductive invariant: a relayer's target is at most the contract's next
\* nonce from the moment it is chosen; if the contract does not move on, the set
\* found is the right one, so that the quorum is the right one too; and what is
\* stored and submitted was found with that set.
AcceptInv ==
    /\ \A t \in pool : Backed(t.att, t.valset)
    /\ \A r \in Relayers :
         /\ pc[r] = "prepare" => target[r] <= cNonce + 1
         /\ pc[r] \in InHand => target[r] <= cNonce \/ valset[r] = PreviousValset(target[r])
         /\ pc[r] \in {"save", "submit"} => TwoThirdsFound(r)
         /\ pc[r] = "wait" => Backed(tx[r].att, tx[r].valset)

\* what is backed stays backed
LEMMA BackedStays ==
    ASSUME Typed, [Next]_vars, NEW a \in Nat, NEW v, Backed(a, v)
    PROVE  a <= cNonce' \/ (v = PreviousValset(a) /\ a \in quorum')
BY OnlyForward DEF Backed

LEMMA SubmissionBacked ==
    ASSUME Typed, [Next]_vars, AcceptInv, NEW r \in Relayers, Submit(r),
           NEW p \in 1..MaxPrice
    PROVE  \/ Submission(r, p).att <= cNonce'
           \/ /\ Submission(r, p).valset = PreviousValset(Submission(r, p).att)
              /\ Submission(r, p).att \in quorum'
<1>1. /\ Submission(r, p).att = target[r] /\ Submission(r, p).valset = SubmittedValset(r)
      /\ pc[r] = "submit" /\ target[r] \in Nat
  BY DEF Submission, Submit, Typed, LoopTypes
<1>2. (target[r] <= cNonce \/ valset[r] = PreviousValset(target[r])) /\ TwoThirdsFound(r)
  BY <1>1 DEF AcceptInv, InHand
<1>3. Backed(target[r], SubmittedValset(r))
  BY <1>2 DEF Backed, TwoThirdsFound, SubmittedValset
<1> QED BY <1>1, <1>3, BackedStays

\* the control state "prepare" comes from Check, "gather" from Prepare, "save" and
\* "submit" from the ones before, with the same things in hand
LEMMA WorkOrigin ==
    ASSUME Typed, [Next]_vars, NEW r \in Relayers
    PROVE  /\ pc'[r] = "prepare" =>
                \/ pc[r] = "prepare" /\ target'[r] = target[r]
                \/ target'[r] = cNonce + 1
           /\ pc'[r] \in InHand =>
                \/ /\ pc[r] \in InHand /\ target'[r] = target[r] /\ valset'[r] = valset[r]
                   /\ seq'[r] = seq[r]
                   /\ pc'[r] = "gather" \/ pc[r] \in {"save", "submit"} \/ TwoThirdsFound(r)
                \/ /\ pc'[r] = "gather" /\ pc[r] = "prepare" /\ target'[r] = target[r] /\ valset'[r] \in FoundValset(r)
                   /\ seq'[r] = PendingNonce(r) /\ Prepare(r) /\ UNCHANGED <<pool, account>>
<1> USE DEF chainVars, contractVars, loopVars, workVars, histVars, stopVars, budgetVars, Typed, InHand
<1>1. CASE External \/ UNCHANGED vars
  BY <1>1 DEF External, Attest, Prune, Sign, Mine, MineAs, vars
<1>2. CASE \E q \in Relayers \ {r} : Step(q) \/ Signal(q) \/ Restart(q)
  <2>1. PICK q \in Relayers \ {r} : OthersSame(q)
    BY <1>2, StepOthers
  <2> QED BY <2>1 DEF OthersSame
<1>f. Fail(r) => pc'[r] \in {"backoff", "exited"}
  BY FailTyped
<1>3. CASE Check(r)
  BY <1>3, <1>f DEF Check, LoopTypes
<1>4. CASE Prepare(r)
  BY <1>4, <1>f DEF Prepare, LoopTypes
<1>5. CASE Gather(r) \/ Save(r)
  BY <1>5, <1>f DEF Gather, GiveUp, Found, Save, LoopTypes
<1>6. CASE Submit(r)
  BY <1>6, <1>f DEF Submit, LoopTypes
<1>7. CASE (Step(r) \/ Signal(r) \/ Restart(r)) /\ ~Check(r) /\ ~Prepare(r) /\ ~Gather(r) /\ ~Save(r)
           /\ ~Submit(r)
  BY <1>7, <1>f DEF Step, Stop, Signal, Tick, Retry, Wake, Mined, WaitFails, WaitTimesOut, Restart, LoopTypes
<1> QED BY <1>1, <1>2, <1>3, <1>4, <1>5, <1>6, <1>7 DEF Next

LEMMA AcceptNext == ASSUME Typed, AcceptInv, [Next]_vars PROVE AcceptInv'
<1>0. cNonce \in Nat /\ cNonce' \in Nat /\ cNonce <= cNonce'
  BY OnlyForward
<1>1. ASSUME NEW t \in pool' PROVE Backed(t.att, t.valset)'
  <2>1. CASE t \in pool
    <3>1. t.att \in Nat /\ Backed(t.att, t.valset)
      BY <2>1 DEF AcceptInv, Typed, WorldTypes, Txs, Nonces
    <3> QED BY <3>1, BackedStays DEF Backed
  <2>2. ASSUME NEW r \in Relayers, NEW p \in 1..MaxPrice, Submit(r),
               t = Submission(r, p)
        PROVE  Backed(t.att, t.valset)'
    BY <2>2, SubmissionBacked DEF Backed
  <2>3. ASSUME NEW r \in Relayers, NEW p \in 1..MaxPrice, WaitTimesOut(r),
               t = [tx[r] EXCEPT !.price = p]
        PROVE  Backed(t.att, t.valset)'
    <3>1. tx[r] \in Txs /\ Backed(tx[r].att, tx[r].valset)
      BY <2>3 DEF WaitTimesOut, AcceptInv, Typed, Controlled, Control
    <3>2. t.att = tx[r].att /\ t.valset = tx[r].valset /\ tx[r].att \in Nat
      BY <2>3, <3>1 DEF Txs, Nonces
    <3> QED BY <3>1, <3>2, BackedStays DEF Backed
  <2> QED BY <2>1, <2>2, <2>3, PoolOrigin
<1>2. ASSUME NEW r \in Relayers
      PROVE  /\ pc'[r] = "prepare" => target'[r] <= cNonce' + 1
             /\ pc'[r] \in InHand => target'[r] <= cNonce' \/ valset'[r] = PreviousValset(target'[r])
             /\ pc'[r] \in {"save", "submit"} => TwoThirdsFound(r)'
  <2>0. target[r] \in Nat
    BY DEF Typed, LoopTypes
  <2>1. ASSUME pc'[r] = "prepare" PROVE target'[r] <= cNonce' + 1
    BY <1>0, <2>0, <2>1, WorkOrigin DEF AcceptInv
  <2>2. ASSUME pc'[r] \in InHand
        PROVE  target'[r] <= cNonce' \/ valset'[r] = PreviousValset(target'[r])
    <3>1. CASE pc[r] \in InHand /\ target'[r] = target[r] /\ valset'[r] = valset[r]
      BY <1>0, <2>0, <3>1 DEF AcceptInv
    <3>2. CASE pc[r] = "prepare" /\ target'[r] = target[r] /\ valset'[r] \in FoundValset(r)
      <4>1. target[r] <= cNonce + 1
        BY <3>2 DEF AcceptInv
      <4>2. valset'[r] = PreviousValset(target[r]) \/ valset'[r] = PreviousValset(cNonce + 1)
        BY <3>2 DEF FoundValset, P2PValsets, Checkpoint
      <4>3. target[r] = cNonce + 1 \/ target[r] <= cNonce
        BY <1>0, <2>0, <4>1
      <4> QED BY <1>0, <2>0, <3>2, <4>2, <4>3
    <3> QED BY <2>2, <3>1, <3>2, WorkOrigin
  <2>3. ASSUME pc'[r] \in {"save", "submit"} PROVE TwoThirdsFound(r)'
    <3>1. /\ target'[r] = target[r] /\ valset'[r] = valset[r]
          /\ pc[r] \in {"save", "submit"} \/ TwoThirdsFound(r)
      BY <2>3, WorkOrigin DEF InHand
    <3>2. TwoThirdsFound(r) /\ quorum \subseteq quorum'
      BY <3>1, OnlyForward DEF AcceptInv
    <3> QED BY <3>1, <3>2 DEF TwoThirdsFound
  <2> QED BY <2>1, <2>2, <2>3
<1>3. ASSUME NEW r \in Relayers, pc'[r] = "wait"
      PROVE  Backed(tx[r].att, tx[r].valset)'
  <2>1. CASE pc[r] = "wait" /\ tx'[r] = tx[r]
    <3>1. tx[r].att \in Nat /\ Backed(tx[r].att, tx[r].valset)
      BY <2>1 DEF AcceptInv, Typed, Controlled, Control, Txs, Nonces
    <3> QED BY <2>1, <3>1, BackedStays DEF Backed
  <2>2. ASSUME NEW p \in 1..MaxPrice, Submit(r), tx'[r] = Submission(r, p)
        PROVE  Backed(tx[r].att, tx[r].valset)'
    BY <2>2, SubmissionBacked DEF Backed
  <2> QED BY <1>3, <2>1, <2>2, WaitOrigin
<1> QED BY <1>1, <1>2, <1>3 DEF AcceptInv

LEMMA AcceptInvariant == Spec => []AcceptInv
<1>1. Init => AcceptInv
  BY DEF Init, AcceptInv, InHand
<1> QED BY <1>1, AcceptNext, TypedInvariant, PTL DEF Spec

LEMMA AcceptedInv == Typed /\ AcceptInv => NextIsAccepted
<1> SUFFICES ASSUME Typed, AcceptInv, NEW t \in pool, t.att = cNonce + 1 PROVE Accepts(t)
  BY DEF NextIsAccepted
<1>1. cNonce \in Nat
  BY ConstantAssumption DEF Typed, WorldTypes
<1>2. Backed(t.att, t.valset)
  BY DEF AcceptInv
<1> QED BY <1>1, <1>2 DEF Backed, Accepts, Checkpoint

\* Whichever of its three sources a relayer got the validator set from, and
\* whatever the other relayers did since, the contract does not reject the
\* transaction for its next nonce (ProcessAttestation, UpdateValidatorSet,
\* SubmitDataRootTupleRoot).
THEOREM NextSubmissionIsAccepted == Spec => []NextIsAccepted
BY AcceptInvariant, TypedInvariant, AcceptedInv, PTL

-----------------------------------------------------------------------------
(* What is submitted is saved.                                             *)

\* The inductive invariant: between the search and the submission the target stays,
\* and what was stored for it is not lost.
SavedInv ==
    /\ SubmittedIsSaved
    /\ \A r \in Relayers : pc[r] = "submit" => target[r] \in saved[r]
    /\ \A r \in Relayers : pc[r] = "wait" => tx[r].att \in saved[r]

\* the control state "submit" comes from the store
LEMMA SubmitOrigin ==
    ASSUME Typed, [Next]_vars, NEW r \in Relayers, pc'[r] = "submit"
    PROVE  /\ target'[r] = target[r]
           /\ pc[r] = "submit" \/ (pc[r] = "save" /\ Stored(r))
<1> USE DEF chainVars, contractVars, loopVars, workVars, histVars, stopVars, budgetVars, Typed
<1>1. CASE External \/ UNCHANGED vars
  BY <1>1 DEF External, Attest, Prune, Sign, Mine, MineAs, vars
<1>2. CASE \E q \in Relayers \ {r} : Step(q) \/ Signal(q) \/ Restart(q)
  <2>1. PICK q \in Relayers \ {r} : OthersSame(q)
    BY <1>2, StepOthers
  <2> QED BY <2>1 DEF OthersSame
<1>f. Fail(r) => pc'[r] \in {"backoff", "exited"}
  BY FailTyped
<1>3. CASE Save(r)
  BY <1>3, <1>f DEF Save
<1>4. CASE Gather(r) \/ Submit(r)
  BY <1>4, <1>f DEF Gather, GiveUp, Found, Submit, LoopTypes
<1>5. CASE (Step(r) \/ Signal(r) \/ Restart(r)) /\ ~Save(r) /\ ~Gather(r) /\ ~Submit(r)
  BY <1>5, <1>f DEF Step, Stop, Signal, Tick, Retry, Check, Wake, Prepare, Mined, WaitFails, WaitTimesOut,
     Restart, LoopTypes
<1> QED BY <1>1, <1>2, <1>3, <1>4, <1>5 DEF Next

\* The signatures of every transaction in the mempool are in the SignatureStore of
\* the relayer that sent it: the store comes between the search and the submission
\* and is for the attestation that is submitted, whatever the other relayers and
\* the contract do meanwhile; a sped-up transaction is for the same attestation; and
\* the store survives a kill at any point.
THEOREM SubmissionIsSaved == Spec => []SubmittedIsSaved
<1>1. Init => SavedInv
  BY DEF Init, SavedInv, SubmittedIsSaved
<1>2. ASSUME Typed, SavedInv, [Next]_vars PROVE SavedInv'
  <2>s. ASSUME NEW r \in Relayers, NEW p \in 1..MaxPrice, Submit(r)
        PROVE  /\ Submission(r, p).att \in saved'[r] /\ Submission(r, p).from = r
    <3>1. target[r] \in saved[r] /\ saved[r] \subseteq saved'[r]
      BY <1>2, <2>s, OnlyForward DEF Submit, SavedInv
    <3> QED BY <3>1 DEF Submission
  <2>1. ASSUME NEW t \in pool' PROVE t.att \in saved'[t.from]
    <3>1. CASE t \in pool
      <4>1. t.from \in Relayers /\ t.att \in saved[t.from]
        BY <1>2, <3>1 DEF SavedInv, SubmittedIsSaved, Typed, WorldTypes, Txs
      <4> QED BY <1>2, <4>1, OnlyForward
    <3>2. ASSUME NEW r \in Relayers, NEW p \in 1..MaxPrice, Submit(r), t = Submission(r, p)
          PROVE  t.att \in saved'[t.from]
      BY <2>s, <3>2
    <3>3. ASSUME NEW r \in Relayers, NEW p \in 1..MaxPrice, WaitTimesOut(r),
                 t = [tx[r] EXCEPT !.price = p]
          PROVE  t.att \in saved'[t.from]
      <4>1. tx[r] \in Txs /\ tx[r].from = r /\ tx[r].att \in saved[r]
        BY <1>2, <3>3 DEF WaitTimesOut, SavedInv, Typed, Controlled, Control
      <4>2. t.att = tx[r].att /\ t.from = r
        BY <3>3, <4>1 DEF Txs
      <4> QED BY <1>2, <4>1, <4>2, OnlyForward
    <3> QED BY <1>2, <3>1, <3>2, <3>3, PoolOrigin
  <2>2. ASSUME NEW r \in Relayers, pc'[r] = "wait" PROVE tx'[r].att \in saved'[r]
    <3>1. CASE pc[r] = "wait" /\ tx'[r] = tx[r]
      BY <1>2, <3>1, OnlyForward DEF SavedInv
    <3>2. ASSUME NEW p \in 1..MaxPrice, Submit(r), tx'[r] = Submission(r, p)
          PROVE  tx'[r].att \in saved'[r]
      BY <2>s, <3>2
    <3> QED BY <1>2, <2>2, <3>1, <3>2, WaitOrigin
  <2>3. ASSUME NEW r \in Relayers, pc'[r] = "submit" PROVE target'[r] \in saved'[r]
    <3>1. target'[r] = target[r] /\ (pc[r] = "submit" \/ (pc[r] = "save" /\ Stored(r)))
      BY <1>2, <2>3, SubmitOrigin
    <3>2. CASE pc[r] = "submit"
      BY <1>2, <3>1, <3>2, OnlyForward DEF SavedInv
    <3>3. CASE Stored(r)
      BY <1>2, <3>1, <3>3 DEF Stored, Typed, RecordTypes
    <3> QED BY <3>1, <3>2, <3>3
  <2> QED BY <2>1, <2>2, <2>3 DEF SavedInv, SubmittedIsSaved
<1>3. SavedInv => SubmittedIsSaved
  BY DEF SavedInv
<1> QED BY <1>1, <1>2, <1>3, TypedInvariant, PTL DEF Spec

-----------------------------------------------------------------------------
(* The account nonce of a submission is free.                              *)

\* An account's transactions in the mempool take consecutive nonces, from the
\* account's own on: the pending nonce is the first free one.  A relayer that
\* gathers, stores or submits has read it, and has sent nothing since; one that waits has its
\* transaction, or a sped-up one, in the mempool until the nonce is used.
SeqInv(r) ==
    /\ \A t, u \in PoolOf(r) : t.seq = u.seq => t = u
    /\ \A t \in PoolOf(r) : account[r] <= t.seq /\ t.seq < PendingNonce(r)
    /\ pc[r] \in InHand => seq[r] = PendingNonce(r)
    /\ pc[r] = "wait" => tx[r].seq < account[r] \/ \E u \in PoolOf(r) : u.seq = tx[r].seq

Sequenced == \A r \in Relayers : SeqInv(r)

\* a step that leaves the account alone, and its mempool
LEMMA SeqUnchanged ==
    ASSUME Typed, [Next]_vars, NEW r \in Relayers, SeqInv(r),
           PoolOf(r)' = PoolOf(r), account'[r] = account[r],
           pc'[r] = "wait" => pc[r] = "wait" /\ tx'[r] = tx[r]
    PROVE  SeqInv(r)'
<1>1. PendingNonce(r)' = PendingNonce(r)
  BY DEF PendingNonce
<1>2. ASSUME pc'[r] \in InHand PROVE seq'[r] = PendingNonce(r)
  BY <1>2, WorkOrigin DEF SeqInv
<1> QED BY <1>1, <1>2 DEF SeqInv

LEMMA SeqMine ==
    ASSUME Typed, Sequenced, [Next]_vars, NEW t \in pool, Mine(t), NEW r \in Relayers
    PROVE  SeqInv(r)'
<1>0. /\ t \in Txs /\ t.from \in Relayers /\ t.seq = account[t.from]
      /\ account \in [Relayers -> Nat] /\ account' = [account EXCEPT ![t.from] = @ + 1]
      /\ pool' = {u \in pool : u.from # t.from \/ u.seq # t.seq}
      /\ UNCHANGED <<pc, tx, seq>>
  BY DEF Mine, MineAs, Typed, WorldTypes, Txs, loopVars
<1>s. SeqInv(r)
  BY DEF Sequenced
<1>1. CASE r # t.from
  <2>1. PoolOf(r)' = PoolOf(r) /\ account'[r] = account[r]
    BY <1>0, <1>1 DEF PoolOf
  <2>2. PendingNonce(r)' = PendingNonce(r)
    BY <2>1 DEF PendingNonce
  <2> QED BY <1>0, <1>s, <2>1, <2>2 DEF SeqInv
<1>2. CASE r = t.from
  <2>1. t \in PoolOf(r)
    BY <1>2 DEF PoolOf
  <2>2. PoolOf(r)' = PoolOf(r) \ {t}
    <3>1. PoolOf(r)' = {u \in PoolOf(r) : u.seq # t.seq}
      BY <1>0, <1>2 DEF PoolOf
    <3>2. \A u \in PoolOf(r) : u.seq # t.seq <=> u # t
      BY <1>s, <2>1 DEF SeqInv
    <3> QED BY <3>1, <3>2
  <2>3. /\ IsFiniteSet(PoolOf(r)) /\ Cardinality(PoolOf(r)) \in Nat
        /\ Cardinality(PoolOf(r)') = Cardinality(PoolOf(r)) - 1
    BY <2>1, <2>2, PendingTyped, FS_RemoveElement, FS_CardinalityType DEF Typed
  <2>4. /\ account[r] \in Nat /\ account'[r] = account[r] + 1
        /\ PendingNonce(r)' = PendingNonce(r)
    BY <1>0, <1>2, <2>3 DEF PendingNonce
  <2>5. \A u \in PoolOf(r) : u.seq \in Nat
    BY DEF PoolOf, Typed, WorldTypes, Txs
  <2>6. \A u \in PoolOf(r)' : account'[r] <= u.seq /\ u.seq < PendingNonce(r)'
    <3> SUFFICES ASSUME NEW u \in PoolOf(r), u # t
                 PROVE  account[r] + 1 <= u.seq /\ u.seq < PendingNonce(r)
      BY <2>2, <2>4
    <3>1. account[r] <= u.seq /\ u.seq < PendingNonce(r) /\ u.seq # account[r]
      BY <1>0, <1>2, <1>s, <2>1 DEF SeqInv
    <3> QED BY <2>4, <2>5, <3>1
  <2>7. ASSUME pc[r] = "wait"
        PROVE  tx[r].seq < account'[r] \/ \E u \in PoolOf(r)' : u.seq = tx[r].seq
    <3>1. tx[r].seq \in Nat
      BY <2>7 DEF Typed, Controlled, Control, Txs
    <3>2. CASE tx[r].seq < account[r] \/ tx[r].seq = account[r]
      BY <2>4, <3>1, <3>2
    <3>3. ASSUME NEW u \in PoolOf(r), u.seq = tx[r].seq, tx[r].seq # account[r]
          PROVE  u \in PoolOf(r)'
      BY <1>0, <1>2, <2>2, <3>3
    <3> QED BY <1>s, <2>7, <3>2, <3>3 DEF SeqInv
  <2> QED BY <1>0, <1>s, <2>2, <2>4, <2>6, <2>7 DEF SeqInv
<1> QED BY <1>1, <1>2

\* the first submission takes the pending nonce
LEMMA SeqSubmit ==
    ASSUME Typed, Sequenced, NEW r \in Relayers, pc[r] = "submit", NEW p \in 1..MaxPrice,
           Submission(r, p) \in Txs, Admit(Submission(r, p)), account' = account,
           pc'[r] \notin InHand, pc'[r] = "wait" => tx'[r] = Submission(r, p)
    PROVE  SeqInv(r)'
<1> DEFINE t == Submission(r, p)
<1>0. t.from = r /\ t.seq = seq[r] /\ seq[r] = PendingNonce(r)
      /\ PendingNonce(r) \in Nat /\ IsFiniteSet(PoolOf(r)) /\ account[r] \in Nat
  BY PendingTyped DEF Submission, Sequenced, SeqInv, InHand, Typed, WorldTypes
<1>s. SeqInv(r)
  BY DEF Sequenced
<1>1. \A u \in PoolOf(r) : u.seq \in Nat /\ u.seq # t.seq
  <2>1. \A u \in PoolOf(r) : u.seq \in Nat
    BY DEF PoolOf, Typed, WorldTypes, Txs
  <2> QED BY <1>0, <1>s, <2>1 DEF SeqInv
<1>2. PoolOf(r)' = PoolOf(r) \union {t} /\ t \notin PoolOf(r)
  BY <1>0, <1>1 DEF PoolOf, Admit
<1> HIDE DEF t
<1>3. Cardinality(PoolOf(r)') = Cardinality(PoolOf(r)) + 1 /\ Cardinality(PoolOf(r)) \in Nat
  BY <1>0, <1>2, FS_AddElement, FS_CardinalityType
<1>4. PendingNonce(r)' = PendingNonce(r) + 1 /\ account[r] <= PendingNonce(r)
  BY <1>0, <1>3 DEF PendingNonce
<1>5. \A u \in PoolOf(r)' : account'[r] <= u.seq /\ u.seq < PendingNonce(r)'
  BY <1>0, <1>1, <1>2, <1>4, <1>s DEF SeqInv
<1>6. \A u, w \in PoolOf(r)' : u.seq = w.seq => u = w
  BY <1>1, <1>2, <1>s DEF SeqInv
<1>7. pc'[r] = "wait" => \E u \in PoolOf(r)' : u.seq = tx'[r].seq
  BY <1>2 DEF t
<1> QED BY <1>5, <1>6, <1>7 DEF SeqInv

\* a sped-up transaction takes the place of the one before
LEMMA SeqSpeedUp ==
    ASSUME Typed, Sequenced, NEW r \in Relayers, pc[r] = "wait", NEW p \in 1..MaxPrice,
           Admits([tx[r] EXCEPT !.price = p]), Admit([tx[r] EXCEPT !.price = p]),
           account' = account, pc'[r] \notin InHand,
           pc'[r] = "wait" => tx'[r] = tx[r]
    PROVE  SeqInv(r)'
<1> DEFINE t == [tx[r] EXCEPT !.price = p]
<1>0. t \in Txs /\ t.from = r /\ t.seq = tx[r].seq /\ t.seq \in Nat
  BY DEF Typed, Controlled, Control, Txs
<1>s. SeqInv(r)
  BY DEF Sequenced
<1>1. Admits(t) /\ Admit(t) /\ account \in [Relayers -> Nat]
  BY DEF Typed, WorldTypes
<1> HIDE DEF t
<1>2. PICK u \in PoolOf(r) : u.seq = t.seq
  BY <1>0, <1>1, <1>s DEF SeqInv, Admits
<1>3. t \notin PoolOf(r)
  <2>1. \A w \in PoolOf(r) : w.seq = t.seq => w.price < t.price
    BY <1>0, <1>1 DEF Admits
  <2> QED BY <1>0, <2>1 DEF Txs
<1>4. PoolOf(r)' = (PoolOf(r) \ {u}) \union {t}
  <2>1. PoolOf(r)' = {w \in PoolOf(r) : w.seq # t.seq} \union {t}
    BY <1>0, <1>1 DEF PoolOf, Admit
  <2>2. \A w \in PoolOf(r) : w.seq # t.seq <=> w # u
    BY <1>2, <1>s DEF SeqInv
  <2> QED BY <2>1, <2>2
<1>5. IsFiniteSet(PoolOf(r)) /\ Cardinality(PoolOf(r)) \in Nat
  BY PendingTyped, FS_CardinalityType DEF Typed
<1>6. /\ IsFiniteSet(PoolOf(r) \ {u})
      /\ Cardinality(PoolOf(r) \ {u}) = Cardinality(PoolOf(r)) - 1
  BY <1>2, <1>5, FS_RemoveElement
<1>7. Cardinality(PoolOf(r)') = Cardinality(PoolOf(r))
  <2>1. t \notin PoolOf(r) \ {u}
    BY <1>3
  <2>2. Cardinality((PoolOf(r) \ {u}) \union {t}) = Cardinality(PoolOf(r) \ {u}) + 1
    BY <1>6, <2>1, FS_AddElement
  <2> QED BY <1>4, <1>5, <1>6, <2>2
<1>8. PendingNonce(r)' = PendingNonce(r)
  BY <1>7 DEF PendingNonce
<1>9. \A w \in PoolOf(r)' : account'[r] <= w.seq /\ w.seq < PendingNonce(r)'
  BY <1>2, <1>4, <1>8, <1>s DEF SeqInv
<1>10. \A v, w \in PoolOf(r)' : v.seq = w.seq => v = w
  BY <1>2, <1>4, <1>s DEF SeqInv
<1>11. t \in PoolOf(r)'
  BY <1>4
<1> QED BY <1>0, <1>9, <1>10, <1>11 DEF SeqInv

LEMMA SeqStep ==
    ASSUME Typed, Sequenced, [Next]_vars, NEW q \in Relayers, Step(q) \/ Signal(q) \/ Restart(q), NEW r \in Relayers
    PROVE  SeqInv(r)'
<1> USE DEF chainVars, contractVars, loopVars, workVars, histVars, stopVars, budgetVars
<1>s. SeqInv(r)
  BY DEF Sequenced
<1>0. account' = account /\ OthersSame(q)
  BY StepOthers DEF Step, Stop, Signal, Tick, Retry, Check, Wake, Prepare, Gather, GiveUp, Found, Save, Submit, Mined, WaitFails, WaitTimesOut, Restart
<1>1. CASE r # q
  <2>1. pc'[r] = pc[r] /\ tx'[r] = tx[r]
    BY <1>0, <1>1 DEF OthersSame
  <2>2. /\ \A t \in pool' : t.from = r => t \in pool
        /\ \A t \in pool : t.from = r => t \in pool'
    <3>1. ASSUME NEW t, Admit(t), t.from = q PROVE \A u : u.from = r => (u \in pool' <=> u \in pool)
      BY <1>1, <3>1 DEF Admit
    <3>2. \A p \in 1..MaxPrice : Submission(q, p).from = q
      BY DEF Submission
    <3>3. CASE Submit(q)
      <4>1. pool' = pool \/ \E p \in 1..MaxPrice : Admit(Submission(q, p))
        BY <3>3 DEF Submit
      <4> QED BY <3>1, <3>2, <4>1
    <3>4. CASE WaitTimesOut(q)
      <4>1. \A p \in 1..MaxPrice : [tx[q] EXCEPT !.price = p].from = q
        BY <3>4 DEF WaitTimesOut, Typed, Controlled, Control, Txs
      <4>2. pool' = pool \/ \E p \in 1..MaxPrice : Admit([tx[q] EXCEPT !.price = p])
        BY <3>4 DEF WaitTimesOut
      <4> QED BY <3>1, <4>1, <4>2
    <3>5. CASE ~Submit(q) /\ ~WaitTimesOut(q)
      BY <3>5 DEF Step, Stop, Signal, Tick, Retry, Check, Wake, Prepare, Gather, GiveUp, Found, Save,
         Mined, WaitFails, Restart
    <3> QED BY <3>3, <3>4, <3>5
  <2>3. PoolOf(r)' = PoolOf(r)
    BY <2>2 DEF PoolOf
  <2> QED BY <1>0, <1>s, <2>1, <2>3, SeqUnchanged
<1>2. CASE r = q
  <2>f. Fail(r) => pc'[r] \in {"backoff", "exited"}
    BY FailTyped DEF Typed
  <2>1. CASE Submit(r)
    <3>1. CASE Fail(r) /\ pool' = pool
      BY <1>0, <1>s, <2>f, <3>1, SeqUnchanged DEF PoolOf
    <3>2. CASE ~(Fail(r) /\ pool' = pool)
      <4>1. PICK p \in 1..MaxPrice :
              /\ Admit(Submission(r, p)) /\ pc[r] = "submit"
              /\ \/ Fail(r)
                 \/ /\ tx' = [tx EXCEPT ![r] = Submission(r, p)]
                    /\ pc' = [pc EXCEPT ![r] = "wait"]
        BY <2>1, <3>2 DEF Submit
      <4>2. pc'[r] \notin InHand /\ (pc'[r] = "wait" => tx'[r] = Submission(r, p))
        BY <2>f, <4>1 DEF Typed, LoopTypes, InHand
      <4>3. Submission(r, p) \in Txs
        <5>1. WorldTypes' /\ Submission(r, p) \in pool'
          BY <4>1, TypeStep DEF Typed, Admit
        <5> QED BY <5>1 DEF WorldTypes
      <4> QED BY <1>0, <4>1, <4>2, <4>3, SeqSubmit
    <3> QED BY <3>1, <3>2
  <2>2. CASE WaitTimesOut(r)
    <3>1. /\ pc[r] = "wait" /\ pc'[r] \notin InHand
          /\ pc'[r] = "wait" => tx'[r] = tx[r]
      BY <2>2, <2>f DEF WaitTimesOut, InHand
    <3>2. CASE pool' = pool
      BY <1>0, <1>s, <3>1, <3>2, SeqUnchanged DEF PoolOf
    <3>3. ASSUME NEW p \in 1..MaxPrice, Admits([tx[r] EXCEPT !.price = p]),
                 Admit([tx[r] EXCEPT !.price = p])
          PROVE  SeqInv(r)'
      BY <1>0, <3>1, <3>3, SeqSpeedUp
    <3> QED BY <2>2, <3>2, <3>3 DEF WaitTimesOut
  <2>3. CASE ~Submit(r) /\ ~WaitTimesOut(r)
    <3>1. pool' = pool /\ (pc'[r] = "wait" => pc[r] = "wait" /\ tx'[r] = tx[r])
      BY <1>2, <2>3, <2>f DEF Step, Stop, Signal, Tick, Retry, Check, Wake, Prepare, Gather, GiveUp, Found,
         Save, Mined, WaitFails, Restart, Typed, LoopTypes
    <3> QED BY <1>0, <1>s, <3>1, SeqUnchanged DEF PoolOf
  <2> QED BY <2>1, <2>2, <2>3
<1> QED BY <1>1, <1>2

\* The account nonce a relayer read before it gathered the signatures, up to 30
\* minutes, is neither used nor taken when it submits: the relayer sends nothing
\* else meanwhile, and what it sent before only moves from the mempool to the
\* chain (NewTransactionOpts, PendingNonceAt).
THEOREM AccountNonceStaysFree == Spec => []AccountNonceIsFree
<1>1. Init => Sequenced
  BY DEF Init, Sequenced, SeqInv, InHand, PoolOf
<1>2. ASSUME Typed, Sequenced, [Next]_vars PROVE Sequenced'
  <2>1. CASE (External /\ ~(\E t \in pool : Mine(t))) \/ UNCHANGED vars
    <3>1. UNCHANGED <<pool, account, pc, tx>>
      BY <2>1 DEF External, Attest, Prune, Sign, vars, contractVars, loopVars, workVars
    <3> SUFFICES ASSUME NEW r \in Relayers PROVE SeqInv(r)'
      BY DEF Sequenced
    <3>2. SeqInv(r)
      BY <1>2 DEF Sequenced
    <3> QED BY <1>2, <3>1, <3>2, SeqUnchanged DEF PoolOf
  <2>2. CASE \E t \in pool : Mine(t)
    BY <1>2, <2>2, SeqMine DEF Sequenced
  <2>3. CASE \E q \in Relayers : Step(q) \/ Signal(q) \/ Restart(q)
    BY <1>2, <2>3, SeqStep DEF Sequenced
  <2> QED BY <1>2, <2>1, <2>2, <2>3 DEF Next, External
<1>3. Typed /\ Sequenced => AccountNonceIsFree
  <2> SUFFICES ASSUME Typed, Sequenced, NEW r \in Relayers, pc[r] \in InHand
               PROVE seq[r] >= account[r] /\ \A t \in PoolOf(r) : t.seq # seq[r]
    BY DEF AccountNonceIsFree, InHand
  <2>1. /\ SeqInv(r) /\ account[r] \in Nat /\ PendingNonce(r) \in Nat
        /\ Cardinality(PoolOf(r)) \in Nat
    BY PendingTyped, FS_CardinalityType DEF Sequenced, Typed, WorldTypes
  <2>2. \A t \in PoolOf(r) : t.seq \in Nat
    BY DEF PoolOf, Typed, WorldTypes, Txs
  <2> QED BY <2>1, <2>2 DEF SeqInv, PendingNonce
<1> QED BY <1>1, <1>2, <1>3, TypedInvariant, PTL DEF Spec

-----------------------------------------------------------------------------
(* The relayers implement the bridge.                                      *)

QuorumExists == quorum \subseteq StartNonce + 1 .. latest

LEMMA QuorumInvariant == Spec => []QuorumExists
<1> USE DEF chainVars, contractVars, loopVars, workVars, histVars, stopVars, budgetVars
<1>1. Init => QuorumExists
  BY DEF Init, QuorumExists
<1>2. ASSUME Typed, QuorumExists, [Next]_vars PROVE QuorumExists'
  <2>a. latest \in Nonces
    BY <1>2 DEF Typed, WorldTypes
  <2>0. latest \in Nat
    BY <2>a, ConstantAssumption DEF Nonces
  <2>1. CASE Attest
    BY <1>2, <2>0, <2>1, ConstantAssumption DEF Attest, QuorumExists
  <2>2. ASSUME NEW n \in Nonces, Sign(n) PROVE QuorumExists'
    BY <1>2, <2>2 DEF Sign, QuorumExists
  <2>3. CASE Prune \/ (\E t \in pool : Mine(t)) \/ UNCHANGED vars
    BY <1>2, <2>3 DEF Prune, Mine, MineAs, vars, QuorumExists
  <2>4. ASSUME NEW r \in Relayers, Step(r) \/ Signal(r) \/ Restart(r) PROVE QuorumExists'
    <3>1. UNCHANGED <<latest, quorum>>
      BY <2>4 DEF Step, Stop, Signal, Tick, Retry, Check, Wake, Prepare, Gather, GiveUp, Found, Save, Submit, Mined, WaitFails, WaitTimesOut, Restart
    <3> QED BY <1>2, <3>1 DEF QuorumExists
  <2> QED BY <1>2, <2>1, <2>2, <2>3, <2>4 DEF Next, External
<1> QED BY <1>1, <1>2, TypedInvariant, PTL DEF Spec

\* an interval from 1 grows by its next number
LEMMA NextOfInterval ==
    ASSUME NEW n \in Nat, n + 1 \in Nonces
    PROVE  /\ 1..n + 1 = (1..n) \union {n + 1}
           /\ Abstract!IsNext(n + 1, 1..n)
BY ConstantAssumption DEF Abstract!IsNext, Nonces

\* Together the relayers relay the attestations one after the other, each only
\* once its signatures make a quorum, however many relayers there are, whatever
\* fails, stops or is restarted, and in whatever order their transactions are mined.
THEOREM RelayersAreABridge == Spec => Abstract!Spec
<1> USE ConstantAssumption
<1> USE DEF chainVars, contractVars, loopVars, workVars, histVars, stopVars, budgetVars
<1>1. Init => Abstract!Init
  <2> SUFFICES ASSUME Init PROVE Abstract!Init
    OBVIOUS
  <2>1. latest \in Nonces /\ 1..latest = {m \in Nonces : m <= latest} /\ 1..StartNonce \subseteq 1..latest
    BY DEF Init, Nonces
  <2> QED BY <2>1 DEF Init, Abstract!Init
<1>2. ASSUME Typed, QuorumExists, [Next]_vars PROVE [Abstract!Next]_(Abstract!vars)
  <2> USE DEF Abstract!Next, Abstract!vars
  <2>0. latest \in Nat /\ cNonce \in Nat /\ StartNonce <= cNonce /\ cNonce <= MaxNonce
        /\ latest <= MaxNonce
    BY <1>2 DEF Typed, WorldTypes, Nonces
  <2>1. CASE Attest
    <3>1. latest + 1 \in Nonces /\ latest' = latest + 1 /\ UNCHANGED <<quorum, cNonce>>
      BY <2>0, <2>1 DEF Attest, Nonces
    <3>2. Abstract!Attest(latest + 1)
      BY <2>0, <3>1, NextOfInterval DEF Abstract!Attest
    <3> QED BY <3>1, <3>2
  <2>2. ASSUME NEW n \in Nonces, Sign(n) PROVE [Abstract!Next]_(Abstract!vars)
    <3>1. n \in (1..latest) \ (1..StartNonce)
      BY <2>0, <2>2 DEF Sign
    <3>2. Abstract!Sign(n)
      BY <2>2, <3>1 DEF Sign, Abstract!Sign
    <3> QED BY <3>2
  <2>3. ASSUME NEW t \in pool, Mine(t) PROVE [Abstract!Next]_(Abstract!vars)
    <3>1. CASE Accepts(t)
      <4>1. cNonce + 1 \in quorum /\ cNonce' = cNonce + 1 /\ UNCHANGED <<latest, quorum>>
        BY <2>3, <3>1 DEF Mine, MineAs, Accepts
      <4>2. cNonce + 1 \in Nonces /\ cNonce + 1 \in 1..latest
        BY <1>2, <2>0, <4>1 DEF QuorumExists, Nonces
      <4>3. Abstract!Relay(cNonce + 1)
        BY <2>0, <4>1, <4>2, NextOfInterval DEF Abstract!Relay
      <4> QED BY <4>2, <4>3 DEF Abstract!RelayNext
    <3>2. CASE ~Accepts(t)
      BY <2>3, <3>2 DEF Mine, MineAs
    <3> QED BY <3>1, <3>2
  <2>4. CASE Prune \/ UNCHANGED vars
    BY <2>4 DEF Prune, vars
  <2>5. ASSUME NEW r \in Relayers, Step(r) \/ Signal(r) \/ Restart(r)
        PROVE  [Abstract!Next]_(Abstract!vars)
    BY <2>5 DEF Step, Stop, Signal, Tick, Retry, Check, Wake, Prepare, Gather, GiveUp, Found, Save, Submit, Mined, WaitFails,
       WaitTimesOut, Restart
  <2> QED BY <1>2, <2>1, <2>2, <2>3, <2>4, <2>5 DEF Next, External
<1> QED BY <1>1, <1>2, TypedInvariant, QuorumInvariant, PTL DEF Spec, Abstract!Spec
-----------------------------------------------------------------------------
(* System: signatures and power.                                           *)

LEMMA PowerIsSum ==
    ASSUME NEW v, NEW S
    PROVE  PowerOf(S, v) = SumFunctionOnSet([o \in S |-> Powers[v][o]], S)
BY DEF PowerOf, SumFunction

LEMMA ThresholdIsPositive ==
    ASSUME NEW v \in Valsets
    PROVE  TwoThirdsThreshold(v) \in Nat /\ TwoThirdsThreshold(v) > 0
<1>1. Powers[v] \in [Orchestrators -> Nat] /\ IsFiniteSet(Orchestrators)
  BY PowerAssumption
<1>2. SumFunctionOnSet(Powers[v], Orchestrators) \in Nat
  BY <1>1, SumIsNatural
<1>3. SumFunction(Powers[v]) \in Nat
  BY <1>1, <1>2 DEF SumFunction
<1> QED BY <1>3 DEF TwoThirdsThreshold

\* enough signatures stay enough when others join them, and none are not enough
LEMMA EnoughStays ==
    ASSUME NEW v \in Valsets, NEW T \in SUBSET Orchestrators, NEW S \in SUBSET T
    PROVE  Enough(S, v) => Enough(T, v)
<1> DEFINE f == [o \in S |-> Powers[v][o]]
           g == [o \in T |-> Powers[v][o]]
<1>1. Powers[v] \in [Orchestrators -> Nat] /\ IsFiniteSet(T) /\ IsFiniteSet(S)
  BY PowerAssumption, FS_Subset
<1>2. /\ \A o \in S : f[o] \in Nat /\ f[o] <= g[o]
      /\ \A o \in T : g[o] \in Nat
  BY <1>1
<1> HIDE DEF f, g
<1>3. /\ SumFunctionOnSet(f, S) <= SumFunctionOnSet(g, T)
      /\ SumFunctionOnSet(f, S) \in Nat /\ SumFunctionOnSet(g, T) \in Nat
  <2>1. \A o \in S : f[o] \in Nat
    BY <1>2
  <2> QED BY <1>1, <1>2, <2>1, SumGrows, SumIsNatural
<1>4. PowerOf(S, v) = SumFunctionOnSet(f, S) /\ PowerOf(T, v) = SumFunctionOnSet(g, T)
  BY PowerIsSum DEF f, g
<1>5. TwoThirdsThreshold(v) \in Nat
  BY ThresholdIsPositive
<1> QED BY <1>3, <1>4, <1>5 DEF Enough, Quorums

LEMMA NobodyIsNotEnough == ASSUME NEW v \in Valsets PROVE ~Enough({}, v)
<1>1. PowerOf({}, v) = 0
  BY PowerIsSum, SumOfNone
<1> QED BY <1>1, ThresholdIsPositive DEF Enough, Quorums

-----------------------------------------------------------------------------
(* System: what is counted and what is carried.                            *)

\* quorum is what it stands for: the attestations with enough confirms
Counted == quorum = SignedBy

\* A transaction carries enough signatures of the set that signs its attestation,
\* unless the contract is past it, and it was counted with another set.
Sufficient == \A t \in InTransit : t.att <= cNonce \/ Enough(carried[t], PreviousValset(t.att))

\* And so has a relayer in hand.
HandsSufficient ==
    \A r \in Relayers : pc[r] \in {"save", "submit"} =>
        target[r] <= cNonce \/ Enough(gathered[r], PreviousValset(target[r]))

SystemInv ==
    /\ Typed /\ AcceptInv
    /\ GatheredArePut /\ CarriedArePut /\ Counted /\ Sufficient /\ HandsSufficient

\* attestations after the contract's first are signed by a set
LEMMA SignersExist ==
    ASSUME NEW n \in StartNonce + 1 .. MaxNonce
    PROVE  n \in Nonces /\ PreviousValset(n) \in Valsets
<1>1. n \in Nat /\ n > 1 /\ n \in Nonces
  BY ConstantAssumption DEF Nonces
<1> QED BY <1>1, PreviousIsLatest

LEMMA TransitTyped == Typed => InTransit \subseteq Txs
BY DEF Typed, WorldTypes, Controlled, Control, InTransit

LEMMA InitSystem == SystemInit => SystemInv
<1> SUFFICES ASSUME SystemInit PROVE SystemInv
  OBVIOUS
<1>1. Typed /\ AcceptInv
  BY InitTyped DEF SystemInit, Init, AcceptInv, InHand
<1>2. InTransit = {}
  BY DEF SystemInit, Init, InTransit
<1>3. CarriedArePut /\ Sufficient
  BY <1>2 DEF SystemInit, CarriedArePut, Sufficient
<1>6. GatheredArePut /\ HandsSufficient
  BY DEF SystemInit, Init, GatheredArePut, HandsSufficient
<1>4. \A n \in StartNonce + 1 .. MaxNonce : ~Enough(confirms[n], PreviousValset(n))
  BY SignersExist, NobodyIsNotEnough DEF SystemInit
<1>5. Counted
  BY <1>4 DEF Counted, SignedBy, SystemInit, Init
<1> QED BY <1>1, <1>3, <1>5, <1>6 DEF SystemInv

\* An orchestrator's confirm adds to what is counted.
LEMMA ConfirmStep ==
    ASSUME SystemInv, NEW o \in Orchestrators, NEW n \in Nonces, Confirm(o, n)
    PROVE  [Next]_vars /\ CarriedArePut' /\ Counted' /\ Sufficient' /\ GatheredArePut' /\ HandsSufficient'
<1> USE DEF chainVars, contractVars, loopVars, workVars, histVars, stopVars, budgetVars
<1>0. /\ Typed /\ confirms \in [Nonces -> SUBSET Orchestrators] /\ Counted
      /\ latest \in Nonces
  BY DEF SystemInv, CarriedArePut, Typed, WorldTypes
<1>1. n \in StartNonce + 1 .. MaxNonce /\ PreviousValset(n) \in Valsets
  <2>1. n \in StartNonce + 1 .. MaxNonce
    BY <1>0, ConstantAssumption DEF Confirm, Nonces
  <2> QED BY <2>1, SignersExist
<1>2. Sign(n) \/ UNCHANGED vars
  BY DEF Confirm
<1>3. [Next]_vars
  BY <1>2 DEF Next, External
<1>4. /\ UNCHANGED <<pool, pc, tx, cNonce, target, gathered, carried>>
      /\ confirms' = [confirms EXCEPT ![n] = @ \union {o}]
  BY <1>2 DEF Confirm, Sign, vars
<1>5. /\ InTransit' = InTransit /\ confirms' \in [Nonces -> SUBSET Orchestrators]
      /\ \A m \in Nonces : confirms[m] \subseteq confirms'[m]
  BY <1>0, <1>4 DEF InTransit
<1>6. CarriedArePut'
  <2>1. \A t \in InTransit : t.att \in Nonces
    BY <1>0, TransitTyped DEF Txs
  <2> QED BY <1>4, <1>5, <2>1 DEF SystemInv, CarriedArePut
<1>7. Sufficient'
  BY <1>4, <1>5 DEF SystemInv, Sufficient
<1>8. Counted'
  <2>1. \A m \in (StartNonce + 1 .. MaxNonce) \ {n} : confirms'[m] = confirms[m]
    BY <1>0, <1>4, SignersExist
  <2>2. n \in quorum => Enough(confirms'[n], PreviousValset(n))
    <3>1. n \in quorum => Enough(confirms[n], PreviousValset(n))
      BY <1>0 DEF Counted, SignedBy
    <3>2. confirms'[n] \in SUBSET Orchestrators /\ confirms[n] \in SUBSET confirms'[n]
      BY <1>5
    <3> QED BY <1>1, <3>1, <3>2, EnoughStays
  <2>3. quorum' = IF Enough(confirms'[n], PreviousValset(n)) THEN quorum \union {n} ELSE quorum
    <3>1. CASE n \notin quorum /\ Enough(confirms'[n], PreviousValset(n))
      BY <3>1 DEF Confirm, Sign
    <3>2. CASE ~(n \notin quorum /\ Enough(confirms'[n], PreviousValset(n)))
      BY <2>2, <3>2 DEF Confirm, vars
    <3> QED BY <3>1, <3>2
  <2> QED BY <1>0, <1>1, <2>1, <2>2, <2>3 DEF Counted, SignedBy, Enough, Quorums, PowerOf, TwoThirdsThreshold
<1>9. GatheredArePut' /\ HandsSufficient'
  <2>1. \A r \in Relayers : pc[r] \in {"save", "submit"} => target[r] \in Nonces
    BY <1>0, ConstantAssumption DEF Typed, Controlled, Control, Nonces
  <2> QED BY <1>4, <1>5, <2>1 DEF SystemInv, GatheredArePut, HandsSufficient
<1> QED BY <1>3, <1>6, <1>7, <1>8, <1>9

\* A step after which every transaction in transit was there before, or carries
\* signatures that are enough for it.
LEMMA CarryStep ==
    ASSUME SystemInv, Typed', cNonce <= cNonce', UNCHANGED <<confirms, quorum>>,
           NEW S \in SUBSET Orchestrators, Carry(S),
           \A t \in InTransit' \ InTransit :
              /\ S \subseteq confirms[t.att]
              /\ t.att <= cNonce \/ Enough(S, PreviousValset(t.att))
    PROVE  CarriedArePut' /\ Counted' /\ Sufficient'
<1>0. /\ cNonce \in Nat /\ cNonce' \in Nat
      /\ \A t \in InTransit : t.att \in Nat
      /\ \A t \in InTransit' : t.att \in Nat
  <2>1. InTransit \subseteq Txs /\ cNonce \in Nat
    BY TransitTyped, ConstantAssumption DEF SystemInv, Typed, WorldTypes
  <2>2. InTransit' \subseteq Txs /\ cNonce' \in Nat
    BY ConstantAssumption DEF Typed, WorldTypes, Controlled, Control, InTransit
  <2> QED BY <2>1, <2>2 DEF Txs, Nonces
<1>1. carried' = [t \in InTransit' |-> IF t \in InTransit THEN carried[t] ELSE S]
  BY DEF Carry
<1>2. CarriedArePut'
  BY <1>1 DEF SystemInv, CarriedArePut
<1>3. Counted'
  BY DEF SystemInv, Counted, SignedBy, Enough, Quorums, PowerOf, TwoThirdsThreshold
<1>4. ASSUME NEW t \in InTransit'
      PROVE  t.att <= cNonce' \/ Enough(carried'[t], PreviousValset(t.att))
  <2>1. t.att <= cNonce \/ Enough(carried'[t], PreviousValset(t.att))
    <3>1. CASE t \in InTransit
      BY <1>1, <1>4, <3>1 DEF SystemInv, Sufficient
    <3>2. CASE t \notin InTransit
      BY <1>1, <1>4, <3>2
    <3> QED BY <3>1, <3>2
  <2> QED BY <1>0, <1>4, <2>1
<1>5. Sufficient'
  BY <1>4 DEF Sufficient, Enough, Quorums, PowerOf, TwoThirdsThreshold, PreviousValset
<1> QED BY <1>2, <1>3, <1>5

\* A step after which the relayers have in hand what they had, or signatures that
\* are enough.
LEMMA HandsStep ==
    ASSUME SystemInv, Typed', cNonce <= cNonce', UNCHANGED confirms,
           gathered' \in [Relayers -> SUBSET Orchestrators],
           \A r \in Relayers : pc'[r] \in {"save", "submit"} =>
              \/ /\ pc[r] \in {"save", "submit"}
                 /\ target'[r] = target[r] /\ gathered'[r] = gathered[r]
              \/ /\ gathered'[r] \subseteq confirms[target'[r]]
                 /\ target'[r] <= cNonce \/ Enough(gathered'[r], PreviousValset(target'[r]))
    PROVE  GatheredArePut' /\ HandsSufficient'
<1>0. /\ cNonce \in Nat /\ cNonce' \in Nat
      /\ \A r \in Relayers : target'[r] \in Nat
  BY ConstantAssumption DEF SystemInv, Typed, WorldTypes, LoopTypes
<1>1. GatheredArePut'
  BY DEF SystemInv, GatheredArePut
<1>2. ASSUME NEW r \in Relayers, pc'[r] \in {"save", "submit"}
      PROVE  target'[r] <= cNonce' \/ Enough(gathered'[r], PreviousValset(target'[r]))
  <2>1. target'[r] <= cNonce \/ Enough(gathered'[r], PreviousValset(target'[r]))
    BY <1>2 DEF SystemInv, HandsSufficient
  <2> QED BY <1>0, <2>1
<1>3. HandsSufficient'
  BY <1>2 DEF HandsSufficient, Enough, Quorums, PowerOf, TwoThirdsThreshold, PreviousValset
<1> QED BY <1>1, <1>3

\* the program counter says that r keeps what it has in hand, or drops it
Holding(r) == pc'[r] \in {"save", "submit"} => pc[r] \in {"save", "submit"} /\ target'[r] = target[r]

LEMMA KeepStep ==
    ASSUME SystemInv, Typed', cNonce <= cNonce', UNCHANGED confirms, Keep,
           \A r \in Relayers : Holding(r)
    PROVE  GatheredArePut' /\ HandsSufficient'
<1>1. gathered' \in [Relayers -> SUBSET Orchestrators]
  BY DEF Keep, SystemInv, GatheredArePut
<1>2. \A r \in Relayers : pc'[r] \in {"save", "submit"} =>
        pc[r] \in {"save", "submit"} /\ target'[r] = target[r] /\ gathered'[r] = gathered[r]
  BY DEF Keep, Holding
<1> QED BY <1>1, <1>2, HandsStep

\* A step in which nothing is found and no transaction is sent.
LEMMA AloneStep ==
    ASSUME SystemInv, [Next]_vars, Alone, UNCHANGED quorum,
           pool' \subseteq pool,
           \A r \in Relayers : pc'[r] = "wait" => pc[r] = "wait" /\ tx'[r] = tx[r],
           \A r \in Relayers : Holding(r)
    PROVE  CarriedArePut' /\ Counted' /\ Sufficient' /\ GatheredArePut' /\ HandsSufficient'
<1>1. Typed' /\ cNonce <= cNonce'
  BY TypedNext, OnlyForward DEF SystemInv
<1>2. InTransit' \subseteq InTransit
  BY DEF InTransit
<1>3. Carry({}) /\ Keep /\ UNCHANGED confirms /\ {} \in SUBSET Orchestrators
  BY DEF Alone
<1> QED BY <1>1, <1>2, <1>3, CarryStep, KeepStep

\* what the relayer, or the chain, does without sending anything
LEMMA QuietStep ==
    ASSUME Typed, NEW r \in Relayers,
           \/ Tick(r) \/ Retry(r) \/ Check(r) \/ Wake(r) \/ Prepare(r) \/ GiveUp(r) \/ Save(r)
           \/ Mined(r) \/ WaitFails(r) \/ Stop(r) \/ Signal(r) \/ Restart(r)
    PROVE  /\ UNCHANGED <<pool, quorum>>
           /\ \A q \in Relayers : pc'[q] = "wait" => pc[q] = "wait" /\ tx'[q] = tx[q]
           /\ \A q \in Relayers : Holding(q)
<1> USE DEF chainVars, contractVars, loopVars, workVars, histVars, stopVars, budgetVars
<1>1. UNCHANGED <<pool, quorum>>
  BY DEF Tick, Retry, Check, Wake, Prepare, GiveUp, Save, Mined, WaitFails, Stop, Signal, Restart
<1>2. ASSUME NEW q \in Relayers \ {r}
      PROVE  (pc'[q] = "wait" => pc[q] = "wait" /\ tx'[q] = tx[q]) /\ Holding(q)
  <2>1. OthersSame(r)
    BY StepOthers DEF Step, Gather
  <2> QED BY <2>1 DEF OthersSame, Holding
<1>f. Fail(r) => pc'[r] \in {"backoff", "exited"}
  BY FailTyped DEF Typed
<1>3. ASSUME pc'[r] = "wait" PROVE pc[r] = "wait" /\ tx'[r] = tx[r]
  BY <1>3, <1>f DEF Tick, Retry, Check, Wake, Prepare, GiveUp, Save, Mined, WaitFails, Stop, Signal,
     Restart, Typed, LoopTypes
<1>4. CASE Save(r)
  BY <1>1, <1>2, <1>3, <1>4, <1>f DEF Save, Holding
<1>5. CASE ~Save(r)
  <2>1. Holding(r)
    BY <1>5, <1>f DEF Tick, Retry, Check, Wake, Prepare, GiveUp, Mined, WaitFails, Stop, Signal,
       Restart, Typed, LoopTypes, Holding
  <2> QED BY <1>1, <1>2, <1>3, <2>1
<1> QED BY <1>4, <1>5

\* The contract accepts what it verifies: a transaction for its next nonce was
\* counted with the set that it trusts.
LEMMA VerifiedAsAccepted ==
    ASSUME SystemInv, NEW t \in pool
    PROVE  Verifies(t) <=> Accepts(t)
<1>0. t \in InTransit /\ t \in Txs /\ cNonce \in StartNonce..MaxNonce
  BY DEF InTransit, SystemInv, Typed, WorldTypes
<1>1. t.att \in Nonces /\ StartNonce \in Nat /\ MaxNonce \in Nat /\ cNonce \in Nat
  BY <1>0, ConstantAssumption DEF Txs, Nonces
<1>2. CASE t.att # cNonce + 1
  BY <1>2 DEF Verifies, Accepts
<1>3. CASE t.att = cNonce + 1
  <2>1. Accepts(t)
    BY <1>3, AcceptedInv DEF SystemInv, NextIsAccepted
  <2>2. Enough(carried[t], PreviousValset(t.att))
    BY <1>0, <1>1, <1>3 DEF SystemInv, Sufficient
  <2> QED BY <1>3, <2>1, <2>2 DEF Verifies, Accepts, Checkpoint
<1> QED BY <1>2, <1>3

\* What the query counts as enough is a quorum, or was counted with another set
\* than the one that signs; then the contract is past the attestation.
LEMMA GatheredStep ==
    ASSUME SystemInv, NEW r \in Relayers, Gathered(r)
    PROVE  [Next]_vars /\ CarriedArePut' /\ Counted' /\ Sufficient' /\ GatheredArePut' /\ HandsSufficient'
<1> USE DEF chainVars, contractVars, loopVars, workVars, histVars, stopVars, budgetVars
<1>0. PICK S \in SUBSET confirms[target[r]] :
        Found(r) /\ Enough(S, valset[r]) /\ Holds(r, S)
  BY DEF Gathered
<1>1. /\ pc[r] = "gather" /\ target[r] \in StartNonce + 1 .. MaxNonce /\ valset[r] \in Valsets
      /\ target[r] \in Nonces /\ confirms[target[r]] \in SUBSET Orchestrators
  <2>1. pc[r] = "gather" /\ target[r] \in StartNonce + 1 .. MaxNonce /\ valset[r] \in Valsets
    BY <1>0 DEF Found, SystemInv, Typed, Controlled, Control, InHand
  <2> QED BY <2>1, SignersExist DEF SystemInv, CarriedArePut
<1>2. S \in SUBSET Orchestrators /\ {} \in SUBSET Orchestrators
  BY <1>1
<1>3. TwoThirdsFound(r)
  <2>1. CASE valset[r] = PreviousValset(target[r])
    <3>1. Enough(confirms[target[r]], PreviousValset(target[r]))
      BY <1>0, <1>1, <2>1, EnoughStays
    <3>2. target[r] \in quorum
      BY <1>1, <3>1 DEF SystemInv, Counted, SignedBy
    <3> QED BY <3>2 DEF TwoThirdsFound
  <2> QED BY <2>1 DEF TwoThirdsFound
<1>4. [Next]_vars
  BY <1>0, <1>3 DEF Next, Step, Gather
<1>5. /\ Typed' /\ cNonce <= cNonce' /\ UNCHANGED <<quorum, pool, tx, target, confirms>>
      /\ pc' = [pc EXCEPT ![r] = "save"] /\ Carry({})
      /\ gathered' = [gathered EXCEPT ![r] = S]
  BY <1>0, <1>4, TypedNext, OnlyForward DEF SystemInv, Found, Holds
<1>6. InTransit' \subseteq InTransit
  BY <1>5 DEF InTransit, SystemInv, Typed, LoopTypes
<1>7. CarriedArePut' /\ Counted' /\ Sufficient'
  BY <1>2, <1>5, <1>6, CarryStep
<1>8. target[r] <= cNonce \/ Enough(S, PreviousValset(target[r]))
  BY <1>0, <1>1 DEF SystemInv, AcceptInv, InHand
<1>9. GatheredArePut' /\ HandsSufficient'
  <2>1. gathered' \in [Relayers -> SUBSET Orchestrators]
    BY <1>2, <1>5 DEF SystemInv, GatheredArePut
  <2>2. ASSUME NEW q \in Relayers, pc'[q] \in {"save", "submit"}
        PROVE  \/ /\ pc[q] \in {"save", "submit"}
                  /\ target'[q] = target[q] /\ gathered'[q] = gathered[q]
               \/ /\ gathered'[q] \subseteq confirms[target'[q]]
                  /\ target'[q] <= cNonce \/ Enough(gathered'[q], PreviousValset(target'[q]))
    <3>1. CASE q = r
      BY <1>0, <1>5, <1>8, <3>1 DEF SystemInv, GatheredArePut
    <3>2. CASE q # r
      BY <1>5, <2>2, <3>2 DEF SystemInv, GatheredArePut, Typed, LoopTypes
    <3> QED BY <3>1, <3>2
  <2> QED BY <1>5, <2>1, <2>2, HandsStep
<1> QED BY <1>4, <1>7, <1>9

\* The transaction carries what was in hand, for the attestation that it was found for.
LEMMA SubmittedStep ==
    ASSUME SystemInv, NEW r \in Relayers, Submitted(r)
    PROVE  [Next]_vars /\ CarriedArePut' /\ Counted' /\ Sufficient' /\ GatheredArePut' /\ HandsSufficient'
<1> USE DEF chainVars, contractVars, loopVars, workVars, histVars, stopVars, budgetVars
<1>0. Submit(r) /\ Carry(gathered[r]) /\ Keep /\ UNCHANGED confirms
  BY DEF Submitted
<1>1. [Next]_vars
  BY <1>0 DEF Next, Step
<1>2. pc[r] = "submit" /\ gathered[r] \in SUBSET Orchestrators
  BY <1>0 DEF Submit, SystemInv, GatheredArePut
<1>3. Typed' /\ cNonce <= cNonce' /\ UNCHANGED quorum
  BY <1>0, <1>1, TypedNext, OnlyForward DEF SystemInv, Submit
<1>4. ASSUME NEW t \in InTransit' \ InTransit
      PROVE  /\ gathered[r] \subseteq confirms[t.att]
             /\ t.att <= cNonce \/ Enough(gathered[r], PreviousValset(t.att))
  <2>1. \E p \in 1..MaxPrice : t = Submission(r, p)
    <3>1. pool' = pool \/ \E p \in 1..MaxPrice : Admit(Submission(r, p))
      BY <1>0 DEF Submit
    <3>2. t \in pool' => \E p \in 1..MaxPrice : t = Submission(r, p)
      BY <1>4, <3>1 DEF InTransit, Admit
    <3>3. ASSUME NEW q \in Relayers, pc'[q] = "wait", t = tx'[q]
          PROVE  \E p \in 1..MaxPrice : t = Submission(r, p)
      <4>1. \/ pc[q] = "wait" /\ tx'[q] = tx[q]
            \/ \E p \in 1..MaxPrice : Admit(Submission(q, p)) /\ tx'[q] = Submission(q, p)
        BY <1>1, <3>3, WaitOrigin DEF SystemInv
      <4>2. ~(pc[q] = "wait" /\ tx'[q] = tx[q])
        BY <1>4, <3>3 DEF InTransit
      <4>3. t \in pool'
        BY <3>3, <4>1, <4>2 DEF Admit
      <4> QED BY <3>2, <4>3
    <3> QED BY <1>4, <3>2, <3>3 DEF InTransit
  <2>2. t.att = target[r]
    BY <2>1 DEF Submission
  <2> QED BY <1>2, <2>2 DEF SystemInv, GatheredArePut, HandsSufficient
<1>5. ASSUME NEW q \in Relayers PROVE Holding(q)
  <2>1. CASE q = r
    BY <1>0, <2>1, FailTyped DEF Submit, SystemInv, Typed, LoopTypes, Holding
  <2>2. CASE q # r
    <3>1. OthersSame(r)
      BY <1>0, StepOthers DEF Step, SystemInv
    <3> QED BY <2>2, <3>1 DEF OthersSame, Holding
  <2> QED BY <2>1, <2>2
<1> QED BY <1>0, <1>1, <1>2, <1>3, <1>4, <1>5, CarryStep, KeepStep

\* A sped-up transaction carries what the first one did, for the same attestation.
LEMMA SpeedUpStep ==
    ASSUME SystemInv, NEW r \in Relayers, SpeedUp(r)
    PROVE  [Next]_vars /\ CarriedArePut' /\ Counted' /\ Sufficient' /\ GatheredArePut' /\ HandsSufficient'
<1> USE DEF chainVars, contractVars, loopVars, workVars, histVars, stopVars, budgetVars
<1>0. WaitTimesOut(r) /\ Carry(carried[tx[r]]) /\ Keep /\ UNCHANGED confirms
  BY DEF SpeedUp
<1>1. [Next]_vars
  BY <1>0 DEF Next, Step
<1>2. Typed' /\ cNonce <= cNonce' /\ UNCHANGED quorum
  BY <1>0, <1>1, TypedNext, OnlyForward DEF SystemInv, WaitTimesOut
<1>3. tx[r] \in Txs /\ pc[r] = "wait"
  BY <1>0 DEF WaitTimesOut, SystemInv, Typed, Controlled, Control
<1>4. tx[r] \in InTransit
  BY <1>3 DEF InTransit
<1>5. carried[tx[r]] \in SUBSET Orchestrators
  BY <1>4 DEF SystemInv, CarriedArePut
<1>6. ASSUME NEW t \in InTransit' \ InTransit PROVE t.att = tx[r].att
  <2>1. ASSUME NEW q \in Relayers, pc'[q] = "wait" PROVE pc[q] = "wait" /\ tx'[q] = tx[q]
    <3>1. CASE q = r
      BY <1>0, <2>1, <3>1, FailTyped DEF WaitTimesOut, SystemInv, Typed
    <3>2. CASE q # r
      <4>1. OthersSame(r)
        BY <1>0, StepOthers DEF Step, SystemInv
      <4> QED BY <2>1, <3>2, <4>1 DEF OthersSame
    <3> QED BY <3>1, <3>2
  <2>2. t \in pool' \ pool
    BY <1>6, <2>1 DEF InTransit
  <2>3. PICK p \in 1..MaxPrice : pool' = pool \/ Admit([tx[r] EXCEPT !.price = p])
    BY <1>0 DEF WaitTimesOut
  <2>4. t = [tx[r] EXCEPT !.price = p]
    BY <2>2, <2>3 DEF Admit
  <2> QED BY <1>3, <2>4 DEF Txs
<1>7. /\ carried[tx[r]] \subseteq confirms[tx[r].att]
      /\ tx[r].att <= cNonce \/ Enough(carried[tx[r]], PreviousValset(tx[r].att))
  BY <1>4 DEF SystemInv, CarriedArePut, Sufficient
<1>8. ASSUME NEW q \in Relayers PROVE Holding(q)
  <2>1. CASE q = r
    BY <1>0, <2>1, FailTyped DEF WaitTimesOut, SystemInv, Typed, Holding
  <2>2. CASE q # r
    <3>1. OthersSame(r)
      BY <1>0, StepOthers DEF Step, SystemInv
    <3> QED BY <2>2, <3>1 DEF OthersSame, Holding
  <2> QED BY <2>1, <2>2
<1> QED BY <1>0, <1>1, <1>2, <1>5, <1>6, <1>7, <1>8, CarryStep, KeepStep

\* A step of the system is one of Relayer, or of an orchestrator alone, and keeps
\* the invariant.
LEMMA SystemStepIs ==
    ASSUME SystemInv, [SystemNext]_allVars
    PROVE  [Next]_vars /\ SystemInv'
<1> USE DEF chainVars, contractVars, loopVars, workVars, histVars, stopVars, budgetVars
<1>1. SUFFICES [Next]_vars /\ CarriedArePut' /\ Counted' /\ Sufficient' /\ GatheredArePut' /\ HandsSufficient'
  BY <1>1, TypedNext, AcceptNext DEF SystemInv
<1>2. CASE (Attest \/ Prune) /\ Alone
  <2>1. [Next]_vars /\ UNCHANGED <<pool, quorum, pc, tx, target>>
    BY <1>2 DEF Next, External, Attest, Prune
  <2> QED BY <1>2, <2>1, AloneStep DEF Holding
<1>3. ASSUME NEW o \in Orchestrators, NEW n \in Nonces, Confirm(o, n)
      PROVE  [Next]_vars /\ CarriedArePut' /\ Counted' /\ Sufficient' /\ GatheredArePut' /\ HandsSufficient'
  BY <1>3, ConfirmStep
<1>4. ASSUME NEW t \in pool, MineVerified(t)
      PROVE  [Next]_vars /\ CarriedArePut' /\ Counted' /\ Sufficient' /\ GatheredArePut' /\ HandsSufficient'
  <2>1. Mine(t)
    BY <1>4, VerifiedAsAccepted DEF MineVerified, Mine, MineAs
  <2>2. [Next]_vars /\ pool' \subseteq pool /\ UNCHANGED <<quorum, pc, tx, target>>
    BY <2>1 DEF Next, External, Mine, MineAs
  <2> QED BY <1>4, <2>2, AloneStep DEF MineVerified, Holding
<1>5. ASSUME NEW r \in Relayers, SystemStep(r) \/ ((Signal(r) \/ Restart(r)) /\ Alone)
      PROVE  [Next]_vars /\ CarriedArePut' /\ Counted' /\ Sufficient' /\ GatheredArePut' /\ HandsSufficient'
  <2>1. CASE Gathered(r)
    BY <2>1, GatheredStep
  <2>2. CASE SpeedUp(r)
    BY <2>2, SpeedUpStep
  <2>4. CASE Submitted(r)
    BY <2>4, SubmittedStep
  <2>3. CASE ~Gathered(r) /\ ~SpeedUp(r) /\ ~Submitted(r)
    <3>1. /\ Alone
          /\ \/ Tick(r) \/ Retry(r) \/ Check(r) \/ Wake(r) \/ Prepare(r) \/ GiveUp(r)
             \/ Save(r) \/ Mined(r) \/ WaitFails(r) \/ Stop(r) \/ Signal(r) \/ Restart(r)
      BY <1>5, <2>3 DEF SystemStep
    <3>2. [Next]_vars
      BY <3>1 DEF Next, Step, Gather
    <3> QED BY <3>1, <3>2, QuietStep, AloneStep DEF SystemInv
  <2> QED BY <2>1, <2>2, <2>3, <2>4
<1>6. CASE UNCHANGED allVars
  <2>1. UNCHANGED vars /\ UNCHANGED <<confirms, gathered, carried, pool, pc, tx, target, quorum, cNonce>>
    BY <1>6 DEF allVars, systemVars, vars
  <2>2. InTransit' = InTransit
    BY <2>1 DEF InTransit
  <2> QED BY <2>1, <2>2 DEF SystemInv, CarriedArePut, Counted, SignedBy, Sufficient, GatheredArePut,
        HandsSufficient, Enough, Quorums, PowerOf, TwoThirdsThreshold
<1> QED BY <1>2, <1>3, <1>4, <1>5, <1>6 DEF SystemNext

LEMMA SystemInvariant == SystemSpec => []SystemInv
BY InitSystem, SystemStepIs, PTL DEF SystemSpec

\* The types of System, and the provenance of what is carried: a transaction has
\* signatures that orchestrators put into the network for its attestation, also
\* when it is sent again with more gas (waitForTransactionAndRetryIfNeeded).
THEOREM SystemTypeCorrect == SystemSpec => []SystemTypeOK
<1>1. SystemInv => SystemTypeOK
  BY TypedImpliesTypeOK DEF SystemInv, SystemTypeOK
<1> QED BY <1>1, SystemInvariant, PTL

\* What is submitted for the contract's next nonce passes its check: the set with
\* which QueryTwoThirds...Confirms counted is the one that the contract trusts when
\* the transaction is mined, or the contract has moved past it.
THEOREM NextSubmissionVerifies == SystemSpec => []NextVerifies
<1>1. SystemInv => NextVerifies
  BY VerifiedAsAccepted, AcceptedInv DEF SystemInv, NextVerifies, NextIsAccepted
<1> QED BY <1>1, SystemInvariant, PTL

\* With the signatures carried and counted one by one, by the query, by the layout
\* and by the contract, the relayers do nothing that they do not where it is given
\* which attestations have enough: all theorems of Relayer hold of System.
THEOREM SystemImplementsRelayers == SystemSpec => ImplementsRelayers
<1>1. SystemInit => Init
  BY DEF SystemInit
<1> QED BY <1>1, SystemStepIs, SystemInvariant, PTL DEF SystemSpec, ImplementsRelayers, Spec

\* From the orchestrators' confirms to the contract: the attestations are relayed
\* one after the other, each only when members with 2/3 of the power of the set
\* before it have put their confirms for it into the network.
THEOREM SystemIsTheBridge == SystemSpec => Bridged!Spec
<1>1. SystemInv /\ Abstract!Init => Bridged!Init
  BY DEF SystemInv, Counted, Abstract!Init, Bridged!Init
<1>2. ASSUME SystemInv, SystemInv', [Abstract!Next]_(Abstract!vars)
      PROVE  [Bridged!Next]_(Bridged!vars)
  <2>1. SignedBy = quorum /\ SignedBy' = quorum'
    BY <1>2 DEF SystemInv, Counted
  <2> QED BY <1>2, <2>1 DEF Abstract!Next, Abstract!vars, Abstract!Attest, Abstract!Sign, Abstract!Relay,
        Abstract!RelayNext, Abstract!IsNext, Bridged!Next, Bridged!vars, Bridged!Attest, Bridged!Sign,
        Bridged!Relay, Bridged!RelayNext, Bridged!IsNext
<1> QED BY <1>1, <1>2, SystemInvariant, SystemImplementsRelayers, RelayersAreABridge, PTL
     DEF ImplementsRelayers, Abstract!Spec, Bridged!Spec
=============================================================================
