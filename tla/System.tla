------------------------------- MODULE System -------------------------------
(***************************************************************************)
(* The relayers and the contract of Relayer, with the orchestrators whose  *)
(* signatures they carry from the network to the contract.                 *)
(*                                                                         *)
(* Three times it is asked whether an attestation has enough signatures:   *)
(* by the query, with the validator set that the relayer found; when they  *)
(* are laid out, which UpdateValidatorSet does by a set that it asks for   *)
(* after the query; and by the contract, with the set that it trusts when  *)
(* the transaction is mined.  Meanwhile orchestrators go on signing, other *)
(* relayers change the contract's set, and the chain prunes sets.          *)
(***************************************************************************)
EXTENDS Relayer, Functions

CONSTANTS
    Orchestrators,
    Powers,         \* the power of each of them in each validator set, 0 outside it
    Honest,         \* those that sign all they have to, sooner or later
    Blind           \* those that sign where they cannot see whether they have to

ASSUME PowerAssumption ==
    IsFiniteSet(Orchestrators) /\ Powers \in [Valsets -> [Orchestrators -> Nat]]

VARIABLES
    confirms,       \* who has put its confirm for an attestation into the network
    gathered,       \* whose signatures a relayer has in hand
    carried         \* whose signatures a transaction carries

systemVars == <<confirms, gathered, carried>>
allVars == <<vars, systemVars>>

-----------------------------------------------------------------------------

PowerOf(S, v) == SumFunction([o \in S |-> Powers[v][o]])
TwoThirdsThreshold(v) == 2 * (SumFunction(Powers[v]) \div 3 + 1)
Quorums ==
    [v \in Valsets |-> {S \in SUBSET Orchestrators : PowerOf(S, v) >= TwoThirdsThreshold(v)}]
Enough(S, v) == S \in Quorums[v]

\* the honest orchestrators have 2/3 of the power of every set
ASSUME HonestAssumption == Honest \subseteq Orchestrators /\ \A v \in Valsets : Enough(Honest, v)

\* transactions in the mempool or in the hands of the relayer that waits for them
InTransit == pool \union {tx[r] : r \in {q \in Relayers : pc[q] = "wait"}}

\* a new transaction carries the signatures of S
Carry(S) == carried' = [t \in InTransit' |-> IF t \in InTransit THEN carried[t] ELSE S]

\* a relayer keeps what it found until it has submitted it, or gives up
Keep ==
    gathered' = [r \in Relayers |-> IF pc'[r] \in {"save", "submit"} THEN gathered[r] ELSE {}]

Alone == Carry({}) /\ Keep /\ UNCHANGED confirms

-----------------------------------------------------------------------------

\* An orchestrator of the set, or one that does not see the set, puts its confirm
\* for an attestation into the network, in any order and at any time; with it the
\* confirms may make 2/3 of the set's power.
Confirm(o, n) ==
    /\ n \in StartNonce + 1 .. latest /\ o \notin confirms[n]
    /\ Powers[PreviousValset(n)][o] > 0 \/ o \in Blind
    /\ confirms' = [confirms EXCEPT ![n] = @ \union {o}]
    /\ IF n \notin quorum /\ Enough(confirms'[n], PreviousValset(n)) THEN Sign(n) ELSE UNCHANGED vars
    /\ UNCHANGED <<gathered, carried>>

\* The contract recovers the signatures and adds up the power of their signers in
\* the set it trusts, which has to be the one it is given.
Verifies(t) ==
    /\ t.att = cNonce + 1
    /\ t.valset = Checkpoint(cNonce)
    /\ Enough(carried[t], t.valset)

MineVerified(t) == MineAs(t, Verifies(t)) /\ Alone

Holds(r, S) == gathered' = [gathered EXCEPT ![r] = S] /\ Carry({}) /\ UNCHANGED confirms

\* (a definition named X_Y is a faulty variant of X, used to test a property)
Gathered_NewSet(r) ==
    /\ Found(r)
    /\ \E S \in SUBSET confirms[target[r]] :
         Enough(S, IF target[r] \in Valsets THEN target[r] ELSE valset[r]) /\ Holds(r, S)

Gathered_Latest(r) ==
    /\ Found(r)
    /\ \E S \in SUBSET confirms[latest] : Enough(S, valset[r]) /\ Holds(r, S)

Gathered_Unweighed(r) ==
    /\ Found(r)
    /\ \E S \in (SUBSET confirms[target[r]]) \ {{}} : Holds(r, S)

\* QueryTwoThirds...Confirms found confirms with enough power, perhaps not all that
\* are there.  It counts with the set that the relayer found before.
Gathered(r) ==
    /\ Found(r)
    /\ \E S \in SUBSET confirms[target[r]] : Enough(S, valset[r]) /\ Holds(r, S)

\* the confirms are laid out as they were found
Submitted(r) == Submit(r) /\ Carry(gathered[r]) /\ Keep /\ UNCHANGED confirms

\* the transaction is sent again as it was, with more gas
SpeedUp(r) == WaitTimesOut(r) /\ Carry(carried[tx[r]]) /\ Keep /\ UNCHANGED confirms

-----------------------------------------------------------------------------

SystemInit ==
    /\ Init
    /\ confirms = [n \in Nonces |-> {}]
    /\ gathered = [r \in Relayers |-> {}]
    /\ carried = [t \in {} |-> {}]

SystemStep(r) ==
    \/ /\ Tick(r) \/ Retry(r) \/ Check(r) \/ Wake(r) \/ Prepare(r) \/ GiveUp(r)
          \/ Save(r) \/ Mined(r) \/ WaitFails(r) \/ Stop(r)
       /\ Alone
    \/ Gathered(r) \/ Submitted(r) \/ SpeedUp(r)

SystemNext ==
    \/ (Attest \/ Prune) /\ Alone
    \/ \E o \in Orchestrators, n \in Nonces : Confirm(o, n)
    \/ \E t \in pool : MineVerified(t)
    \/ \E r \in Relayers : SystemStep(r) \/ ((Signal(r) \/ Restart(r)) /\ Alone)

SystemSpec == SystemInit /\ [][SystemNext]_allVars

\* Fairness: every relayer's loop goes on, the honest orchestrators sign what they
\* have to, and the chain mines what its mempool holds.
FairSystemSpec ==
    /\ SystemSpec
    /\ \A r \in Relayers : WF_allVars(SystemStep(r))
    /\ \A o \in Honest : WF_allVars(\E n \in Nonces : Confirm(o, n))
    /\ WF_allVars(\E t \in pool : MineVerified(t))

-----------------------------------------------------------------------------
(* Properties.                                                             *)

\* The types, and: what a relayer has in hand, and every transaction carries, are
\* signatures for its own attestation which were put into the network, also after
\* a speed-up and while others come in.
GatheredArePut ==
    /\ gathered \in [Relayers -> SUBSET Orchestrators]
    /\ \A r \in Relayers : pc[r] \in {"save", "submit"} => gathered[r] \subseteq confirms[target[r]]

CarriedArePut ==
    /\ confirms \in [Nonces -> SUBSET Orchestrators]
    /\ carried \in [InTransit -> SUBSET Orchestrators]
    /\ \A t \in InTransit : carried[t] \subseteq confirms[t.att]

SystemTypeOK == TypeOK /\ GatheredArePut /\ CarriedArePut

\* A transaction for the contract's next nonce carries enough signatures of the set
\* that the contract trusts, although the query counted them with a set that was
\* found before, and the set that they are laid out by was asked for again.
NextVerifies == \A t \in pool : t.att = cNonce + 1 => Verifies(t)

\* With the signatures counted one by one, the relayers behave as they do where it
\* is given which attestations have enough of them.
ImplementsRelayers == Spec

\* Attestations are relayed in order, and only with the signatures of members who
\* had 2/3 of the power of the set before it, put for this attestation.  And every
\* attestation is, as long as some relayer runs: honest orchestrators with that
\* power are enough, and where one relayer exits, a backup takes over.
SignedBy == {n \in StartNonce + 1 .. MaxNonce : Enough(confirms[n], PreviousValset(n))}

Bridged == INSTANCE Bridge WITH
    Attestations <- Nonces, Deployed <- 1..StartNonce,
    made <- 1..latest, signed <- SignedBy, relayed <- 1..cNonce

NobodyRuns == \A r \in Relayers : pc[r] = "exited"
SystemIsABridge == Bridged!Spec /\ (Bridged!Fairness \/ []<>NobodyRuns)
=============================================================================
