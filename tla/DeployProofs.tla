----------------------------- MODULE DeployProofs -----------------------------
(***************************************************************************)
(* Theorems about the deploy command, for every chain, every step of the   *)
(* search, every lifetime of attestations and any number of failures.      *)
(***************************************************************************)
EXTENDS Deploy, TLAPS

-----------------------------------------------------------------------------
(* The chain.                                                              *)

\* Of one attestation: its height, and the set that signs the next one.
LEMMA Attestation ==
    ASSUME chain \in Chains, NEW n \in Nonces
    PROVE  /\ n \in Nat /\ n >= 1 /\ n <= MaxNonce
           /\ chain[n].at \in Nat /\ chain[n].at >= 1
           /\ chain[n].set \in Nonces /\ chain[n].set <= n
           /\ IsSet(chain[n].set)
           /\ n = 1 => IsSet(n)
           /\ \A m \in Nonces : chain[n].set < m /\ m <= n => ~IsSet(m)
<1>1. chain \in [Nonces -> [at : Nat \ {0}, set : Nonces]] /\ WellFormed(chain)
  BY ChainAssumption
<1>2. chain[n] \in [at : Nat \ {0}, set : Nonces]
  BY <1>1
<1>3. n \in 1..MaxNonce /\ chain[n].set \in 1..n
  BY <1>1 DEF WellFormed, Nonces
<1>4. chain[chain[n].set].set = chain[n].set /\ \A m \in (chain[n].set + 1)..n : chain[m].set # m
  BY <1>1 DEF WellFormed
<1>5. \A m \in Nonces : chain[n].set < m /\ m <= n => m \in (chain[n].set + 1)..n
  BY <1>2, <1>3, BoundAssumption DEF Nonces
<1> QED BY <1>2, <1>3, <1>4, <1>5, BoundAssumption DEF IsSet, Nonces

\* Nonces follow the blocks.
LEMMA Ordered ==
    ASSUME chain \in Chains, NEW m \in Nonces, NEW n \in Nonces, m <= n
    PROVE  chain[m].at <= chain[n].at
BY ChainAssumption DEF WellFormed

-----------------------------------------------------------------------------
(* The types.                                                              *)

LEMMA InitTyped == Init => TypeOK
<1> USE BoundAssumption
<1> SUFFICES ASSUME Init PROVE TypeOK
  OBVIOUS
<1>1. 1 \in Nonces
  BY DEF Nonces
<1>2. /\ height \in 1..MaxHeight /\ at \in 0..MaxHeight /\ start \in 0..MaxHeight
      /\ valset \in 0..MaxNonce /\ nonce \in 0..MaxNonce /\ failures \in 0..MaxFailures
      /\ contract \in [nonce : 0..MaxNonce, valset : 0..MaxNonce]
  BY DEF Init, NoContract
<1>3. moved \in BOOLEAN
  BY DEF Init
<1>4. /\ chain \in Chains /\ firstState \in FirstStates /\ asked \in Asks
      /\ latest \in Nonces /\ target \in Nonces /\ pc = "run"
      /\ implementation \in Transactions /\ proxy \in Transactions
  BY <1>1 DEF Init, Transactions
<1> QED BY <1>2, <1>3, <1>4 DEF TypeOK

LEMMA NextTyped == ASSUME TypeOK, [Next]_vars PROVE TypeOK'
<1> USE BoundAssumption DEF TypeOK
<1> DEFINE Calls == failures' = failures \/ (failures' = failures + 1 /\ failures < MaxFailures)
<1>a. Calls => failures' \in 0..MaxFailures
  OBVIOUS
<1>b. CallFails => Calls
  BY DEF CallFails
<1>c. \A again \in Searching : StepDown(again) =>
         at' \in 0..MaxHeight /\ pc' \in Searching \union Over
  BY DEF StepDown, Over
<1>d. Fail => at' \in 0..MaxHeight /\ pc' \in Over
  BY DEF Fail, Over
<1>1. CASE GetStartingValset
  <2>1. asked.nonce \in Nonces
    BY DEF Asks, Nonces
  <2> QED BY <1>1, <2>1 DEF GetStartingValset, chainVars, resultVars, evmVars, Searching
<1>2. CASE QueryHeight
  BY <1>2, <1>a, <1>b, <1>d DEF QueryHeight, chainVars, resultVars, evmVars, Searching
<1>3. CASE QueryLatestNonce
  BY <1>3, <1>a, <1>b, <1>d DEF QueryLatestNonce, Errs, chainVars, resultVars, evmVars, Searching
<1>4. CASE QueryValset
  <2>1. latest \in 0..MaxNonce
    BY DEF Nonces
  <2> QED BY <1>4, <2>1, <1>a, <1>b DEF QueryValset, Errs, chainVars, searchVars, evmVars, Searching
<1>5. CASE QueryBefore
  <2>1. valset' \in 0..MaxNonce
    <3>1. ASSUME latest > 1 PROVE chain[latest - 1].set \in 0..MaxNonce
      <4>1. latest - 1 \in Nonces
        BY <3>1 DEF Nonces
      <4> QED BY <4>1, Attestation DEF Nonces
    <3> QED BY <1>5, <3>1 DEF QueryBefore
  <2> QED BY <1>5, <2>1, <1>a, <1>b, <1>c DEF QueryBefore, Errs, chainVars, evmVars, Searching
<1>6. CASE QueryFirst
  BY <1>6, <1>a, <1>b DEF QueryFirst, Errs, chainVars, searchVars, evmVars, Searching, Over
<1>7. CASE QueryAttestation
  <2>1. /\ at' \in 0..MaxHeight /\ start' \in 0..MaxHeight
        /\ pc' \in Searching \union Over \union {"nonce"}
        /\ target' \in Nonces /\ valset' \in 0..MaxNonce /\ Calls
    <3>1. CASE Has(at, target) /\ IsSet(target) /\ valset' = target /\ pc' = "nonce"
               /\ UNCHANGED <<at, start, target, failures>>
      <4>1. target \in 0..MaxNonce
        BY DEF Nonces
      <4>2. at' \in 0..MaxHeight /\ start' \in 0..MaxHeight /\ target' \in Nonces /\ Calls
        BY <3>1
      <4> QED BY <3>1, <4>1, <4>2
    <3>2. CASE /\ Has(at, target) /\ ~IsSet(target)
               /\ start' = IF target = asked.nonce THEN chain[target].at ELSE start
               /\ at' = start' /\ target' = target - 1
               /\ UNCHANGED <<pc, valset, failures>>
      <4>1. target # 1
        BY <3>2, Attestation
      <4>2. chain[target].at \in Nat /\ chain[target].at <= at
        BY <3>2, Attestation DEF Has
      <4>3. target - 1 \in Nonces
        BY <4>1 DEF Nonces
      <4>4. start' \in 0..MaxHeight
        BY <3>2, <4>2
      <4>5. pc' \in Searching
        BY <1>7, <3>2 DEF QueryAttestation, Searching
      <4>6. at' \in 0..MaxHeight /\ valset' \in 0..MaxNonce /\ target' \in Nonces /\ Calls
        BY <3>2, <4>3, <4>4
      <4> QED BY <4>4, <4>5, <4>6
    <3>3. CASE /\ CallFails \/ UNCHANGED failures
               /\ StepDown("attestation") /\ UNCHANGED <<start, target, valset>>
      <4>1. "attestation" \in Searching
        BY DEF Searching
      <4>2. at' \in 0..MaxHeight /\ pc' \in Searching \union Over
        BY <3>3, <4>1, <1>c
      <4>3. Calls
        BY <3>3, <1>b
      <4> QED BY <3>3, <4>2, <4>3
    <3> QED BY <1>7, <3>1, <3>2, <3>3 DEF QueryAttestation, Errs
  <2> QED BY <1>7, <1>a, <2>1 DEF QueryAttestation, chainVars, evmVars
<1>8. CASE ParseStartingNonce
  <2>1. nonce' \in 0..MaxNonce
    BY <1>8 DEF ParseStartingNonce, Nonces
  <2> QED BY <1>8, <2>1, <1>a, <1>b DEF ParseStartingNonce, chainVars, searchVars, evmVars, Over
<1>9. CASE DeployBlobstreamContract
  BY <1>9, <1>a, <1>b DEF DeployBlobstreamContract, chainVars, searchVars, resultVars, Over, Transactions
<1>10. CASE WaitForTransaction
  BY <1>10 DEF WaitForTransaction, chainVars, searchVars, resultVars, evmVars, Over
<1>11. CASE TimeOut
  BY <1>11, <1>d DEF TimeOut, chainVars, resultVars, evmVars
<1>12. CASE Block
  <2>1. moved' \in BOOLEAN
    BY <1>12 DEF Block
  <2>2. height' \in 1..MaxHeight
    BY <1>12 DEF Block
  <2>3. /\ UNCHANGED <<chain, firstState, asked, pc, at, start, latest, target>>
        /\ UNCHANGED <<valset, nonce, implementation, proxy, contract, failures>>
    BY <1>12 DEF Block, searchVars, resultVars, evmVars
  <2> QED BY <2>1, <2>2, <2>3
<1>13. CASE Mine
  BY <1>13 DEF Mine, chainVars, searchVars, resultVars, Transactions
<1>14. CASE UNCHANGED vars
  BY <1>14 DEF vars, chainVars, searchVars, resultVars, evmVars
<1> QED BY <1>1, <1>2, <1>3, <1>4, <1>5, <1>6, <1>7, <1>8, <1>9, <1>10, <1>11, <1>12, <1>13, <1>14
        DEF Next, Command

\* Every variable has its type.  TypeOK is inductive as it stands: a search goes
\* down from a height of the chain, and from a nonce that is not the first.
THEOREM TypeCorrect == Spec => []TypeOK
BY InitTyped, NextTyped, PTL DEF Spec

-----------------------------------------------------------------------------
(* The inductive invariant.                                                *)

\* Nothing has gone wrong so far that a deployment from the latest set would
\* not survive; Sound without the attestations that were made meanwhile.
Sparse == failures = 0 /\ Step <= Keep
Sound == Sparse /\ ~moved

\* Which loop runs, and where it is.
PlaceInv ==
    /\ at <= height /\ start <= height /\ (pc = "run" => at = 0)
    /\ pc \in {"first", "firstHistory"} => asked.mode = "earliest"
    /\ pc \in {"latestNonce", "valset", "before"} => asked.mode = "latest"
    /\ pc = "height" => asked.mode = "latest" \/ (asked.mode = "nonce" /\ target = asked.nonce)
    /\ pc = "attestation" =>
         /\ asked.mode = "nonce" /\ 1 <= at /\ at <= start
         /\ chain[asked.nonce].set <= target /\ target <= asked.nonce

\* The latest set: what is known of the answer to the nonce's query, and that the
\* search has not gone past the set yet.
LatestInv ==
    /\ pc \in {"valset", "before"} /\ at # 0 => Keeps(at) /\ IsLatest(at, latest)
    /\ pc \in {"valset", "before"} /\ at = 0 /\ ~moved => IsLatest(height, latest)
    /\ pc = "before" /\ failures = 0 /\ (at # 0 \/ ~moved) => ~IsSet(latest)
    /\ pc \in {"latestNonce", "valset", "before"} /\ at # 0 /\ Sound =>
         \A n \in Nonces : IsLatest(height, n) => chain[chain[n].set].at <= at

\* A search by nonce has not gone past the attestation either.
SearchInv ==
    pc = "attestation" /\ Sparse /\ firstState <= 1 =>
        chain[target].at <= at \/ (target = asked.nonce /\ chain[asked.nonce].at > start)

\* No search gives up an attestation that an archive has.
GiveUpInv ==
    pc = "notFound" /\ Sparse =>
        firstState > 1 \/ (asked.mode = "nonce" /\ chain[asked.nonce].at > start)

\* The set that was found fits the nonce that is going to be taken.
Chosen ==
    IF asked.mode = "latest"
    THEN Sound => \A n \in Nonces : IsLatest(height, n) => valset = chain[n].set
    ELSE valset = chain[asked.nonce].set
Fits == (asked.mode = "latest" => Sound) => nonce \in Nonces /\ valset = chain[nonce].set

Sent == {"wait", "deployed", "ended"}
ResultInv ==
    /\ pc = "nonce" => Chosen
    /\ pc \in {"implementation", "proxy"} \union Sent => Fits
    /\ proxy # "none" => pc \in Sent
    /\ contract # NoContract =>
         proxy = "mined" /\ contract = [nonce |-> nonce, valset |-> valset]

DeployInv == TypeOK /\ PlaceInv /\ LatestInv /\ SearchInv /\ GiveUpInv /\ ResultInv

-----------------------------------------------------------------------------
(* Facts about the chain that the search rests on.                         *)

\* One nonce is the latest at a height.
LEMMA LatestUnique ==
    ASSUME NEW h, NEW m \in Nonces, NEW n \in Nonces, IsLatest(h, m), IsLatest(h, n)
    PROVE  m = n
<1>1. chain[m].at <= h /\ chain[n].at <= h
  BY DEF IsLatest, Nonces
<1>2. m <= n /\ n <= m
  BY <1>1 DEF IsLatest
<1> QED BY <1>2, BoundAssumption DEF Nonces

\* From a set up to the nonces it signs, that set is the last one.
LEMMA SetBetween ==
    ASSUME chain \in Chains, NEW m \in Nonces, NEW n \in Nonces,
           chain[n].set <= m, m <= n
    PROVE  chain[m].set = chain[n].set
<1>1. /\ chain[m].set \in Nonces /\ chain[m].set <= m /\ IsSet(chain[m].set)
      /\ chain[n].set \in Nonces /\ IsSet(chain[n].set)
  BY Attestation
<1>2. chain[m].set <= n
  BY <1>1, BoundAssumption DEF Nonces
<1>3. ~(chain[n].set < chain[m].set)
  BY <1>1, <1>2, Attestation
<1>4. ~(chain[m].set < chain[n].set)
  BY <1>1, Attestation
<1> QED BY <1>1, <1>3, <1>4, BoundAssumption DEF Nonces

\* The latest attestation is never pruned.
LEMMA LatestIsThere ==
    ASSUME NEW h, NEW n \in Nonces, IsLatest(h, n)
    PROVE  Has(h, n)
<1>1. chain[n].at <= h
  BY DEF IsLatest, Nonces
<1> QED BY <1>1 DEF Has

\* What was made and is not there any more was made more than its lifetime ago.
LEMMA PrunedIsOld ==
    ASSUME chain \in Chains, NEW h \in Nat, NEW n \in Nonces, ~Has(h, n), chain[n].at <= h
    PROVE  chain[n].at + Keep <= h
BY Attestation, BoundAssumption DEF Has

\* A block that brings no attestation changes nothing.
LEMMA QuietBlock ==
    ASSUME TypeOK, Block, pc \in Asking, ~moved'
    PROVE  /\ ~moved
           /\ \A n \in Nonces : chain'[n].at <= height' <=> chain[n].at <= height
<1>1. ~moved /\ ~\E n \in Nonces : chain[n].at = height + 1
  BY DEF Block
<1>2. chain' = chain /\ height' = height + 1 /\ height \in Nat
  BY DEF Block, TypeOK
<1>3. \A n \in Nonces : chain[n].at \in Nat
  BY Attestation DEF TypeOK
<1> QED BY <1>1, <1>2, <1>3

-----------------------------------------------------------------------------
(* Where the command is.                                                   *)

LEMMA PlaceStep ==
    ASSUME TypeOK, PlaceInv, [Next]_vars
    PROVE  PlaceInv'
<1> USE BoundAssumption
<1>a. /\ at \in Nat /\ start \in Nat /\ height \in Nat /\ target \in Nat /\ asked.nonce \in Nat
      /\ asked.nonce \in Nonces /\ asked.mode \in {"latest", "earliest", "nonce"}
      /\ chain[asked.nonce].set \in Nat /\ chain \in Chains
  <2>1. asked.nonce \in Nonces /\ asked.mode \in {"latest", "earliest", "nonce"}
    BY DEF TypeOK, Asks, Nonces
  <2>2. chain[asked.nonce].set \in Nonces
    BY <2>1, Attestation DEF TypeOK
  <2> QED BY <2>1, <2>2 DEF TypeOK, Nonces
<1>b. asked' = asked /\ chain' = chain
  BY DEF Next, Command, vars, chainVars, GetStartingValset, QueryHeight, QueryLatestNonce,
         QueryValset, QueryBefore, QueryFirst, QueryAttestation, ParseStartingNonce,
         DeployBlobstreamContract, WaitForTransaction, TimeOut, Block, Mine
<1>1. CASE GetStartingValset
  BY <1>1, <1>a, <1>b DEF GetStartingValset, PlaceInv, chainVars, Asks
<1>2. CASE QueryHeight
  <2>1. asked.mode = "nonce" => chain[asked.nonce].set <= asked.nonce
    BY <1>a, Attestation
  <2>2. 1 <= height
    BY DEF TypeOK
  <2> QED BY <1>2, <1>a, <1>b, <2>1, <2>2 DEF QueryHeight, Fail, PlaceInv, chainVars
<1>3. CASE QueryLatestNonce
  BY <1>3, <1>a, <1>b DEF QueryLatestNonce, Fail, PlaceInv, chainVars
<1>4. CASE QueryValset
  BY <1>4, <1>a, <1>b DEF QueryValset, PlaceInv, chainVars, searchVars
<1>5. CASE QueryBefore
  BY <1>5, <1>a, <1>b DEF QueryBefore, StepDown, PlaceInv, chainVars
<1>6. CASE QueryFirst
  BY <1>6, <1>a, <1>b DEF QueryFirst, PlaceInv, chainVars, searchVars
<1>7. CASE QueryAttestation
  <2>1. CASE /\ Has(at, target) /\ ~IsSet(target)
             /\ start' = IF target = asked.nonce THEN chain[target].at ELSE start
             /\ at' = start' /\ target' = target - 1 /\ pc' = pc
    <3>1. target \in Nonces /\ pc = "attestation"
      BY <1>7 DEF TypeOK, QueryAttestation
    <3>2. chain[asked.nonce].set # target
      BY <2>1, <1>a, Attestation
    <3>3. chain[target].at \in Nat /\ 1 <= chain[target].at /\ chain[target].at <= at
      BY <2>1, <3>1, <1>a, Attestation DEF Has
    <3>4. 1 <= at' /\ at' <= start' /\ at' <= height'
      <4>1. height' = height
        BY <1>7 DEF QueryAttestation, chainVars
      <4> QED BY <2>1, <3>1, <3>3, <1>a, <4>1 DEF PlaceInv
    <3> QED BY <2>1, <3>1, <3>2, <3>4, <1>a, <1>b DEF PlaceInv
  <2>2. CASE ~(Has(at, target) /\ ~IsSet(target) /\ at' = start' /\ target' = target - 1 /\ pc' = pc
               /\ start' = IF target = asked.nonce THEN chain[target].at ELSE start)
    BY <1>7, <2>2, <1>a, <1>b DEF QueryAttestation, StepDown, PlaceInv, chainVars
  <2> QED BY <2>1, <2>2
<1>8. CASE ParseStartingNonce
  BY <1>8, <1>a, <1>b DEF ParseStartingNonce, PlaceInv, chainVars, searchVars
<1>9. CASE DeployBlobstreamContract
  BY <1>9, <1>a, <1>b DEF DeployBlobstreamContract, PlaceInv, chainVars, searchVars
<1>10. CASE WaitForTransaction
  BY <1>10, <1>a, <1>b DEF WaitForTransaction, PlaceInv, chainVars, searchVars
<1>11. CASE TimeOut
  BY <1>11, <1>a, <1>b DEF TimeOut, Fail, PlaceInv, chainVars
<1>12. CASE Block
  BY <1>12, <1>a, <1>b DEF Block, PlaceInv, searchVars
<1>13. CASE Mine
  BY <1>13, <1>a, <1>b DEF Mine, PlaceInv, chainVars, searchVars
<1>14. CASE UNCHANGED vars
  BY <1>14, <1>a, <1>b DEF vars, PlaceInv, chainVars, searchVars
<1> QED BY <1>1, <1>2, <1>3, <1>4, <1>5, <1>6, <1>7, <1>8, <1>9, <1>10, <1>11, <1>12, <1>13, <1>14
        DEF Next, Command

-----------------------------------------------------------------------------
(* The search for the latest set.                                          *)

\* At a height that the search asks about, the latest nonce's set is the one
\* that is wanted.
LEMMA SetAtHeight ==
    ASSUME TypeOK, PlaceInv, NEW m \in Nonces, NEW n \in Nonces,
           IsLatest(at, m), IsLatest(height, n), chain[chain[n].set].at <= at
    PROVE  chain[m].set = chain[n].set
<1>1. chain \in Chains /\ at \in Nat /\ height \in Nat /\ at <= height
  BY BoundAssumption DEF TypeOK, PlaceInv
<1>2. chain[n].set \in Nonces
  BY <1>1, Attestation
<1>3. chain[n].set <= m
  BY <1>2 DEF IsLatest
<1>4. chain[m].at \in Nat /\ chain[m].at <= at
  BY <1>1, Attestation DEF IsLatest, Nonces
<1>5. m <= n
  BY <1>1, <1>4 DEF IsLatest
<1> QED BY <1>1, <1>3, <1>5, SetBetween

\* What is not answered in a past state that the node keeps, to a question about
\* the set before: the set is older than its lifetime.
LEMMA NoSetBefore ==
    ASSUME TypeOK, PlaceInv, LatestInv, pc = "before", at # 0, failures = 0,
           ~(Readable /\ latest > 1 /\ Has(Now, chain[latest - 1].set))
    PROVE  chain[chain[latest].set].at + Keep <= at
<1> USE BoundAssumption
<1>1. chain \in Chains /\ at \in Nat /\ latest \in Nonces
  BY DEF TypeOK
<1>2. Keeps(at) /\ IsLatest(at, latest) /\ ~IsSet(latest)
  BY DEF LatestInv
<1>3. latest > 1 /\ latest - 1 \in Nonces
  BY <1>1, <1>2, Attestation DEF Nonces
<1>4. chain[latest].set \in Nonces /\ chain[latest].set <= latest /\ chain[latest].set # latest
  BY <1>1, <1>2, Attestation DEF IsSet
<1>5. chain[latest - 1].set = chain[latest].set
  <2>1. chain[latest].set <= latest - 1 /\ latest - 1 <= latest
    BY <1>1, <1>4 DEF Nonces
  <2> QED BY <1>1, <1>3, <2>1, SetBetween
<1>6. chain[chain[latest].set].at <= at
  BY <1>2, <1>4 DEF IsLatest
<1>7. ~Has(at, chain[latest].set)
  BY <1>2, <1>3, <1>5 DEF Readable, Now
<1> QED BY <1>1, <1>4, <1>6, <1>7, PrunedIsOld

LEMMA LatestStep ==
    ASSUME TypeOK, PlaceInv, LatestInv, [Next]_vars
    PROVE  LatestInv'
<1> USE BoundAssumption
<1>a. /\ chain \in Chains /\ at \in Nat /\ height \in Nat /\ latest \in Nonces
      /\ at <= height /\ failures \in Nat
  BY DEF TypeOK, PlaceInv
<1>b. CASE pc' \notin {"latestNonce", "valset", "before"}
  BY <1>b DEF LatestInv
<1>1. CASE GetStartingValset
  <2>1. at' = 0 /\ pc' \notin {"valset", "before"}
    BY <1>1 DEF GetStartingValset, PlaceInv
  <2> QED BY <2>1 DEF LatestInv
<1>2. CASE QueryHeight
  <2>1. ASSUME NEW n \in Nonces, IsLatest(height, n) PROVE chain[chain[n].set].at <= height
    <3>1. chain[n].set \in Nonces /\ chain[n].set <= n
      BY <1>a, Attestation
    <3> QED BY <2>1, <3>1 DEF IsLatest
  <2>2. chain' = chain /\ height' = height
    BY <1>2 DEF QueryHeight, chainVars
  <2>3. \A n \in Nonces : IsLatest(height, n)' => chain[chain[n].set].at <= height
    BY <2>1, <2>2 DEF IsLatest
  <2>4. pc' \notin {"valset", "before"} /\ (pc' = "latestNonce" => at' = height)
    BY <1>2 DEF QueryHeight, Fail
  <2> QED BY <2>2, <2>3, <2>4 DEF LatestInv
<1>3. CASE QueryLatestNonce
  <2>1. chain' = chain /\ height' = height /\ firstState' = firstState /\ moved' = moved /\ pc = "latestNonce"
    BY <1>3 DEF QueryLatestNonce, chainVars
  <2>2. CASE latest' \in {n \in Nonces : Readable /\ IsLatest(Now, n)} /\ pc' = "valset" /\ UNCHANGED <<at, failures>>
    <3>1. Readable /\ IsLatest(Now, latest') /\ at' = at /\ failures' = failures
      BY <2>2
    <3>2. at # 0 => Keeps(at)' /\ IsLatest(at, latest)'
      BY <2>1, <3>1 DEF Readable, Now, Keeps, IsLatest
    <3>3. at = 0 => IsLatest(height, latest)'
      BY <2>1, <3>1 DEF Now, IsLatest
    <3>4. at # 0 /\ Sound' => \A n \in Nonces : IsLatest(height, n)' => chain[chain[n].set].at <= at
      BY <2>1, <3>1 DEF LatestInv, IsLatest, Sound, Sparse
    <3> QED BY <2>1, <2>2, <3>1, <3>2, <3>3, <3>4 DEF LatestInv
  <2>3. CASE pc' \notin {"latestNonce", "valset", "before"}
    BY <2>3, <1>b
  <2> QED BY <1>3, <2>2, <2>3 DEF QueryLatestNonce, Fail
<1>4. CASE QueryValset
  <2>1. /\ chain' = chain /\ height' = height /\ firstState' = firstState /\ moved' = moved
        /\ at' = at /\ latest' = latest /\ pc = "valset"
        /\ failures' = failures \/ failures' = failures + 1
    BY <1>4 DEF QueryValset, chainVars, searchVars, Errs, CallFails
  <2>2. CASE pc' = "before"
    <3>1. /\ at # 0 => Keeps(at)' /\ IsLatest(at, latest)'
          /\ at = 0 /\ ~moved => IsLatest(height, latest)'
      BY <2>1 DEF LatestInv, Keeps, IsLatest
    <3>2. at # 0 /\ Sound' => \A n \in Nonces : IsLatest(height, n)' => chain[chain[n].set].at <= at
      <4>1. Sound' => Sound
        BY <2>1, <1>a DEF Sound, Sparse
      <4> QED BY <2>1, <4>1 DEF LatestInv, IsLatest
    <3>3. ASSUME failures' = 0, at # 0 \/ ~moved PROVE ~IsSet(latest)
      <4>1. ~(Readable /\ Has(Now, latest) /\ IsSet(latest))
        BY <1>4, <2>2, <3>3, <1>a DEF QueryValset, Errs, CallFails
      <4>2. Readable /\ IsLatest(Now, latest)
        BY <2>1, <3>3 DEF LatestInv, Readable, Now
      <4> QED BY <4>1, <4>2, <1>a, LatestIsThere
    <3>4. IsSet(latest)' <=> IsSet(latest)
      BY <2>1 DEF IsSet
    <3> QED BY <2>1, <2>2, <3>1, <3>2, <3>3, <3>4 DEF LatestInv
  <2>3. CASE pc' = "nonce"
    BY <2>3, <1>b
  <2> QED BY <1>4, <2>2, <2>3 DEF QueryValset
<1>5. CASE QueryBefore
  <2>1. /\ chain' = chain /\ height' = height /\ moved' = moved /\ latest' = latest /\ pc = "before"
    BY <1>5 DEF QueryBefore, chainVars
  <2>2. CASE pc' = "latestNonce"
    <3>1. at # 0 /\ at' = at - Step /\ Errs(Readable /\ latest > 1 /\ Has(Now, chain[latest - 1].set))
      BY <1>5, <2>2 DEF QueryBefore, StepDown
    <3>2. ASSUME Sound', NEW n \in Nonces, IsLatest(height, n) PROVE chain[chain[n].set].at <= at'
      <4>1. Sound /\ ~(Readable /\ latest > 1 /\ Has(Now, chain[latest - 1].set))
        BY <2>1, <3>1, <3>2, <1>a DEF Errs, CallFails, Sound, Sparse
      <4>2. chain[chain[latest].set].at + Keep <= at
        BY <2>1, <3>1, <4>1, NoSetBefore DEF Sound, Sparse
      <4>3. chain[chain[n].set].at <= at /\ IsLatest(at, latest)
        BY <2>1, <3>1, <3>2, <4>1 DEF LatestInv
      <4>4. chain[latest].set = chain[n].set
        BY <3>2, <4>3, <1>a, SetAtHeight
      <4>5. chain[chain[n].set].at \in Nat
        <5>1. chain[n].set \in Nonces
          BY <1>a, Attestation
        <5> QED BY <5>1, <1>a, Attestation
      <4>6. Step <= Keep
        BY <4>1 DEF Sound, Sparse
      <4> QED BY <3>1, <4>2, <4>4, <4>5, <4>6, <1>a
    <3>3. \A n \in Nonces : IsLatest(height, n)' <=> IsLatest(height, n)
      BY <2>1 DEF IsLatest
    <3> QED BY <2>1, <2>2, <3>2, <3>3 DEF LatestInv
  <2>3. CASE pc' \notin {"latestNonce", "valset", "before"}
    BY <2>3, <1>b
  <2> QED BY <1>5, <2>2, <2>3 DEF QueryBefore, StepDown
<1>6. CASE QueryFirst \/ QueryAttestation \/ ParseStartingNonce \/ DeployBlobstreamContract
           \/ WaitForTransaction \/ TimeOut
  <2>1. pc' \notin {"latestNonce", "valset", "before"}
    BY <1>6 DEF QueryFirst, QueryAttestation, StepDown, ParseStartingNonce,
                DeployBlobstreamContract, WaitForTransaction, TimeOut, Fail
  <2> QED BY <2>1, <1>b
<1>7. CASE Block /\ pc' \in {"latestNonce", "valset", "before"}
  <2>1. /\ chain' = chain /\ firstState' = firstState /\ pc' = pc /\ at' = at /\ latest' = latest
        /\ failures' = failures
    BY <1>7 DEF Block, searchVars
  <2>2. pc \in Asking
    BY <1>7, <2>1 DEF Asking, Searching
  <2>3. ~moved' => ~moved /\ \A n \in Nonces : IsLatest(height, n)' <=> IsLatest(height, n)
    BY <1>7, <2>1, <2>2, QuietBlock DEF IsLatest
  <2>4. /\ Keeps(at)' <=> Keeps(at)
        /\ IsLatest(at, latest)' <=> IsLatest(at, latest)
        /\ IsSet(latest)' <=> IsSet(latest)
    BY <2>1 DEF Keeps, IsLatest, IsSet
  <2>5. ~moved' /\ IsLatest(height, latest) => IsLatest(height, latest)'
    BY <2>1, <2>3, <1>a DEF IsLatest
  <2>6. Sound' => Sound
    BY <2>1, <2>3 DEF Sound, Sparse
  <2>7. /\ pc' \in {"valset", "before"} /\ at' # 0 => Keeps(at)' /\ IsLatest(at, latest)'
        /\ pc' \in {"valset", "before"} /\ at' = 0 /\ ~moved' => IsLatest(height, latest)'
    BY <2>1, <2>3, <2>4, <2>5 DEF LatestInv
  <2>8. pc' = "before" /\ failures' = 0 /\ (at' # 0 \/ ~moved') => ~IsSet(latest)'
    BY <2>1, <2>3, <2>4 DEF LatestInv
  <2>9. ASSUME pc' \in {"latestNonce", "valset", "before"}, at' # 0, Sound',
               NEW n \in Nonces, IsLatest(height, n)'
        PROVE  chain[chain[n].set].at <= at
    <3>1. Sound /\ IsLatest(height, n)
      BY <2>3, <2>6, <2>9 DEF Sound
    <3> QED BY <2>1, <2>9, <3>1 DEF LatestInv
  <2> QED BY <2>1, <2>7, <2>8, <2>9 DEF LatestInv
<1>8. CASE Mine \/ UNCHANGED vars
  <2>1. UNCHANGED <<chain, firstState, height, moved, pc, at, latest, failures>>
    BY <1>8 DEF Mine, vars, chainVars, searchVars
  <2> QED BY <2>1 DEF LatestInv, IsLatest, IsSet, Keeps, Sound, Sparse
<1> QED BY <1>1, <1>2, <1>3, <1>4, <1>5, <1>6, <1>7, <1>8, <1>b DEF Next, Command

-----------------------------------------------------------------------------
(* The search by nonce, and giving up.                                     *)

\* What a past state that an archive keeps does not answer, of an attestation
\* made by then, is older than its lifetime.
LEMMA NoAttestation ==
    ASSUME TypeOK, PlaceInv, SearchInv, pc = "attestation", Sparse, firstState <= 1,
           ~(Readable /\ Has(at, target))
    PROVE  \/ chain[target].at + Keep <= at
           \/ target = asked.nonce /\ chain[asked.nonce].at > start
<1>1. chain \in Chains /\ at \in Nat /\ 1 <= at /\ firstState \in Nat /\ target \in Nonces
  BY BoundAssumption DEF TypeOK, PlaceInv
<1>2. Readable
  BY <1>1 DEF Readable, Keeps
<1>3. CASE chain[target].at <= at
  BY <1>1, <1>2, <1>3, PrunedIsOld
<1> QED BY <1>3 DEF SearchInv

LEMMA SearchStep ==
    ASSUME TypeOK, PlaceInv, SearchInv, [Next]_vars
    PROVE  SearchInv'
<1> USE BoundAssumption
<1>a. CASE pc' # "attestation"
  BY <1>a DEF SearchInv
<1>b. chain \in Chains /\ at \in Nat /\ start \in Nat /\ target \in Nonces /\ failures \in Nat
  BY DEF TypeOK
<1>1. CASE QueryHeight
  <2>1. pc' = "attestation" => at' = height /\ start' = height /\ asked.mode # "latest"
    BY <1>1 DEF QueryHeight, Fail
  <2>2. UNCHANGED <<chain, asked, target>> /\ pc = "height"
    BY <1>1 DEF QueryHeight, chainVars
  <2>3. asked.mode = "nonce" => target = asked.nonce
    BY <2>2 DEF PlaceInv
  <2>4. chain[target].at \in Nat /\ height \in Nat
    BY <1>b, Attestation DEF TypeOK
  <2> QED BY <2>1, <2>2, <2>3, <2>4 DEF SearchInv, PlaceInv
<1>2. CASE QueryAttestation /\ pc' = "attestation"
  <2>1. pc = "attestation" /\ UNCHANGED <<chain, firstState, asked>>
    BY <1>2 DEF QueryAttestation, chainVars
  <2>2. CASE /\ Has(at, target) /\ ~IsSet(target) /\ failures' = failures
             /\ start' = IF target = asked.nonce THEN chain[target].at ELSE start
             /\ at' = start' /\ target' = target - 1
    <3>1. chain[target].at <= at /\ at <= start
      BY <2>1, <2>2 DEF Has, PlaceInv
    <3>2. target' \in Nonces /\ target' <= target
      <4>1. target # 1
        BY <1>b, <2>2, Attestation
      <4> QED BY <1>b, <2>2, <4>1 DEF Nonces
    <3>3. chain[target'].at <= chain[target].at /\ chain[target'].at \in Nat /\ chain[target].at \in Nat
      BY <1>b, <3>2, Ordered, Attestation
    <3>4. chain[target'].at <= at'
      BY <1>b, <2>2, <3>1, <3>3
    <3> QED BY <2>1, <3>4 DEF SearchInv
  <2>3. CASE /\ Errs(Readable /\ Has(at, target)) /\ StepDown("attestation")
             /\ UNCHANGED <<start, target, valset>>
    <3>1. at' = at - Step
      BY <1>2, <2>3 DEF StepDown
    <3>2. ASSUME Sparse', firstState <= 1
          PROVE  chain[target].at <= at' \/ (target = asked.nonce /\ chain[asked.nonce].at > start)
      <4>1. Sparse /\ ~(Readable /\ Has(at, target)) /\ Step <= Keep
        BY <1>b, <2>3, <3>2 DEF Errs, CallFails, Sparse
      <4>2. chain[target].at \in Nat
        BY <1>b, Attestation
      <4>3. CASE chain[target].at + Keep <= at
        BY <3>1, <4>1, <4>2, <4>3, <1>b
      <4> QED BY <2>1, <3>2, <4>1, <4>3, NoAttestation
    <3> QED BY <2>1, <2>3, <3>2 DEF SearchInv
  <2> QED BY <1>2, <2>1, <2>2, <2>3 DEF QueryAttestation
<1>3. CASE UNCHANGED <<chain, firstState, asked, pc, at, start, target, failures>>
  BY <1>3 DEF SearchInv, Sparse
<1>4. CASE Block \/ Mine \/ UNCHANGED vars
  BY <1>3, <1>4 DEF Block, Mine, vars, chainVars, searchVars
<1>5. CASE QueryBefore
  BY <1>5, <1>a DEF QueryBefore, StepDown
<1>6. CASE GetStartingValset \/ QueryLatestNonce \/ QueryValset \/ QueryFirst \/ ParseStartingNonce
           \/ DeployBlobstreamContract \/ WaitForTransaction \/ TimeOut
  BY <1>6, <1>a DEF GetStartingValset, QueryLatestNonce, QueryValset, QueryFirst, ParseStartingNonce,
                    DeployBlobstreamContract, WaitForTransaction, TimeOut, Fail
<1> QED BY <1>1, <1>2, <1>4, <1>5, <1>6, <1>a DEF Next, Command

LEMMA GiveUpStep ==
    ASSUME TypeOK, PlaceInv, LatestInv, SearchInv, GiveUpInv, [Next]_vars
    PROVE  GiveUpInv'
<1> USE BoundAssumption
<1>a. CASE pc' # "notFound"
  BY <1>a DEF GiveUpInv
<1>b. chain \in Chains /\ at \in Nat /\ target \in Nonces /\ latest \in Nonces /\ failures \in Nat
      /\ firstState \in Nat
  BY DEF TypeOK
<1>1. CASE QueryBefore /\ pc' = "notFound"
  <2>1. /\ UNCHANGED <<chain, firstState, asked, start>> /\ pc = "before" /\ at # 0 /\ at <= Step
        /\ Errs(Readable /\ latest > 1 /\ Has(Now, chain[latest - 1].set))
    BY <1>1 DEF QueryBefore, StepDown, chainVars
  <2>2. ~Sparse'
    <3> SUFFICES ASSUME Sparse' PROVE FALSE
      OBVIOUS
    <3>1. failures = 0 /\ Step <= Keep /\ ~(Readable /\ latest > 1 /\ Has(Now, chain[latest - 1].set))
      BY <2>1, <1>b DEF Errs, CallFails, Sparse
    <3>2. chain[chain[latest].set].at + Keep <= at
      BY <2>1, <3>1, NoSetBefore
    <3>3. chain[chain[latest].set].at \in Nat /\ chain[chain[latest].set].at >= 1
      <4>1. chain[latest].set \in Nonces
        BY <1>b, Attestation
      <4> QED BY <1>b, <4>1, Attestation
    <3> QED BY <2>1, <3>1, <3>2, <3>3, <1>b
  <2> QED BY <2>2 DEF GiveUpInv
<1>2. CASE QueryAttestation /\ pc' = "notFound"
  <2>1. /\ UNCHANGED <<chain, firstState, asked, start>> /\ pc = "attestation" /\ at <= Step
        /\ Errs(Readable /\ Has(at, target))
    BY <1>2 DEF QueryAttestation, StepDown, chainVars
  <2>2. ASSUME Sparse', firstState <= 1
        PROVE  asked.mode = "nonce" /\ chain[asked.nonce].at > start
    <3>1. Sparse /\ Step <= Keep /\ ~(Readable /\ Has(at, target))
      BY <2>1, <2>2, <1>b DEF Errs, CallFails, Sparse
    <3>2. chain[target].at \in Nat /\ chain[target].at >= 1
      BY <1>b, Attestation
    <3>3. ~(chain[target].at + Keep <= at)
      BY <2>1, <3>1, <3>2, <1>b
    <3> QED BY <2>1, <2>2, <3>1, <3>3, NoAttestation DEF PlaceInv
  <2> QED BY <2>1, <2>2, <1>b DEF GiveUpInv
<1>3. CASE Block \/ Mine \/ UNCHANGED vars
  <2>1. UNCHANGED <<chain, firstState, asked, pc, start, failures>>
    BY <1>3 DEF Block, Mine, vars, chainVars, searchVars
  <2> QED BY <2>1 DEF GiveUpInv, Sparse
<1>4. CASE GetStartingValset \/ QueryHeight \/ QueryLatestNonce \/ QueryValset \/ QueryFirst
           \/ ParseStartingNonce \/ DeployBlobstreamContract \/ WaitForTransaction \/ TimeOut
  BY <1>4, <1>a DEF GetStartingValset, QueryHeight, QueryLatestNonce, QueryValset, QueryFirst,
                    ParseStartingNonce, DeployBlobstreamContract, WaitForTransaction, TimeOut, Fail
<1> QED BY <1>1, <1>2, <1>3, <1>4, <1>a DEF Next, Command

-----------------------------------------------------------------------------
(* The set and the nonce that are deployed.                                *)

\* The set that a query for the latest one returns is the one that is wanted.
LEMMA FoundTheLatest ==
    ASSUME TypeOK, PlaceInv, LatestInv, pc \in {"valset", "before"}, Sound,
           NEW n \in Nonces, IsLatest(height, n)
    PROVE  chain[latest].set = chain[n].set
<1>1. chain \in Chains /\ latest \in Nonces
  BY DEF TypeOK
<1>2. CASE at = 0
  <2>1. IsLatest(height, latest)
    BY <1>2 DEF LatestInv, Sound
  <2> QED BY <2>1, <1>1, LatestUnique
<1>3. CASE at # 0
  <2>1. IsLatest(at, latest) /\ chain[chain[n].set].at <= at
    BY <1>3 DEF LatestInv
  <2> QED BY <2>1, <1>1, SetAtHeight
<1> QED BY <1>2, <1>3

LEMMA ResultStep ==
    ASSUME TypeOK, PlaceInv, LatestInv, ResultInv, [Next]_vars
    PROVE  ResultInv'
<1> USE BoundAssumption
<1> DEFINE Rest == {"implementation", "proxy"} \union Sent
<1>a. chain \in Chains /\ latest \in Nonces /\ target \in Nonces /\ failures \in Nat
      /\ asked \in Asks /\ asked.nonce \in Nonces
  BY DEF TypeOK, Asks, Nonces
\* a step of the search that ends it with a set, or not
<1>b. ASSUME UNCHANGED <<proxy, contract, implementation, nonce>>, pc \notin Rest, pc' \notin Rest,
             pc' = "nonce" => Chosen'
      PROVE  ResultInv'
  <2>1. proxy = "none" /\ contract = NoContract
    BY <1>b DEF ResultInv, Sent
  <2>2. proxy' = "none" /\ contract' = NoContract
    BY <1>b, <2>1
  <2>3. NoContract' = NoContract
    BY DEF NoContract
  <2> QED BY <1>b, <2>2, <2>3 DEF ResultInv
<1>c. ASSUME UNCHANGED <<chain, asked, height, moved>>, failures' = 0 => failures = 0,
             asked.mode = "latest" /\ Sound => valset' = chain[latest].set,
             asked.mode = "latest" => pc \in {"valset", "before"},
             asked.mode # "latest" => valset' = chain[asked.nonce].set
      PROVE  Chosen'
  <2>1. Sound' => Sound
    BY <1>c DEF Sound, Sparse
  <2>2. ASSUME asked.mode = "latest", Sound', NEW n \in Nonces, IsLatest(height, n)'
        PROVE  valset' = chain[n].set
    <3>1. IsLatest(height, n)
      BY <1>c, <2>2 DEF IsLatest
    <3> QED BY <1>c, <2>1, <2>2, <3>1, FoundTheLatest
  <2> QED BY <1>c, <2>2 DEF Chosen
<1>1. CASE GetStartingValset \/ QueryHeight \/ QueryLatestNonce \/ TimeOut
  <2>1. /\ UNCHANGED <<proxy, contract, implementation, nonce>>
        /\ pc \in Searching \union {"run"} /\ pc' \in Searching \union {"failed"} /\ pc' # "nonce"
    BY <1>1 DEF GetStartingValset, QueryHeight, QueryLatestNonce, TimeOut, Fail, resultVars, evmVars, Searching
  <2>2. pc \notin Rest /\ pc' \notin Rest
    BY <2>1 DEF Searching, Sent
  <2> QED BY <2>1, <2>2, <1>b
<1>2. CASE QueryValset
  <2>1. /\ UNCHANGED <<proxy, contract, implementation, nonce>>
        /\ UNCHANGED <<chain, asked, height, moved>> /\ pc = "valset" /\ pc' \in {"nonce", "before"}
    BY <1>2 DEF QueryValset, chainVars, evmVars
  <2>2. ASSUME pc' = "nonce" PROVE Chosen'
    <3>1. IsSet(latest) /\ valset' = latest /\ failures' = failures
      BY <1>2, <2>2 DEF QueryValset
    <3>2. valset' = chain[latest].set
      BY <3>1 DEF IsSet
    <3>3. asked.mode = "latest"
      BY <2>1 DEF PlaceInv
    <3> QED BY <2>1, <3>1, <3>2, <3>3, <1>c
  <2>3. pc \notin Rest /\ pc' \notin Rest
    BY <2>1 DEF Sent
  <2> QED BY <2>1, <2>2, <2>3, <1>b
<1>3. CASE QueryBefore
  <2>1. /\ UNCHANGED <<proxy, contract, implementation, nonce>>
        /\ UNCHANGED <<chain, asked, height, moved, latest>> /\ pc = "before"
        /\ pc' \in {"nonce", "height", "notFound", "latestNonce"}
    BY <1>3 DEF QueryBefore, StepDown, chainVars, evmVars
  <2>2. ASSUME pc' = "nonce" PROVE Chosen'
    <3>1. valset' = chain[latest - 1].set /\ failures' = failures /\ latest > 1
      BY <1>3, <2>2 DEF QueryBefore, StepDown
    <3>2. ASSUME Sound PROVE valset' = chain[latest].set
      <4>1. ~IsSet(latest)
        BY <2>1, <3>2 DEF LatestInv, Sound, Sparse
      <4>2. chain[latest].set \in Nonces /\ chain[latest].set <= latest /\ chain[latest].set # latest
        BY <4>1, <1>a, Attestation DEF IsSet
      <4>3. latest - 1 \in Nonces /\ chain[latest].set <= latest - 1 /\ latest - 1 <= latest
        BY <3>1, <4>2, <1>a DEF Nonces
      <4> QED BY <3>1, <4>3, <1>a, SetBetween
    <3>3. asked.mode = "latest"
      BY <2>1 DEF PlaceInv
    <3> QED BY <2>1, <3>1, <3>2, <3>3, <1>c
  <2>3. pc \notin Rest /\ pc' \notin Rest
    BY <2>1 DEF Sent
  <2> QED BY <2>1, <2>2, <2>3, <1>b
<1>4. CASE QueryFirst
  <2>1. /\ UNCHANGED <<proxy, contract, implementation, nonce>>
        /\ UNCHANGED <<chain, asked, height, moved>> /\ pc \in {"first", "firstHistory"}
        /\ pc' \in {"nonce", "firstHistory", "failed"}
    BY <1>4 DEF QueryFirst, chainVars, evmVars
  <2>2. ASSUME pc' = "nonce" PROVE Chosen'
    <3>1. valset' = 1 /\ failures' = failures
      BY <1>4, <2>2 DEF QueryFirst
    <3>2. asked.mode = "earliest" /\ asked.nonce = 1
      <4>1. asked.mode = "earliest"
        BY <2>1 DEF PlaceInv
      <4> QED BY <4>1, <1>a DEF Asks
    <3>3. chain[1].set = 1
      BY <3>2, <1>a, Attestation DEF IsSet
    <3> QED BY <2>1, <3>1, <3>2, <3>3, <1>c
  <2>3. pc \notin Rest /\ pc' \notin Rest
    BY <2>1 DEF Sent
  <2> QED BY <2>1, <2>2, <2>3, <1>b
<1>5. CASE QueryAttestation
  <2>1. /\ UNCHANGED <<proxy, contract, implementation, nonce>>
        /\ UNCHANGED <<chain, asked, height, moved>> /\ pc = "attestation"
        /\ pc' \in {"nonce", "attestation", "notFound"}
    BY <1>5 DEF QueryAttestation, StepDown, chainVars, evmVars
  <2>2. ASSUME pc' = "nonce" PROVE Chosen'
    <3>1. IsSet(target) /\ valset' = target /\ failures' = failures
      BY <1>5, <2>1, <2>2 DEF QueryAttestation, StepDown
    <3>2. asked.mode = "nonce" /\ chain[asked.nonce].set <= target /\ target <= asked.nonce
      BY <2>1 DEF PlaceInv
    <3>3. chain[target].set = chain[asked.nonce].set
      BY <3>2, <1>a, SetBetween
    <3> QED BY <2>1, <3>1, <3>2, <3>3, <1>c DEF IsSet
  <2>3. pc \notin Rest /\ pc' \notin Rest
    BY <2>1 DEF Sent
  <2> QED BY <2>1, <2>2, <2>3, <1>b
<1>6. CASE ParseStartingNonce
  <2>1. /\ UNCHANGED <<proxy, contract>> /\ UNCHANGED <<chain, asked, height, moved, valset>>
        /\ pc = "nonce" /\ pc' \in {"implementation", "failed"}
    BY <1>6 DEF ParseStartingNonce, chainVars, evmVars
  <2>2. ASSUME pc' = "implementation" PROVE Fits'
    <3>1. StartingNonce(nonce') /\ nonce' \in Nonces /\ failures' = failures /\ Chosen
      BY <1>6, <2>1, <2>2 DEF ParseStartingNonce, ResultInv
    <3>2. ASSUME asked.mode = "latest" => Sound PROVE valset = chain[nonce'].set
      BY <3>1, <3>2 DEF StartingNonce, Chosen
    <3>3. Sound' <=> Sound
      BY <2>1, <3>1 DEF Sound, Sparse
    <3> QED BY <2>1, <3>1, <3>2, <3>3 DEF Fits
  <2>3. proxy' = "none" /\ contract' = NoContract
    BY <2>1 DEF ResultInv, Sent
  <2> QED BY <2>1, <2>2, <2>3 DEF ResultInv, Sent, NoContract
\* what was chosen does not change any more, and is what the contract gets
<1>d. ASSUME UNCHANGED <<chain, asked, valset, nonce>>, ~moved' => ~moved,
             failures' = 0 => failures = 0, Fits
      PROVE  Fits'
  <2>1. Sound' => Sound
    BY <1>d DEF Sound, Sparse
  <2> QED BY <1>d, <2>1 DEF Fits
<1>7. CASE DeployBlobstreamContract
  <2>1. /\ UNCHANGED <<chain, asked, moved, valset, nonce, contract>>
        /\ pc \in {"implementation", "proxy"} /\ (failures' = 0 => failures = 0)
        /\ pc' \in {"proxy", "wait", "failed"} /\ (pc' # "wait" => proxy' = proxy)
    BY <1>7, <1>a DEF DeployBlobstreamContract, CallFails, chainVars, resultVars
  <2>2. Fits'
    BY <2>1, <1>d DEF ResultInv
  <2>3. contract' = NoContract
    BY <2>1 DEF ResultInv, Sent
  <2>4. proxy' # "none" => pc' = "wait"
    BY <2>1 DEF ResultInv, Sent
  <2> QED BY <2>1, <2>2, <2>3, <2>4 DEF ResultInv, Sent, NoContract
<1>8. CASE WaitForTransaction
  <2>1. /\ UNCHANGED <<chain, asked, moved, failures, valset, nonce, contract, proxy>>
        /\ pc = "wait" /\ pc' \in {"deployed", "ended"}
    BY <1>8 DEF WaitForTransaction, chainVars, resultVars, evmVars
  <2>2. Fits'
    BY <2>1, <1>d DEF ResultInv, Sent
  <2> QED BY <2>1, <2>2 DEF ResultInv, Sent, NoContract
<1>9. CASE Block
  <2>1. /\ UNCHANGED <<chain, asked, pc, failures, valset, nonce, contract, proxy>>
        /\ ~moved' => ~moved
    BY <1>9 DEF Block, searchVars, resultVars, evmVars
  <2>2. ASSUME pc = "nonce" PROVE Chosen'
    <3>1. Chosen
      BY <2>2 DEF ResultInv
    <3>2. CASE asked.mode = "latest"
      <4>1. ASSUME Sound', NEW n \in Nonces, IsLatest(height, n)' PROVE valset = chain[n].set
        <5>1. ~moved'
          BY <4>1 DEF Sound
        <5>2. \A m \in Nonces : chain'[m].at <= height' <=> chain[m].at <= height
          BY <1>9, <2>2, <5>1, QuietBlock DEF Asking
        <5>3. IsLatest(height, n)
          BY <4>1, <5>2 DEF IsLatest
        <5>4. Sound
          BY <2>1, <4>1 DEF Sound, Sparse
        <5> QED BY <3>1, <3>2, <5>3, <5>4 DEF Chosen
      <4> QED BY <2>1, <3>2, <4>1 DEF Chosen
    <3>3. CASE asked.mode # "latest"
      BY <2>1, <3>1, <3>3 DEF Chosen
    <3> QED BY <3>2, <3>3
  <2>3. pc \in Rest => Fits'
    BY <2>1, <1>d DEF ResultInv
  <2> QED BY <2>1, <2>2, <2>3 DEF ResultInv, NoContract
<1>10. CASE Mine
  <2>1. /\ UNCHANGED <<chain, asked, height, pc, moved, failures, valset, nonce>>
        /\ proxy' # "none" => proxy # "none"
        /\ \/ contract' = contract /\ (proxy = "mined" => proxy' = "mined")
           \/ proxy' = "mined" /\ contract' = [nonce |-> nonce, valset |-> valset]
    BY <1>10 DEF Mine, chainVars, searchVars, resultVars
  <2>2. pc = "nonce" => Chosen'
    BY <2>1 DEF ResultInv, Chosen, Sound, Sparse, IsLatest
  <2>3. pc \in Rest => Fits'
    BY <2>1, <1>d DEF ResultInv
  <2> QED BY <2>1, <2>2, <2>3 DEF ResultInv, NoContract
<1>11. CASE UNCHANGED vars
  <2>1. UNCHANGED <<chain, asked, height, pc, moved, failures, valset, nonce, contract, proxy>>
    BY <1>11 DEF vars, chainVars, resultVars, evmVars
  <2> QED BY <2>1 DEF ResultInv, Chosen, Fits, Sound, Sparse, IsLatest, NoContract
<1> QED BY <1>1, <1>2, <1>3, <1>4, <1>5, <1>6, <1>7, <1>8, <1>9, <1>10, <1>11 DEF Next, Command

-----------------------------------------------------------------------------
(* The theorems.                                                           *)

LEMMA DeployInit == Init => DeployInv
<1> SUFFICES ASSUME Init PROVE PlaceInv /\ LatestInv /\ SearchInv /\ GiveUpInv /\ ResultInv
  BY InitTyped DEF DeployInv
<1>1. pc = "run" /\ at = 0 /\ start = 0 /\ 0 <= height /\ proxy = "none" /\ contract = NoContract
  BY DEF Init
<1> QED BY <1>1 DEF PlaceInv, LatestInv, SearchInv, GiveUpInv, ResultInv, Sent

LEMMA DeployStep == ASSUME DeployInv, [Next]_vars PROVE DeployInv'
BY NextTyped, PlaceStep, LatestStep, SearchStep, GiveUpStep, ResultStep DEF DeployInv

THEOREM DeployInvariant == Spec => []DeployInv
BY DeployInit, DeployStep, PTL DEF Spec

LEMMA DeployedIsUsable == DeployInv => ContractIsUsable
<1> SUFFICES ASSUME DeployInv, asked.mode = "latest" => failures = 0 /\ ~moved /\ Step <= Keep,
                    contract # NoContract
             PROVE  contract.valset = chain[contract.nonce].set
  BY DEF ContractIsUsable, StartsWithItsSet
<1>1. proxy = "mined" /\ contract = [nonce |-> nonce, valset |-> valset]
  BY DEF DeployInv, ResultInv
<1>2. Fits
  BY <1>1 DEF DeployInv, ResultInv
<1>3. asked.mode = "latest" => Sound
  BY DEF Sound, Sparse
<1> QED BY <1>1, <1>2, <1>3 DEF Fits

LEMMA NotFoundIsComplete == DeployInv => NotFoundIsNotThere
<1> SUFFICES ASSUME DeployInv, pc = "notFound", Step <= Keep, ~(failures > 0)
             PROVE  firstState > 1 \/ (asked.mode = "nonce" /\ chain[asked.nonce].at > start)
  BY DEF NotFoundIsNotThere
<1>1. failures = 0
  BY BoundAssumption DEF DeployInv, TypeOK
<1> QED BY <1>1 DEF DeployInv, GiveUpInv, Sparse

\* A contract that was deployed is usable: it starts with the set that signs the
\* attestation after its nonce, whatever the node has pruned, however the chain
\* goes on and whichever queries fail.  For the latest set under the three
\* conditions that the property states.
THEOREM ContractStartsRight == Spec => []ContractIsUsable
BY DeployedIsUsable, DeployInvariant, PTL

\* The search through an archive node's past states finds every attestation that
\* was made by the height it starts from, if attestations live for a step.
THEOREM SearchIsComplete == Spec => []NotFoundIsNotThere
BY NotFoundIsComplete, DeployInvariant, PTL
=============================================================================
