# Blobstream orchestrator and relayer: TLA+ specifications

This directory specifies the Blobstream orchestrator and relayer: Go programs
that carry attestations from a Celestia chain to a contract on an EVM chain.
TLC checks the specifications on small instances, and TLAPS proves the main
safety properties for all values of the constants. `PROJECT.json` lists the
runs, which source lines each definition models, the hazards of the code, and
the theorems.

## The system

Celestia-app makes *attestations*, numbered by nonces from 1: validator sets and
data commitments. Attestation *n* is signed by the last validator set before
*n*. Every validator runs an **orchestrator**, which signs attestations and puts
its confirms in a **P2P network** (a DHT). A **relayer** asks the network for
the confirms, and when they have 2/3 of the set's power, submits the attestation
to the **contract** together with them. The contract takes attestations in the
order of their nonces, and trusts the validator set it saw last. The **deploy**
command creates the contract.

```
 celestia-app --events, queries--> orchestrator --put confirm--> DHT <--get-- relayer --tx--> contract
      |                                |  put "latest" set -------^             |                ^
      |                                +--- home: stores, lock ---------------- +                |
      +-----------------------------------queries---------------------------- deploy ------------+
```

### Components

| Component (source) | State | Operations | Module |
| --- | --- | --- | --- |
| Orchestrator (`orchestrator/`) | two bounded channels of nonces, three goroutines and their helpers, a subscription | listen, enqueue missing, process, retry, requeue, reconnect, stop | `Orchestrator` |
| Relayer (`relayer/`, parts of `evm/`) | what it relays and waits for, the backup flag, the signature store | relay the next attestation, update the set, submit, wait, speed up, retry | `Relayer` |
| P2P network (`p2p/`, `types/`, `evm/ethereum_signature.go`) | each peer's datastore | put, validate, select, get, query for 2/3 | `Network` |
| The whole: orchestrators, relayers, contract | who has signed what, and which signatures a transaction carries | confirm, gather, submit, verify | `System` |
| Store and lock (`store/`, `store/fslock/`) | a directory tree, a lock file, open databases | init, open, close, lock, unlock | `Store` |
| Deploy command (`cmd/blobstream/deploy/`, `rpc/app_querier.go`) | a search position, two transactions | find the starting set and nonce, search past states, deploy | `Deploy` |
| Queriers (`rpc/`) | a connection | query, subscribe, reconnect | in `Orchestrator`, `Relayer`, `Deploy`, `Query` |
| Retrier, tickers, interrupt (`helpers/`) | a count of attempts | retry, tick, cancel | in the modules that use them |
| Service commands (`cmd/blobstream/{orchestrator,relayer}`, `common`, `telemetry`) | `config.toml`, what start acquired and has registered to be stopped | init, start, signal, stop | `Service` |
| Keys commands (`cmd/blobstream/keys/`) | two keystores | add, import, delete, update; the services' account and identity | `Keys` |
| Query command (`cmd/blobstream/query/`) | the nonces still to ask for, what it found, its report | signers of a nonce, signers of a range, one signature | `Query` |
| Bootstrapper (`cmd/blobstream/bootstrapper/`) | an identity | init, start | partly, in `Store`, `Keys`, `Network` |
| Configuration (`cmd/blobstream/*/config.go`) | `config.toml` | create, read, validate | partly, in `Service` |
| Test harnesses | containers, simulated chains | | not modelled |

### What is hard in each of them, and what makes it correct

- **Orchestrator.** The goroutines share two bounded channels which each of them
  sends to and receives from, and helper goroutines hold nonces that nothing
  waits for. Calls fail, the subscription is lost and replaced, attestations are
  pruned between retries, the context is cancelled at any point. Correct means
  that no nonce is forgotten between goroutines, that what counts as handled has
  its confirm in the network, that attestations are missed only in known ways,
  that full channels block nobody for ever, and that stopping works.
- **Relayer.** Several relayers read the contract, wait up to half an hour for
  signatures and then write, with account nonces and validator sets that may be
  stale by then. Correct means that what is submitted for the contract's next
  nonce is accepted, that the account nonce is free, that signatures are stored
  first, and that together the relayers bring every attestation to the contract.
- **Network.** Values arrive late, twice, in any order and from anybody; peers
  come and go; a query counts power in one way and lays out signatures in
  another. Correct means that what the query returns is enough for the contract,
  that no peer falls back to an older set, and that enough reachable confirms are
  found in the end.
- **The whole.** The query counts signatures with the set that the relayer found, the
  layout goes by a set that it asks for again, the contract counts with the set it
  trusts half an hour later. Correct means that the three agree whenever the
  contract takes the attestation, and that nothing but 2/3 of the right set relays it.
- **Store.** Processes race on one home directory and are killed in the middle.
  Correct means mutual exclusion, databases that are closed, and a home from
  which a service always starts again.
- **Deploy.** A chain that moves on between queries, pruned states, a search with
  unsigned heights. Correct means a contract that accepts the next attestation,
  a search that finds what an archive node has, and a command that returns.
- **Keys.** Commands wait for passphrases and answers with an account in hand that
  other commands change or remove, no lock is taken, a kill leaves half a key, and
  a service chooses its identity from what it finds. Correct means a keystore that
  is what the commands reported, nicknames that are free, and a service that
  starts with the keys it has.
- **Services.** A file that one command truncates and another reads, an operator who
  edits it, resources that are acquired one after the other, signals that are not
  trapped from the beginning, stop functions that are registered late. Correct means
  that an edit is never overwritten, that a service runs with the settings it needs,
  that no DHT outlives its store, and that nothing left behind prevents a start.
- **Queries.** Dozens of lookups one after the other, while confirms arrive and
  validators change their monikers and addresses or leave, over a node that prunes.
  Correct means a report that credits and denies nobody wrongly, shows nobody under
  what he never was, and is made in the end.

## The modules

| Module | What it is |
| --- | --- |
| `Orchestrator`, `MCOrchestrator` | one orchestrator process, its node and its share of the network |
| `OrchestratorProofs` | its theorems |
| `Bridge` | the abstract specification of what relayers promise together |
| `Relayer`, `MCRelayer` | relayers, the EVM mempool and the contract |
| `System`, `MCSystem` | `Relayer` with the orchestrators and the signatures one by one; `ImplementsRelayers` is the refinement to `Relayer`, `SystemIsABridge` that to `Bridge` |
| `RelayerProofs` | the theorems of `Relayer` and `System` |
| `Signing` | the abstract specification of what the network and the query promise about one attestation |
| `Network`, `NetworkProofs`, `MCNetwork` | the DHT, the validators, the 2/3 query, one attestation at a time; `ImplementsQuorum` is the refinement to `Signing` |
| `Store`, `MCStore` | a home directory, its lock and processes step by step |
| `Service`, `MCService` | the init and start commands of services on a home of `Store`, next to keys commands |
| `StoreProofs` | the theorems of `Store` and `Service` |
| `Deploy`, `MCDeploy` | the deploy command and its searches |
| `Query`, `MCQuery` | the query command, over the node of `Deploy` |
| `DeployProofs`, `QueryProofs` | the theorems of `Deploy`, and of `Query` |
| `Keys`, `KeysProofs`, `MCKeys` | the keystores of a home, the keys commands and a service that starts from them |
| `SetLemmas` | sums over finite sets, maxima, and the set before a nonce: lemmas for the proofs of several modules |

A definition named `X_Y` next to `X` is a faulty variant of `X`; the mutants
listed in `PROJECT.json` put it in the place of `X`, and the property named
there is then violated.

### Orchestrator and the code

`noncesQueue` and `requeueQueue` are the channels that `Start` makes, of
`QueueSize` each. `lpc`, `epc` and `ppc` are where `StartNewEventsListener`,
`EnqueueMissingEvents` and `ProcessNonces` are. An action is the code between
two points where a goroutine can block or be overtaken: a receive, a send, a
call, a select; the enqueuer's two queries (`EQuery`, `EQueryEarliest`) are two
such steps, between which the chain moves on. It is assumed only that an attestation
outlives them: the one that was the latest at the first is not pruned at the second
(`Prune`). `MaybeRequeue` and the two ends of the ticker's helper run in
goroutines of their own, which have no identity, so they are counted by the
nonce they hold (`mrQuery`, `mrSend`, `tgRecv`, `tgSend`). `PQueryAttestation`,
`PQueryPrevious` and `PSign` are `Process`, cut at its calls, with the early
returns of each; `PRetry` is the `Retrier`, and `PGiveUp` what follows when its
attempts are spent. `LHealthTick`, `LRedial` and `LResubscribe` are the health
ticker's branch. `LoseResults` is what replacing the results channel does to the
events in it. A call answers, or returns an error: because the node is down,
because the context is cancelled, or, `MaxFailures` times, for no reason seen
here. A put that returns an error may have stored the confirm. `CloseQueues`
closes both channels after the wait group; a helper's later send is `panicked`.
`Restart` is a new process: channels and helpers are gone, the network keeps its
confirms. History variables: `known`, `handled` and `dropped` follow the nonces,
`lost` is what no one was told of, `blind` are attestations signed without
seeing the set that has to sign.

### Relayer and the code

Each relayer is at one point `pc` of `processFunc`'s loop. `Check` is the
comparison of the contract's and the chain's nonces and the backup's decision to
sleep, `Wake` the end of that sleep, `Prepare` everything up to the search for
signatures (transaction options, attestation, validator set from the state or
from the network against the contract's checkpoint). `Gather` is the end of the
search: `GiveUp`, when it fails or its half hour is over, which may be although
there are enough, or `Found`. `Save` and `Submit` are the two steps after it, the
store's commit and the transaction; either may fail before or after it had its
effect, and the process may be killed between them. `Mined`, `WaitFails` and
`WaitTimesOut` are the results of `waitForTransactionAndRetryIfNeeded`, the last one with the
speed-up. The mempool holds one transaction for an account's nonce and replaces
it only for a higher price; the contract accepts an attestation under the set it
trusts (both external). `quorum` are the attestations with enough signatures; in
`System` they are counted.
`Signal` is the first signal that `TrapSignal` sees. From then on every call of the
relayer fails, and only `time.Sleep` goes on to its end; `Stop` is what the ticker
and the `Retrier` do when they see the context done. A transaction may have been
sent although the call returns an error.

`Bridge` knows attestations that are made, signed and relayed, and no relayers.
`Abstract == INSTANCE Bridge WITH` maps `made` to the nonces up to `latest`,
`relayed` to those up to the contract's, and `signed` to `quorum`.

### Network and the code

The confirms' keys are one function from addresses for each peer, the key
`latest` one number. `Valid` and `SelectConfirm` are `Validate` and `Select` of
the two confirm validators, `SelectValset` that of `LatestValsetValidator`,
written as the loop computes it. A signature is who made it over what, and an
address is spelled with the checksum's capitals or not, since the query and the
layout compare addresses differently. Puts stay in `sentConfirms` and
`sentValsets` and reach any peers, any number of times. `StartQuery`, `GetConfirm`
and `Check` are one round of `QueryTwoThirds...Confirms`; `found` is dropped when
a lookup fails, as in the code. `MatchAttestationConfirmSigs` is the relayer's.

`Signing` knows members that have signed, and an answer: a quorum of those who had.
`Abstract == INSTANCE Signing WITH` maps `signed` to the members whose genuine
signature was put, and the answer to those whose genuine signature stands at their
place in what the relayer laid out.

### System and the code

`System` extends `Relayer` by `confirms`, who has put a confirm for an attestation,
`gathered`, whose signatures a relayer has in hand from the search to the submission,
and `carried`, whose signatures a transaction in the mempool, or in the hands of the
relayer that waits for it, carries. `Confirm` is what `Process` of one orchestrator
comes to, a member of the set, or one that does not see the set and signs anyway
(`Blind`); an attestation joins `quorum` when its confirms make 2/3 of the power of the
set before it. `Gathered` takes the place of `TwoThirdsFound`: some of the confirms,
with enough power in the set that the relayer holds, which is not always the set
before the attestation. `Submitted` lays out what was found then.
`SpeedUp` sends the same signatures again. `Verifies` is what the contract checks
(external): the signatures against the set it trusts, which has to be the set given.
All other steps are `Relayer`'s. `Bridged` maps `signed` to the attestations whose
confirms make 2/3, without `quorum`. That a query returns genuine signatures only is what
`Network` implements of `Signing`.

### Store and the code

`path` is the file at the lock's path, `file[p]` the one process *p* has opened:
`flock` is on the file, `os.Remove` on the path. `OpenFile`, `Flock`, `Unlock`
and `Remove` are the system calls of `lock_unix.go`. `InitRoot` and `Uncheck`
write and remove `.check`. `Exit` is the end of a process, which releases its
files; `Crash` is a kill at any point. A service that fails after `OpenStore`
and before it has registered its stop functions ends without `Close`: for the
home, that is a kill, and `End` in `Service`. The error path of a `Close` of one
database is left out.

### Service and the code

`Service` extends `Store`: a service is one of its processes, and each step of a
command is one in the store (`InStore`, and the `Start` of `RunInit` and
`OpenStore`) or leaves the store alone. `phase` is where `Start` or `Init` of
`cmd/blobstream/{orchestrator,relayer}/cmd.go` is. `Stat`, `Truncate` and `Write`
are `LoadFileConfiguration` and `initializeConfigFile` down to the system calls of
`os.WriteFile`, because others can read the file between two of them; `config` is
`torn` from the truncation to the write, and for good if the process ends there.
`ReadConfig` is `GetStartConfig` with the flags (`Given` are services whose flags hold
what has no default) and `ValidateBasics`. `Prepare` unlocks the account and starts telemetry, each
with its stop function in `stops`, and the DHT; `Peers` is the wait of up to five
minutes for a peer, after which the DHT's and the store's are registered and signals
are trapped. `StopNext` is the deferred loop over `stopFuncs`, in the order of the
slice. `End` is an end anywhere else: a failing call, a kill, or a signal before
`TrapSignal`. `init` goes through `Store`'s initialization and then writes the file,
also over one that is there. `cast` chooses which processes a behaviour is about.

### Deploy and the code

`chain` gives every attestation its height and the set that signs the next one;
`Has` is the node's pruning in blocks, `Keeps` which past states it has. `at` is
the height of a query, 0 for the present state. `GetStartingValset` is the switch,
`QueryLatestNonce`, `QueryValset` and `QueryBefore` are `QueryLatestValset` and
its recursive form, `QueryAttestation` the two recursive searches by nonce, and
`StepDown` their step, in unsigned heights. `failures` counts calls that fail
although the node has an answer. A data commitment is made at its end block, and
a node keeps the same past states while the command runs. `Step` is
`BlocksIn20DaysPeriod` and `Keep` the life of an attestation in blocks; no order
of the two is assumed, except where a property says so.

### Query and the code

A behaviour is one of `Deploy`, or one of a query command beside which nobody
deploys; the chain and the node are `Deploy`'s. `StartResources`, `ParseFirst`,
`ParseLast`, `GetValset`, `ToValidatorsInfo`, `GetAttestation`, `GetConfirm` and
`ToQueryOutput` are the calls of `getSignaturesAndPrintOutput`, `getSignatures` and
`getSignature` in their order; `GetConfirm` is one lookup of the list that
`QueryValsetConfirms` and `QueryDataCommitmentConfirms` make. Between any two of
them orchestrators' confirms come into the network (`Confirm`), the chain goes on,
and a validator may change its moniker, register another EVM address or leave
(`Register`): `registered` is what the address of a set's member stands for, one of
several validators' infos, or `Unknown` when `toValidatorsInfo` leaves it out of its
map. It may change at any time, and is looked at only where `ToValidatorsInfo` asks
for it, so that the changes are made there. A lookup that finds nobody is
the same as one without holders; a query that fails ends the command, whatever it
has gathered. `infos` are asked for again with every nonce, and `entries` counts
under what they say then, as `signersMap` does. `seen` is the history of `registered`.
`connected` is FALSE if the five attempts to reach the target node failed: the
command goes on. `plain` says whether an address is spelled as in the keys.

### Keys and the code

`evm` are the files of the EVM keystore, each with the time in its name, its
address and its passphrase; `p2p` those of the P2P keystore, and `written` the
keys that are in their files. `reg` is what a process has in hand between two of
its steps: the account it resolved (`GetAccountFromStore`), passphrases,
nicknames. A command is cut where it waits for a passphrase or an answer, and
where the keystore reads a file and writes it later: `EVMAdd` and the imports are
followed by `CheckAddress` and `StoreKey`; `EVMDelete` by `DeleteUnlock`,
`DeleteConfirm` and `EVMRemove`; `EVMUpdate` by `UpdateDecrypt` and
`UpdateRewrite`; `P2PAdd` and `P2PImport` by `PutCreate` and `PutWrite`;
`P2PDelete` by `P2PErase`. A prompt may also be answered wrongly. `ServiceStart` and
`ServiceUnlock` are `GetAccountFromStoreAndUnlockIt`; `GetP2PKeyOrGenerateNewOne`
and `ServiceGet` are the function of that name. What go-ethereum's and
boxo's keystores do inside is external; a command opens them anew, so that it
sees what the others have written. Nicknames are numbers, some of which stand for
texts. History variables: `reported` is the last word of the commands, `raced`
marks a key stored twice, or stored again after it was deleted, `tidy` that no
P2P key was deleted or named by hand.

## The runs

Passing runs:

| Run | Instance | What it shows |
| --- | --- | --- |
| `orchestrator_safety` | 2 nonces, queues of 1, one failing call, one outage, one restart, chain keeps 1 | types and capacities, `NonceAccounting`, `HandledMeansConfirmed`, `NothingElseIsLost` |
| `orchestrator_live` | 2 nonces that are both sets, the orchestrator joins in the second; 2 failing calls, the operator may stop it at any point, fairness | `ConfirmsAreDue`, `NoPanicWhileServing`; `EnqueuedIsResolved`: full channels hold no nonce for ever; `StopReturns` |
| `system_race` | two relayers, two orchestrators whose powers the second set swaps, 3 attestations, a timeout, a restart, 2 gas prices, chain keeps 1, an archive node | `NextIsAccepted`, `NextVerifies`, `SubmittedIsSaved`, `AccountNonceIsFree`; `ImplementsRelayers`: every step is a step of `Relayer` |
| `system_live` | a relayer and a backup, one orchestrator that replaces another, a failure, a timeout, a signal at any point, one attempt each, fairness | `SystemIsABridge`: every step is a step of `Bridge`, and everything is relayed as long as one of the relayers runs; `RelayerStops`: the one that is told to stop does |
| `network_quorum` | 3 members of power 5, 3, 2 on 2 peers, 2 foreign confirms, a failure, a departure | `FoundIsEnough`, `NeverBack`, `EnoughIsFound`; `ImplementsQuorum`: what is laid out are signatures of members who put them, with 2/3 of the power |
| `service_home` | a supervised relayer given its settings by flags, with a second relayer that is not, an orchestrator, or a keys command; an edit, a service that ends early, a kill, fairness | `ExclusiveUnlessRaced`, `ClosesUnlessRaced`, `EditIsKept`, `RunsConfigured`, `DHTHasItsStore`; `ServesAgain`: whatever was left behind, the supervised service runs |
| `query_commands` | deploy commands on every chain of 3 attestations in 6 blocks, an archive and a pruning node, a failure; 9 queries on two of the chains, 2 validators, one of which changes its moniker or address or leaves, once | `ContractIsUsable`, `NotFoundIsNotThere`; `ReportIsTrue`, `CanRelayIsTrue`, `EntriesAreTrue`, `SignatureIsTold`; `CommandsReturn` |
| `keys_commands` | 2 shells and an orchestrator, one address, 2 passphrases, 3 commands, one kill, fairness | `StoreIsAsReported`, `NextNumberIsFree`; `StartsEventually`: with usable keys the service serves in the end |

Runs that find a disagreement between the code and what is said of it
(`findings` in `PROJECT.json`):

| Run | What it shows |
| --- | --- |
| `relayer_backup` | a backup that slept for an attestation which the primary relayed meanwhile does not sleep for the next one (`relayer.go:110`, against the comment at 156) |
| `relayer_pruned` | `UpdateValidatorSet` asks for the previous set without the fall-back that `ProcessAttestation` has; once it is pruned a new set is never relayed (`relayer.go:292`, against `docs/orchestrator.md:174`) |
| `store_lock` | unlock removes the file at the path after it released the flock, so two processes can hold the lock (`lock_unix.go:45`, against `locker.go:36`) |
| `deploy_latest` | any error of the query for the latest set makes `QueryLatestValset` return an older one, and the contract is deployed with it under the latest nonce (`app_querier.go:264`, against its comment and `docs/deploy.md:70`) |

### The bounds and why they are enough

Every bound is a constant whose name starts with `Max`, or a capacity of the code
made small.

- Queues of one nonce are full as soon as one waits, so that every send and
  receive in the orchestrator can block; with two nonces, or one nonce and a
  helper that still holds it, each side of every wait is occupied. One attempt of
  the `Retrier` leads to the requeue at once, and `RequeueWindow = 0` makes the
  first nonce leave the window with the second one. More failures repeat the
  same states.
- Three attestations, of which the second is a set, are a contract's start, a
  change of its set, and a data commitment under the new set. Two relayers are
  enough for every race, as a third would do what either does.
- The powers 5, 3 and 2 make two members just enough and every other two not;
  of the two foreign confirms one has its address in other capitals, the
  other one another's signature.
- In `system_race` the sets have the powers 4 and 1, and 1 and 4, of which 4 is
  enough: signatures that were counted with the wrong set are others than the
  contract wants. A process that is killed once it has sent its transaction and is
  started again leaves what a call that failed would leave, and `system_live` has
  both a failure and a timeout. With a pruned chain and an archive
  node a relayer does hold the wrong set. The two relayers do the same and are
  interchangeable. In `system_live`, which is about everything being relayed, one
  orchestrator is just enough in each set, and a relayer and a backup take over from
  each other. It has one gas price, one wait and no pruning or restart: what follows
  from those is `system_race`'s, in its safety properties only. `Blind` is empty in both; the theorems are for any.
- Three processes are what the race of the lock needs: one that unlocks, one that
  opened the file before, one that makes a new one. `service_home` has two at a
  time, of three kinds, which can meet in every pair of steps; of its services
  one is started again whenever it ends, so that a third process comes after the
  others' ends. One edit is enough, as only one before or after each write matters.
- Six blocks with `Step = Keep = 2` leave room for two steps of the search, and
  all chains of three attestations include several at one height, pruned sets
  and sets that are older than the data commitments after them.
- Two validators, of whom one is enough in the first set and both are needed in
  the second, and queries of one to three nonces with "latest" at either end: a
  range crosses a change of the set, the end of the chain, and what is pruned
  meanwhile. One member's address comes to stand for something else or for nobody
  once, before any of the nonces that the command asks for it with.
- Three commands and a service are an import, a second one that holds its account
  over the third, and a reader; one address is enough, as no command relates two.
  Of the two nicknames the operator gives one is a number that `add` may choose
  and the other is not.

`CHECK_DEADLOCK FALSE` stands where the system may stop: a bounded chain ends,
a process has exited, the command is over. `service_home` and `network_quorum`
are checked for deadlock.

### Fairness

- Orchestrator: goroutines are scheduled and calls return (`WF` of each of
  them), and the node recovers. `SF` of the two actions that see a cancelled
  context, since Go's select chooses among ready cases at random.
- Relayer and System: the loop of each relayer goes on, and the EVM chain mines what
  is in the mempool; every honest orchestrator signs what it has to
  (`EnqueuedIsResolved` of `Orchestrator` is why). `WF` in all cases. That the honest have
  2/3 of each set's power is `HonestAssumption`, the assumption of the bridge itself;
  the others need not sign anything. In `relayer_pruned` `WF` of the signing stands for
  the orchestrators. The instance has too few failures and timeouts to spend the
  retries of both relayers: one may exit, or be told to, and the other takes over.
- Network: the goroutine of the query runs, its ticker ticks, lookups return.
  Nothing is assumed of deliveries: `EnoughIsFound` speaks of confirms that stay
  within reach.
- Store and Service: processes run, services are stopped at some time, and one of
  them is always started again, which is what a supervisor such as systemd does.
  Its command line is `init`, if there is no home, and `start`. `ServesAgain` assumes
  that the others have ended for good, since they may hold the lock.
- Keys: the operator answers what he is asked, in any way, and a supervisor starts the
  service again; no command has to be entered.
- Deploy and Query: calls return. The ten minutes of a search are not needed for
  `CommandsReturn`.

## What is proved

All theorems hold for all values of the constants that satisfy the named
assumptions (`ASSUME`), which say no more than that capacities, retries and steps
are positive, that bounds are natural numbers, what celestia-app guarantees
of a chain of attestations, and that powers are natural numbers of finitely many
members.

| Module | Theorems |
| --- | --- |
| `OrchestratorProofs` | `TypeCorrect`, `NoNonceIsForgotten`, `HandledIsConfirmed`, `OnlyDueConfirms`, `OnlyAStoppedProcessPanics`, `OnlyTheseAreLost` |
| `RelayerProofs` | of `Relayer`: `TypeCorrect`, `NextSubmissionIsAccepted`, `SubmissionIsSaved`, `AccountNonceStaysFree`, `RelayersAreABridge`; of `System`: `SystemTypeCorrect`, `NextSubmissionVerifies`, `SystemImplementsRelayers`, `SystemIsTheBridge` |
| `NetworkProofs` | `TypeCorrect`, `SubmittedIsEnough`, `PeersNeverGoBack`, `NetworkIsAQuorum`, `QuorumsShareAThird` |
| `StoreProofs` | of `Store`: `TypeCorrect`, `LockIsExclusiveUnlessRaced`, `StoresAreClosedUnlessRaced`; of `Service`: `ServicesShareAStore`, `ServicesLockIsExclusive`, `ServicesTypeCorrect`, `DHTsHaveTheirStore`, `EditsAreKept`, `ServicesRunConfigured` |
| `DeployProofs` | `TypeCorrect`, `ContractStartsRight`, `SearchIsComplete` |
| `QueryProofs` | `DeploysBesideQueries`, `QueryTypeCorrect`, `SignaturesAreTold`, `EntriesAreOfMembers`, `ReportsAreTrue`, `CanRelaysAreTrue` |
| `KeysProofs` | `TypeCorrect`, `EVMStoreIsAsReported`, `NumbersAreFree` |

The arguments:

- **Orchestrator.** `Typed` is the types together with `Control`, which says what
  each program counter implies: an event in hand, a range left to send, a nonce
  that has a previous set. `NonceAccounting` is inductive under `Typed`: whatever
  takes a nonce out of one place puts it into another in the same step. `ConfirmInv`
  adds that at the signing the set contains the orchestrator or was not seen.
  `StopInv`: the channels are closed last. `LossInv`: the listener has an event
  only while it enqueues it.
- **Relayer.** `AcceptInv` follows one submission from the choice of the target on:
  the target is at most the contract's next nonce, and then either the contract
  moves past it, or the set found stays the right one; `Backed` says the same of
  transactions in the mempool. `SeqInv`: the transactions of an account take
  consecutive nonces and each is held by one, so that the pending nonce is free
  until the relayer itself uses it. `SavedInv`: from the store to the submission
  the target stays the one that was stored, whatever fails in between; so does that
  of the transaction that is waited for and sent again. `RelayersAreABridge` maps each step to one of
  `Bridge` or to none (`Spec => Abstract!Spec`).
- **Network.** `FoundValid`: what a lookup returned passed the validator of the
  member's key, whatever is in the datastores. Hence the signatures counted are
  the ones laid out, as two functions with the same sum. `SentInv`: what is in a
  datastore or was found was put, so that each step is one of `Signing` or none
  (`NetworkIsAQuorum`). Two quorums share members with more than a third of the power
  (`QuorumsShareAThird`), since twice the threshold is more than four thirds of it.
- **System.** `Counted`: `quorum` are the attestations whose confirms make 2/3 of the
  set before them; it is inductive as confirms are only added, and more members have
  no less power (`EnoughStays`). `Sufficient`: what a transaction carries is 2/3 of the set it is submitted
  with, if that is the set before its attestation; `HandsSufficient` says it of what a
  relayer has found and not yet submitted. A relayer may hold another set,
  and count with it; by `AcceptInv` the contract has then moved past the attestation, or does not trust
  the set that is submitted. So the contract's count and `Relayer`'s `Accepts`
  agree on every transaction in the mempool (`VerifiedAsAccepted`), and each step
  is one of `Relayer` or none (`SystemImplementsRelayers`), which implements `Bridge`.
- **Store.** `OneEngaged`: as long as no lock was taken on a file that is gone or
  going, at most one process holds the lock or has still to remove its file, and
  what it holds is at the path. Without the part about the removal it is not
  inductive.
- **Service.** Every step of a command is a step of `Store` or leaves it alone
  (`ServicesShareAStore`), so that `Store`'s invariants are those of services, too.
  `AtPhase` says what each phase implies of the process in the store, of what is
  registered, and of the DHT; with `ServesOpen`, that a serving process has what it
  needs open, it gives the DHT its store. `KeptInv`: once the operator has edited the
  file of an initialized home, no command is on its way to write it, and none can
  start to, as the home stays initialized and the file stays there. `FileInv` and
  `ReadInv` follow the file into the settings.
- **Query.** `OneCommand` splits the behaviours: those without a query are
  `Deploy`'s and keep its invariant, and beside a query nothing is deployed. `FoundInv`
  follows the lookups: what is found is in the network, which never loses it, and
  what was there at first is found unless a call failed. `EntriesInv`: what is in hand
  of the validators, and all that was counted, is under what their addresses have stood
  for; `ListedInv`: the members of the sets walked over have entries, and nobody
  else. `RangeInv` and
  `LookedUpInv` say which nonces were walked over with which set, `CreditInv` which
  lookups make a validator's count, and `RelayInv` which confirms the power; a
  report is compared with the network by sums over subsets of the members.
- **Deploy.** `LatestInv`: a search for the latest set has not stepped below that
  set's height, because what is not answered at a height is older than its
  lifetime, which is at least a step. `SearchInv` is the same for a search by
  nonce. `PlaceInv` keeps a search by nonce between the nonce that was asked for
  and its set, `ResultInv` carries the pair to the contract. TLC checked these
  invariants before they were proved.
- **Keys.** `OneFileEach`: an address that nothing raced for has one file at
  most, so that what is deleted or written again is that file. `Numbered`: while
  keys are only numbered, their names are 0 to one less than their number, and a
  name about to be created is one of these or the next; this includes what a
  service or a killed command creates.

Sums are `FoldFunction`s, of which nothing can be proved by induction on a set here;
`SetLemmas` takes the smallest set for which a statement fails (`SmallestSet`)
instead, and from it adds one member to a sum, splits a sum, and compares sums.

Model-checked only: the liveness properties, which need `ENABLED`:
`EnqueuedIsResolved`, `StopReturns`, `RelayerStops`, `EnoughIsFound`, `ServesAgain`,
`CommandsReturn`, `StartsEventually`, and the fairness half of
`SystemIsABridge`. Every other property of a passing run has its theorem.

## What is left out, and observations

- Data races below a call, such as `Reconnect` replacing the client while other
  goroutines use it (`tm_querier.go:151`): any call may fail instead.
- The bootstrapper's start: it takes its identity as in `Keys`, acquires the other
  resources in the services' order, and keeps no state of its own.
- Where single settings come from: flags, environment variables and the home's file
  are one source or another in `Service`; the template, the defaults and the
  conversions of `config.go`, and `tryToGetExistingConfig`, which only looks for the
  target node of a query, are data. The meters are counters that nothing reads back.
- The test harnesses: containers, simulated chains and fixtures are the
  environment of the code under test.
- Encodings, signatures as numbers, gas prices as amounts, ABI and protobuf; the
  DHT's routing and expiry; badger's own files.

Observed while modelling, and not the subject of a run:

- `LatestValsetValidator.Select` compares each value with the one before it, and
  not with the largest (`validators.go:112`): of nonces 3, 1, 2 it chooses 2. The
  DHT library compares two values at a time, where the result is right.
- The listener subscribes and the enqueuer asks for the latest nonce in no fixed
  order; an attestation made between the two is signed by nobody until the next
  start. `lost` records it, as it does what an outage or a reconnection drops:
  `NothingElseIsLost` allows these losses and says that there are no others.
- `MaybeRequeue` discards a nonce inside the window when its one query fails
  (`orchestrator.go:300`).
- The wait for a transaction goes on with the first hash after a speed-up, so
  that a replacement that is mined counts as a failure, and the Retrier asks again.
- `BlocksIn20DaysPeriod` is computed from the commit timeout (`app_querier.go:30`).
  Blocks that take longer than it make the step longer than 20 days, up to beyond
  an attestation's lifetime, where the search can miss what an archive has:
  `NotFoundIsNotThere` assumes `Step <= Keep`.
- "latest" is asked for twice, once for the set and once for the nonce
  (`deploy/cmd.go:75`, `84`); a set made in between gives a contract that accepts
  nothing. `ContractIsUsable` excludes it (`moved`).
- `p2p add` without a nickname takes the number of keys (`keys/p2p/p2p.go:82`).
  After a deletion, or beside a number given by hand, that key may exist and the add
  fails, against "an incremental nickname will be assigned" (`docs/keys.md:310`).
  `NextNumberIsFree` says when it does not.
- `p2p delete` initializes a home that is not (`keys/p2p/p2p.go:253`), against
  `docs/keys.md:42`, and without an argument it panics: it accepts none
  (line 236) and reads the first (line 272).
- The bootstrapper opens the P2P keystore and never closes the store
  (`bootstrapper/cmd.go:76`), which without databases holds nothing.
- The meters count nonces that failed or reverted among the processed ones
  (`orchestrator.go:293`, `relayer.go:153`).
- The backup's `time.Sleep` ignores the context (`relayer.go:120`): a stop takes up to
  the backup wait time. `RelayerStops` shows that it comes.
- Signals are trapped only once the first peer has come (`relayer/cmd.go:256`,
  `orchestrator/cmd.go:193`). Before, for up to five minutes, one kills the process with its
  stores open; and a start that fails there leaves them unclosed, since their `Close`
  is registered later. The next start works all the same (`ServesAgain`).
- `start` creates `config.toml` with the defaults, even in a home that is not
  initialized; `init` then writes the file again, over what the operator has edited
  meanwhile. `EditIsKept` speaks of initialized homes. `init` ends without the file if its unlock failed.
- A reader of `config.toml` between the truncation and the write of another command
  takes zeros for what it does not find, and so does one after a kill there
  (`RunsConfigured`): `LoadFileConfiguration` sees that the file is there.
- On a signal the metrics' shutdown runs under the cancelled context
  (`telemetry/metrics.go:150`), and the second signal is ignored.
- The query command reports a range only if every nonce in it can be read: one
  that is pruned, or one call that fails, discards what was found before. "latest" as
  the end of a range excludes the latest. Without a connection to its target node
  it reports that nobody has signed (`ReportIsTrue` allows it after a failure). A
  signature that is asked for under another spelling of the address is not found.
- A moniker or an address that changes in a range splits its validator's count in two,
  and a member whose address is no longer registered is printed with neither moniker
  nor operator (`query/cmd.go:446`, `495`). `EntriesAreTrue` says that there is nothing
  else under which anybody is counted.
- The comments of the 2/3 queries promise an empty slice and no error when the time
  is over (`p2p/querier.go:37`, `139`); the code returns an error, and the relayer
  relies on that.
- The output file of a query is opened to append (`query/cmd.go:292`), so that a
  second run leaves two JSON documents in it.

## Plan

In the order of their importance; all of these are here:

1. `Orchestrator`, 2. `Relayer` with `Bridge`, 3. `Network` with `Signing`, 4. `Store`,
   5. `Deploy`, 6. `Keys`, 7. `Query`, 8. `Service`, 9. `System`, and for each of them the
   proofs of its safety properties. That a restarted orchestrator brings back every
   nonce in flight is in `OnlyTheseAreLost`: its enqueuer asks for all of them again.

Not here yet:

10. An abstract signer that `Orchestrator` implements, from which `Confirm` and its
    fairness in `System` would follow.
11. The start of a contract by `Deploy` in `System`, in the place of `StartNonce`.
