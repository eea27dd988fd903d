------------------------------- MODULE Service -------------------------------
(***************************************************************************)
(* The init and start commands of the orchestrator and the relayer         *)
(* (cmd/blobstream/orchestrator, cmd/blobstream/relayer, common, telemetry)*)
(* on the home of Store, next to keys commands and to each other.          *)
(*                                                                         *)
(* start reads config/config.toml, and creates it if there is none; its    *)
(* flags come before what it reads.  Then it acquires one resource after   *)
(* the other and registers functions that stop them, traps signals, and    *)
(* runs until a signal comes.  init makes the store's directories and      *)
(* writes the file, whether or not there is one.  The operator edits it.   *)
(***************************************************************************)
EXTENDS Store, Sequences

CONSTANTS
    Services,       \* processes that run init and start; the others run keys commands
    Casts,          \* sets of processes that are run on the home, in different behaviours
    Given,          \* services whose flags hold every setting they need
    MaxEdits,       \* bound: times the operator edits the file
    MaxFailures     \* bound: services that end before their time

ASSUME ServicesAssumption ==
    /\ Services \subseteq Procs /\ Given \subseteq Services /\ Supervised \in Services
    /\ \A p \in Services : "data" \in Needs[p]
    /\ \A c \in Casts : c \subseteq Procs /\ Supervised \in c
ASSUME LimitAssumption == MaxEdits \in Nat /\ MaxFailures \in Nat

VARIABLES
    cast,           \* the processes that are run
    config,         \* config.toml: "none", "torn" (truncated), "default" or "edited"
    phase,          \* the step each service's command is at
    loaded,         \* the file as start read it
    stops,          \* stopFuncs, by the resource that each one stops
    dht,            \* whether the service's DHT is up, on the data store
    due,            \* history: the operator has edited the file of an initialized home
    tornRead,       \* services that read a file that another one was writing
    edits, failures

configVars == <<config, loaded, due, tornRead, edits>>
startVars  == <<stops, dht>>
serviceVars == <<cast, configVars, phase, startVars, failures>>
homeVars == <<vars, serviceVars>>

To(p, step) == phase' = [phase EXCEPT ![p] = step]

-----------------------------------------------------------------------------
(* The file.                                                               *)

\* a command has begun to write the defaults, init or start
Begun == {"initTruncate", "truncate"}
Truncated == {"initWrite", "write"}

\* The operator saves the file; it is his if the home is initialized, and no
\* command that will write the file is running.
Edit ==
    /\ edits < MaxEdits /\ edits' = edits + 1
    /\ config' = "edited"
    /\ due' = (due \/ \A p \in Services : IsInit(p) /\ phase[p] \notin Begun \union Truncated \union {"init"})
    /\ UNCHANGED <<vars, loaded, tornRead, phase, startVars, failures>>

Creates_Always == TRUE
Creates == config = "none"

\* LoadFileConfiguration: os.Stat
Stat(p) ==
    /\ phase[p] = "stat"
    /\ To(p, IF Creates THEN "truncate" ELSE "read")
    /\ UNCHANGED <<vars, configVars, startVars, failures>>

\* os.WriteFile in initializeConfigFile truncates the file, then writes it
Truncate(p) ==
    /\ phase[p] \in Begun /\ To(p, IF phase[p] = "truncate" THEN "write" ELSE "initWrite")
    /\ config' = "torn"
    /\ UNCHANGED <<vars, loaded, due, tornRead, edits, startVars, failures>>

Write(p) ==
    /\ phase[p] \in Truncated /\ To(p, IF phase[p] = "write" THEN "read" ELSE "off")
    /\ config' = "default"
    /\ UNCHANGED <<vars, loaded, due, tornRead, edits, startVars, failures>>

\* a setting that has no default: the flags come first
Setting(p) == IF p \in Given THEN "flag" ELSE config

Valid_Unchecked(p) == TRUE

\* ValidateBasics
Valid(p) == Setting(p) \in {"flag", "edited"}

\* GetStartConfig, which takes zero for what is missing, the flags, ValidateBasics
ReadConfig(p) ==
    /\ phase[p] = "read"
    /\ \/ /\ Valid(p) /\ To(p, "store")
          /\ loaded' = [loaded EXCEPT ![p] = config]
          /\ tornRead' = IF \E q \in Services : phase[q] \in Truncated THEN tornRead \union {p} ELSE tornRead
       \/ ~Valid(p) /\ To(p, "off") /\ UNCHANGED <<loaded, tornRead>>
    /\ UNCHANGED <<vars, config, due, edits, startVars, failures>>

-----------------------------------------------------------------------------
(* The commands.                                                           *)

\* init does nothing if the home is initialized
RunInit(p) ==
    /\ phase[p] = "off" /\ ~IsInit(p)
    /\ Start(p) /\ To(p, "init")
    /\ UNCHANGED <<configVars, startVars, failures>>

RunStart(p) ==
    /\ phase[p] = "off" /\ To(p, "stat")
    /\ UNCHANGED <<vars, configVars, startVars, failures>>

\* the process is over, and what it had in its memory
Forget(p) ==
    /\ stops' = [stops EXCEPT ![p] = <<>>] /\ dht' = [dht EXCEPT ![p] = FALSE]
    /\ loaded' = [loaded EXCEPT ![p] = "none"] /\ tornRead' = tornRead \ {p}

\* NewTmAndAppQuerier, and OpenStore if the home is initialized
OpenStore(p) ==
    /\ phase[p] = "store"
    /\ \/ /\ IsInit(p) /\ Start(p) /\ To(p, "opening")
          /\ stops' = [stops EXCEPT ![p] = <<"queriers">>] /\ UNCHANGED <<dht, loaded, tornRead>>
       \/ ~IsInit(p) /\ To(p, "off") /\ Forget(p) /\ UNCHANGED vars
    /\ UNCHANGED <<config, due, edits, failures>>

After_Early(p) ==
    IF pc'[p] = "badger" THEN "account"
    ELSE IF pc'[p] # "out" THEN phase[p]
    ELSE IF phase[p] = "init" /\ pc[p] = "remove" /\ path # 0 THEN "initTruncate" ELSE "off"

\* what the command does after a step in the store: init writes the file, unless
\* it failed, or its unlock did
After(p) ==
    IF pc'[p] = "serve" THEN "account"
    ELSE IF pc'[p] # "out" THEN phase[p]
    ELSE IF phase[p] = "init" /\ pc[p] = "remove" /\ path # 0 THEN "initTruncate" ELSE "off"

InStore(p) ==
    /\ phase[p] \in {"init", "opening", "closing"}
    /\ Run(p) /\ To(p, After(p))
    /\ IF After(p) = "off" THEN Forget(p) ELSE UNCHANGED <<startVars, loaded, tornRead>>
    /\ UNCHANGED <<config, due, edits, failures>>

\* the shutdown of the meter provider, and of the server of the metrics
Metrics == <<"metrics">>

\* The account is unlocked, telemetry started, then the host and the DHT are
\* created (CreateDHTAndWaitForPeers).
Prepare(p) ==
    /\ phase[p] = "account" /\ To(p, "peers")
    /\ stops' = [stops EXCEPT ![p] = @ \o <<"account">> \o Metrics]
    /\ dht' = [dht EXCEPT ![p] = TRUE]
    /\ UNCHANGED <<vars, configVars, failures>>

StopsLast_StoreFirst == <<"store", "dht">>
StopsLast == <<"dht", "store">>

\* The first peer has come: only now the store's Close is registered, and signals
\* are trapped.
Peers(p) ==
    /\ phase[p] = "peers" /\ To(p, "run")
    /\ stops' = [stops EXCEPT ![p] = @ \o StopsLast]
    /\ UNCHANGED <<vars, configVars, dht, failures>>

\* The process ends where it is: it is killed, by a signal it does not trap yet
\* for instance, or a call fails and what is registered is stopped.  If the store
\* is open it is left as it is.
End(p) ==
    /\ phase[p] # "off" /\ To(p, "off")
    /\ failures < MaxFailures /\ failures' = failures + 1
    /\ \/ pc[p] = "out" /\ UNCHANGED vars
       \/ Crash(p)
    /\ Forget(p)
    /\ UNCHANGED <<config, due, edits>>

\* The service returns, by itself or because TrapSignal has cancelled its context; a
\* second signal is ignored.
Signal(p) ==
    /\ phase[p] = "run" /\ To(p, "stopping")
    /\ UNCHANGED <<vars, configVars, startVars, failures>>

\* The deferred loop over stopFuncs: what nobody else can see is stopped at once.
StopNext(p) ==
    /\ phase[p] = "stopping" /\ stops[p] # <<>>
    /\ stops' = [stops EXCEPT ![p] = Tail(@)]
    /\ dht' = IF Head(stops[p]) = "dht" THEN [dht EXCEPT ![p] = FALSE] ELSE dht
    /\ IF Head(stops[p]) = "store" THEN Stop(p) /\ To(p, "closing") ELSE UNCHANGED <<vars, phase>>
    /\ UNCHANGED <<configVars, failures>>

-----------------------------------------------------------------------------

ServiceInit ==
    /\ Init /\ cast \in Casts
    /\ config = "none"
    /\ phase = [p \in Services |-> "off"] /\ loaded = [p \in Services |-> "none"]
    /\ stops = [p \in Services |-> <<>>] /\ dht = [p \in Services |-> FALSE]
    /\ due = FALSE /\ tornRead = {} /\ edits = 0 /\ failures = 0

\* what a command does by itself; services are stopped at some time
Proceed(p) ==
    /\ UNCHANGED cast
    /\ \/ Stat(p) \/ Truncate(p) \/ Write(p) \/ ReadConfig(p) \/ OpenStore(p)
       \/ InStore(p) \/ Prepare(p) \/ Peers(p) \/ Signal(p) \/ StopNext(p)

\* the supervised service's script: init, then start
Launch(p) ==
    /\ UNCHANGED cast
    /\ RunInit(p) \/ (RunStart(p) /\ (p = Supervised => IsInit(p)))

Keys(p) == Start(p) \/ Run(p) \/ Crash(p)

ServiceNext ==
    \/ \E p \in Services \intersect cast : Launch(p) \/ Proceed(p) \/ (End(p) /\ UNCHANGED cast)
    \/ \E p \in (Procs \ Services) \intersect cast : Keys(p) /\ UNCHANGED serviceVars
    \/ Edit /\ UNCHANGED cast

ServiceSpec == ServiceInit /\ [][ServiceNext]_homeVars

\* Processes run, and services are stopped at some time; one of them is started
\* again whenever it ends, by the supervisor that runs it.
FairServiceSpec ==
    /\ ServiceSpec
    /\ WF_homeVars(Launch(Supervised)) /\ \A p \in Services : WF_homeVars(Proceed(p))
    /\ \A p \in Procs \ Services : WF_homeVars(Run(p) /\ UNCHANGED serviceVars)

-----------------------------------------------------------------------------
(* Properties.                                                             *)

Phases == {"off", "stat", "read", "store", "init", "opening", "account", "peers", "run",
          "stopping", "closing"} \union Begun \union Truncated
Registered == <<"queriers", "account", "metrics", "dht", "store">>

\* The types; and a service serves, in the store's sense, from the account to its
\* last stop function.
ServiceStateOK ==
    /\ cast \in Casts /\ config \in {"none", "torn", "default", "edited"}
    /\ phase \in [Services -> Phases]
    /\ loaded \in [Services -> {"none", "torn", "default", "edited"}]
    /\ dht \in [Services -> BOOLEAN] /\ due \in BOOLEAN /\ tornRead \subseteq Services
    /\ edits \in 0..MaxEdits /\ failures \in 0..MaxFailures
    /\ \A p \in Services :
         /\ \E i \in 1..6, j \in 0..5 : stops[p] = SubSeq(Registered, i, j)
         /\ phase[p] \in {"account", "peers", "run", "stopping"} <=> pc[p] = "serve"
         /\ phase[p] \in {"init", "opening", "closing"} => pc[p] # "out"
         /\ phase[p] = "off" => pc[p] = "out" /\ stops[p] = <<>> /\ ~dht[p] /\ loaded[p] = "none"

ServiceTypeOK == TypeOK /\ ServiceStateOK

\* What the operator writes to the file of an initialized home stays there,
\* whichever commands are run and wherever they end.
EditIsKept == due => config = "edited"

\* A service runs with the settings it needs.  It has read zeros for others only
\* if another one was writing the file, or was killed at that.
RunsConfigured ==
    \A p \in Services :
        phase[p] = "run" =>
            /\ p \in Given \/ loaded[p] = "edited"
            /\ loaded[p] # "none"
            /\ loaded[p] = "torn" => failures > 0 \/ p \in tornRead

\* The DHT's data store is open, and the home locked for it, as long as it is up.
DHTHasItsStore == \A p \in Services : dht[p] => "data" \in opened[p] /\ holds[p]

\* Whatever was killed, half initialized, half written or left locked: once the
\* other processes have ended for good, the supervised service runs.
ServesAgain ==
    <>[](\A q \in Procs \ {Supervised} : pc[q] = "out" /\ (q \in Services => phase[q] = "off"))
        => []<>(phase[Supervised] = "run")
=============================================================================
