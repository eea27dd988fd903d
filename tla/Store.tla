-------------------------------- MODULE Store --------------------------------
(***************************************************************************)
(* A home directory of the program and the processes that use it: init,    *)
(* the keys commands, and the services that open the badger stores in it   *)
(* (store/, store/fslock/).                                                *)
(*                                                                         *)
(* The home is locked by flock on a file that is created when it is locked *)
(* and removed when it is unlocked.  A process sees the file by its path;  *)
(* flock holds on the file that it opened, which may be gone from there.   *)
(* A process ends with its command, and the system then releases its files *)
(* and their locks.                                                        *)
(***************************************************************************)
EXTENDS Integers, FiniteSets

CONSTANTS
    Procs,          \* processes, each running one command after the other
    Needs,          \* the directories that each one's commands need
    Supervised,     \* the one that is always started again
    Inodes,         \* files there can be at once
    MaxCrashes      \* bound: times a process is killed

Databases == {"data", "signatures"}
Directories == Databases \union {"keystore/p2p", "keystore/evm"}

ASSUME ProcsAssumption == Supervised \in Procs /\ Needs \in [Procs -> SUBSET Directories]
ASSUME BoundAssumption == Inodes \subseteq Nat \ {0} /\ MaxCrashes \in Nat

VARIABLES
    dirs,           \* directories that exist, "root" for the home itself
    check,          \* whether the file .check exists
    path,           \* the file at the path of the lock, 0 if none
    pc, aim,        \* each process's next step, and what it locks the home for
    file,           \* the lock's file as it opened it, 0 if it has none
    holds,          \* whether it holds the flock on that file
    opened,         \* the badger stores it has open
    \* history
    raced,          \* a lock was taken on a file that is removed, or about to be
    unclean,        \* processes that ended without closing their badger stores
    \* spent budget
    crashes

diskVars  == <<dirs, check, path>>
fileVars  == <<file, holds>>
histVars  == <<raced, unclean>>
vars == <<diskVars, pc, aim, fileVars, opened, histVars, crashes>>

-----------------------------------------------------------------------------

Go(p, step) == pc' = [pc EXCEPT ![p] = step]

\* the command is over, and its process with it
Exit(p) ==
    /\ Go(p, "out")
    /\ file' = [file EXCEPT ![p] = 0] /\ holds' = [holds EXCEPT ![p] = FALSE]
    /\ opened' = [opened EXCEPT ![p] = {}]

IsInit(p) == "root" \in dirs /\ Needs[p] \subseteq dirs

\* A command is run: a keys command initializes the home if it has to, for a
\* service the operator does.  Then the store is opened, without the lock if
\* only the keys are asked for.
Start(p) ==
    /\ pc[p] = "out"
    /\ Go(p, IF ~IsInit(p) THEN "initRoot"
             ELSE IF Needs[p] \intersect Databases # {} THEN "lock" ELSE "serve")
    /\ aim' = [aim EXCEPT ![p] = IF IsInit(p) THEN "open" ELSE "init"]
    /\ UNCHANGED <<diskVars, fileVars, opened, histVars, crashes>>

\* initRoot: the home, and .check in it
InitRoot(p) ==
    /\ pc[p] = "initRoot"
    /\ dirs' = dirs \union {"root"} /\ check' = TRUE
    /\ Go(p, "uncheck")
    /\ UNCHANGED <<path, aim, fileVars, opened, histVars, crashes>>

\* os.Remove(".check") fails if another process has removed it meanwhile
Uncheck(p) ==
    /\ pc[p] = "uncheck"
    /\ check' = FALSE
    /\ \/ check /\ Go(p, "lock") /\ UNCHANGED <<fileVars, opened>>
       \/ ~check /\ Exit(p)
    /\ UNCHANGED <<dirs, path, aim, histVars, crashes>>

InUse == {path} \union {file[q] : q \in Procs}

OpenFile_Exclusive(p) ==
    /\ pc[p] = "lock"
    /\ \/ path # 0 /\ UNCHANGED path /\ Exit(p)
       \/ /\ path = 0
          /\ path' \in Inodes \ InUse /\ \A i \in Inodes \ InUse : path' <= i
          /\ file' = [file EXCEPT ![p] = path']
          /\ Go(p, "flock") /\ UNCHANGED <<holds, opened>>
    /\ UNCHANGED <<dirs, check, aim, histVars, crashes>>

\* Locker.lock: the file is opened, and created if there is none
OpenFile(p) ==
    /\ pc[p] = "lock"
    /\ \/ path # 0 /\ UNCHANGED path
       \/ /\ path = 0
          /\ path' \in Inodes \ InUse /\ \A i \in Inodes \ InUse : path' <= i
    /\ file' = [file EXCEPT ![p] = path']
    /\ Go(p, "flock")
    /\ UNCHANGED <<dirs, check, aim, holds, opened, histVars, crashes>>

HeldByAnother(p) == \E q \in Procs \ {p} : holds[q] /\ file[q] = file[p]

\* Its lock is still to be trusted when it is taken: the file is at the path,
\* and nobody is about to remove what is there.
Sound(p) == file[p] = path /\ \A q \in Procs : pc[q] # "remove"

\* Whoever is refused cleans up.
Flock_CleansUp(p) ==
    /\ pc[p] = "flock"
    /\ \/ /\ ~HeldByAnother(p)
          /\ holds' = [holds EXCEPT ![p] = TRUE]
          /\ raced' = (raced \/ ~Sound(p))
          /\ Go(p, IF aim[p] = "init" THEN "mkdir" ELSE "badger")
          /\ UNCHANGED <<file, opened, path>>
       \/ HeldByAnother(p) /\ Exit(p) /\ path' = 0 /\ UNCHANGED raced
    /\ UNCHANGED <<dirs, check, aim, unclean, crashes>>

\* Locker.lock, flock(LOCK_EX | LOCK_NB): or else ErrLocked, and ErrOpened
Flock(p) ==
    /\ pc[p] = "flock"
    /\ \/ /\ ~HeldByAnother(p)
          /\ holds' = [holds EXCEPT ![p] = TRUE]
          /\ raced' = (raced \/ ~Sound(p))
          /\ Go(p, IF aim[p] = "init" THEN "mkdir" ELSE "badger")
          /\ UNCHANGED <<file, opened>>
       \/ HeldByAnother(p) /\ Exit(p) /\ UNCHANGED raced
    /\ UNCHANGED <<diskVars, aim, unclean, crashes>>

\* Init: initDir of each directory that is needed (in any order: IsInit asks for
\* all of them), then the unlock
Mkdir(p) ==
    /\ pc[p] = "mkdir"
    /\ \/ \E d \in Needs[p] \ dirs : dirs' = dirs \union {d} /\ UNCHANGED pc
       \/ Needs[p] \subseteq dirs /\ Go(p, "unlock") /\ UNCHANGED dirs
    /\ UNCHANGED <<check, path, aim, fileVars, opened, histVars, crashes>>

\* badger's own lock on its directory (external)
Free(d) == \A q \in Procs : d \notin opened[q]

\* OpenStore: the badger stores one after the other; an error unlocks the home
Badger(p) ==
    /\ pc[p] = "badger"
    /\ \/ \E d \in (Needs[p] \intersect Databases) \ opened[p] :
             /\ d = "signatures" /\ "data" \in Needs[p] => "data" \in opened[p]
             /\ \/ /\ Free(d)
                   /\ opened' = [opened EXCEPT ![p] = @ \union {d}]
                   /\ UNCHANGED <<pc, aim>>
                \/ /\ ~Free(d)
                   /\ Go(p, "unlock") /\ aim' = [aim EXCEPT ![p] = "fail"] /\ UNCHANGED opened
       \/ Needs[p] \intersect Databases \subseteq opened[p] /\ Go(p, "serve") /\ UNCHANGED <<aim, opened>>
    /\ UNCHANGED <<diskVars, fileVars, histVars, crashes>>

\* the service is stopped: Close, which unlocks the home first
Stop(p) ==
    /\ pc[p] = "serve"
    /\ \/ file[p] # 0 /\ Go(p, "unlock") /\ UNCHANGED <<fileVars, opened>>
       \/ file[p] = 0 /\ Exit(p)
    /\ aim' = [aim EXCEPT ![p] = "close"]
    /\ UNCHANGED <<diskVars, histVars, crashes>>

Unlock_RemovesFirst(p) ==
    /\ pc[p] = "unlock"
    /\ path' = 0
    /\ Go(p, "remove")
    /\ UNCHANGED <<dirs, check, aim, fileVars, opened, histVars, crashes>>

\* Locker.unlock: flock(LOCK_UN), and the file is closed
Unlock(p) ==
    /\ pc[p] = "unlock"
    /\ holds' = [holds EXCEPT ![p] = FALSE] /\ file' = [file EXCEPT ![p] = 0]
    /\ Go(p, "remove")
    /\ UNCHANGED <<diskVars, aim, opened, histVars, crashes>>

\* Locker.unlock: what is at the path is removed, whosever it is.  Where nothing
\* is, Close returns the error before it has closed the badger stores.
Remove(p) ==
    /\ pc[p] = "remove"
    /\ path' = 0
    /\ \/ path # 0 /\ aim[p] = "close" /\ Go(p, "closeStores") /\ UNCHANGED <<fileVars, opened, unclean>>
       \/ /\ path = 0 \/ aim[p] # "close"
          /\ Exit(p)
          /\ unclean' = IF aim[p] = "close" THEN unclean \union {p} ELSE unclean
    /\ UNCHANGED <<dirs, check, aim, raced, crashes>>

CloseStores(p) ==
    /\ pc[p] = "closeStores"
    /\ Exit(p)
    /\ UNCHANGED <<diskVars, aim, histVars, crashes>>

\* The process is killed; the lock's file and .check stay where they are.
Crash(p) ==
    /\ pc[p] # "out"
    /\ crashes < MaxCrashes /\ crashes' = crashes + 1
    /\ Exit(p)
    /\ UNCHANGED <<diskVars, aim, histVars>>

-----------------------------------------------------------------------------

Init ==
    /\ dirs = {} /\ check = FALSE /\ path = 0
    /\ pc = [p \in Procs |-> "out"] /\ aim = [p \in Procs |-> "open"]
    /\ file = [p \in Procs |-> 0] /\ holds = [p \in Procs |-> FALSE]
    /\ opened = [p \in Procs |-> {}]
    /\ raced = FALSE /\ unclean = {} /\ crashes = 0

\* what a process does by itself, once it is started
Run(p) ==
    \/ InitRoot(p) \/ Uncheck(p) \/ OpenFile(p) \/ Flock(p) \/ Mkdir(p) \/ Badger(p)
    \/ Stop(p) \/ Unlock(p) \/ Remove(p) \/ CloseStores(p)

Next == \E p \in Procs : Start(p) \/ Run(p) \/ Crash(p)

Spec == Init /\ [][Next]_vars

-----------------------------------------------------------------------------
(* Properties.                                                             *)

\* The types; a process opens the databases it asked for, and none when it has ended.
TypeOK ==
    /\ dirs \subseteq Directories \union {"root"} /\ check \in BOOLEAN
    /\ path \in Inodes \union {0}
    /\ pc \in [Procs -> {"out", "initRoot", "uncheck", "lock", "flock", "mkdir", "badger",
                         "serve", "unlock", "remove", "closeStores"}]
    /\ aim \in [Procs -> {"init", "open", "fail", "close"}]
    /\ file \in [Procs -> Inodes \union {0}] /\ holds \in [Procs -> BOOLEAN]
    /\ opened \in [Procs -> SUBSET Databases]
    /\ raced \in BOOLEAN /\ unclean \subseteq Procs /\ crashes \in Nat
    /\ \A p \in Procs :
         /\ opened[p] \subseteq Needs[p]
         /\ pc[p] = "out" => file[p] = 0 /\ ~holds[p] /\ opened[p] = {}

\* "Subsequent calls will error with ErrLocked on any Locker instance looking to
\* the same path", as long as the lock is held.
LockIsExclusive == \A p, q \in Procs : holds[p] /\ holds[q] => p = q

\* The lock is exclusive, and covers the databases that are opened under it,
\* unless at some time it was taken on a file that another process's unlock had
\* removed or was about to remove: no other interleaving, and no crash, breaks it.
ExclusiveUnlessRaced ==
    ~raced => LockIsExclusive /\ \A p \in Procs : holds[p] => file[p] = path

\* Nor does Close fail, and leave the badger stores unclosed, but for that race.
ClosesUnlessRaced == ~raced => unclean = {}
=============================================================================
