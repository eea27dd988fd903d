----------------------------- MODULE StoreProofs -----------------------------
(***************************************************************************)
(* Proofs about Store and Service, for any processes and any directories   *)
(* they need: the types, that only the race recorded in raced breaks the   *)
(* lock, and that services use the store as Store has it, run configured,  *)
(* with a store for their DHT, and leave an edited file alone.             *)
(***************************************************************************)
EXTENDS Service, SequenceTheorems, TLAPS

Steps == {"out", "initRoot", "uncheck", "lock", "flock", "mkdir", "badger", "serve", "unlock",
          "remove", "closeStores"}

-----------------------------------------------------------------------------
(* Types.                                                                  *)

LEMMA GoTyped ==
    ASSUME TypeOK, NEW p \in Procs, NEW s \in Steps, Go(p, s)
    PROVE  /\ pc' \in [Procs -> Steps] /\ pc'[p] = s
           /\ \A q \in Procs \ {p} : pc'[q] = pc[q]
BY DEF TypeOK, Go, Steps

\* ending leaves the process, and nobody else, with nothing open
LEMMA ExitTyped ==
    ASSUME TypeOK, NEW p \in Procs, Exit(p)
    PROVE  /\ pc' \in [Procs -> Steps] /\ file' \in [Procs -> Inodes \union {0}]
           /\ holds' \in [Procs -> BOOLEAN] /\ opened' \in [Procs -> SUBSET Databases]
           /\ pc'[p] = "out" /\ file'[p] = 0 /\ ~holds'[p] /\ opened'[p] = {}
           /\ \A q \in Procs \ {p} : /\ pc'[q] = pc[q] /\ file'[q] = file[q]
                                     /\ holds'[q] = holds[q] /\ opened'[q] = opened[q]
<1>1. Go(p, "out") /\ "out" \in Steps  BY DEF Exit, Steps
<1>2. /\ pc' \in [Procs -> Steps] /\ pc'[p] = "out"
      /\ \A q \in Procs \ {p} : pc'[q] = pc[q]
  BY <1>1, GoTyped
<1>3. file' \in [Procs -> Inodes \union {0}]  BY DEF Exit, TypeOK
<1>4. holds' \in [Procs -> BOOLEAN] /\ ~holds'[p] /\ \A q \in Procs \ {p} : holds'[q] = holds[q]
  BY DEF Exit, TypeOK
<1>5. opened' \in [Procs -> SUBSET Databases]  BY DEF Exit, TypeOK
<1> QED  BY <1>2, <1>3, <1>4, <1>5 DEF Exit, TypeOK

LEMMA InitTyped == Init => TypeOK
<1> SUFFICES ASSUME Init PROVE TypeOK  OBVIOUS
<1>1. holds \in [Procs -> BOOLEAN] /\ \A p \in Procs : ~holds[p]  BY DEF Init
<1> QED  BY <1>1, BoundAssumption DEF Init, TypeOK

LEMMA RunTyped ==
    ASSUME TypeOK, NEW p \in Procs, Start(p) \/ Run(p) \/ Crash(p)
    PROVE  TypeOK'
<1> USE DEF diskVars, fileVars, histVars
<1>0. TypeOK /\ pc \in [Procs -> Steps] /\ holds \in [Procs -> BOOLEAN]  BY DEF TypeOK, Steps
<1>1. CASE Start(p)
  <2>1. PICK s \in Steps : Go(p, s) /\ s # "out"  BY <1>1 DEF Start, Steps
  <2>2. aim' \in [Procs -> {"init", "open", "fail", "close"}]  BY <1>1 DEF Start, TypeOK
  <2> QED  BY <1>1, <2>1, <2>2, GoTyped DEF Start, TypeOK, Steps
<1>2. CASE InitRoot(p)
  <2>1. Go(p, "uncheck") /\ "uncheck" \in Steps  BY <1>2 DEF InitRoot, Steps
  <2> QED  BY <1>2, <2>1, GoTyped DEF InitRoot, TypeOK, Steps
<1>3. CASE Uncheck(p)
  <2>1. "lock" \in Steps  BY DEF Steps
  <2>2. CASE Exit(p)
    BY <1>3, <2>2, ExitTyped DEF Uncheck, TypeOK, Steps
  <2>3. CASE Go(p, "lock") /\ UNCHANGED <<fileVars, opened>>
    BY <1>3, <2>1, <2>3, GoTyped DEF Uncheck, TypeOK, Steps
  <2> QED  BY <1>3, <2>2, <2>3 DEF Uncheck
<1>4. CASE OpenFile(p)
  <2>1. Go(p, "flock") /\ "flock" \in Steps  BY <1>4 DEF OpenFile, Steps
  <2>2. path' \in Inodes \union {0}  BY <1>4 DEF OpenFile, TypeOK
  <2>3. file' \in [Procs -> Inodes \union {0}]  BY <1>4, <2>2 DEF OpenFile, TypeOK
  <2>4. \A q \in Procs \ {p} : file'[q] = file[q]  BY <1>4 DEF OpenFile, TypeOK
  <2> QED  BY <1>4, <2>1, <2>2, <2>3, <2>4, GoTyped DEF OpenFile, TypeOK, Steps
<1>5. CASE Flock(p)
  <2>1. raced' \in BOOLEAN  BY <1>5 DEF Flock, TypeOK
  <2>2. CASE Exit(p)
    BY <1>5, <2>1, <2>2, ExitTyped DEF Flock, TypeOK, Steps
  <2>3. CASE ~Exit(p)
    <3>1. PICK s \in Steps : Go(p, s) /\ s # "out"  BY <1>5, <2>3 DEF Flock, Steps
    <3>2. holds' = [holds EXCEPT ![p] = TRUE]  BY <1>5, <2>3 DEF Flock
    <3>3. holds' \in [Procs -> BOOLEAN] /\ \A q \in Procs \ {p} : holds'[q] = holds[q]
      BY <1>0, <3>2
    <3> QED  BY <1>5, <2>1, <2>3, <3>1, <3>3, GoTyped DEF Flock, TypeOK, Steps
  <2> QED  BY <2>2, <2>3
<1>6. CASE Mkdir(p)
  <2>1. "unlock" \in Steps /\ Needs[p] \subseteq Directories  BY ProcsAssumption DEF Steps
  <2>2. dirs' \subseteq Directories \union {"root"}  BY <1>6, <2>1 DEF Mkdir, TypeOK
  <2>3. CASE UNCHANGED pc  BY <1>6, <2>2, <2>3 DEF Mkdir, TypeOK
  <2>4. CASE Go(p, "unlock")  BY <1>6, <2>1, <2>2, <2>4, GoTyped DEF Mkdir, TypeOK, Steps
  <2> QED  BY <1>6, <2>3, <2>4 DEF Mkdir
<1>7. CASE Badger(p)
  <2>1. "unlock" \in Steps /\ "serve" \in Steps  BY DEF Steps
  <2>2. /\ opened' \in [Procs -> SUBSET Databases] /\ opened'[p] \subseteq Needs[p]
        /\ \A q \in Procs \ {p} : opened'[q] = opened[q]
    BY <1>7 DEF Badger, TypeOK
  <2>3. aim' \in [Procs -> {"init", "open", "fail", "close"}]  BY <1>7 DEF Badger, TypeOK
  <2>4. pc[p] # "out"  BY <1>7 DEF Badger
  <2>5. CASE UNCHANGED pc
    BY <1>7, <2>2, <2>3, <2>4, <2>5 DEF Badger, TypeOK
  <2>6. CASE Go(p, "unlock") \/ Go(p, "serve")
    <3>1. PICK s \in {"unlock", "serve"} : Go(p, s)  BY <2>6
    <3>2. pc' \in [Procs -> Steps] /\ pc'[p] # "out" /\ \A q \in Procs \ {p} : pc'[q] = pc[q]
      BY <2>1, <3>1, GoTyped
    <3>3. UNCHANGED <<diskVars, fileVars, histVars, crashes>>  BY <1>7 DEF Badger
    <3> QED  BY <2>2, <2>3, <3>2, <3>3 DEF TypeOK, Steps
  <2> QED  BY <1>7, <2>5, <2>6 DEF Badger
<1>8. CASE Stop(p)
  <2>1. aim' \in [Procs -> {"init", "open", "fail", "close"}] /\ "unlock" \in Steps
    BY <1>8 DEF Stop, TypeOK, Steps
  <2>2. CASE Exit(p)  BY <1>8, <2>1, <2>2, ExitTyped DEF Stop, TypeOK, Steps
  <2>3. CASE Go(p, "unlock") /\ UNCHANGED <<fileVars, opened>>
    BY <1>8, <2>1, <2>3, GoTyped DEF Stop, TypeOK, Steps
  <2> QED  BY <1>8, <2>2, <2>3 DEF Stop
<1>9. CASE Unlock(p)
  <2>1. Go(p, "remove") /\ "remove" \in Steps  BY <1>9 DEF Unlock, Steps
  <2>2. holds' \in [Procs -> BOOLEAN] /\ \A q \in Procs \ {p} : holds'[q] = holds[q]
    BY <1>0, <1>9 DEF Unlock
  <2>3. file' \in [Procs -> Inodes \union {0}] /\ \A q \in Procs \ {p} : file'[q] = file[q]
    BY <1>9 DEF Unlock, TypeOK
  <2> QED  BY <1>9, <2>1, <2>2, <2>3, GoTyped DEF Unlock, TypeOK, Steps
<1>10. CASE Remove(p)
  <2>1. "closeStores" \in Steps  BY DEF Steps
  <2>2. unclean' \subseteq Procs  BY <1>10 DEF Remove, TypeOK
  <2>3. CASE Exit(p)  BY <1>10, <2>2, <2>3, ExitTyped DEF Remove, TypeOK, Steps
  <2>4. CASE Go(p, "closeStores") /\ UNCHANGED <<fileVars, opened>>
    BY <1>10, <2>1, <2>2, <2>4, GoTyped DEF Remove, TypeOK, Steps
  <2> QED  BY <1>10, <2>3, <2>4 DEF Remove
<1>11. CASE CloseStores(p)  BY <1>11, ExitTyped DEF CloseStores, TypeOK, Steps
<1>12. CASE Crash(p)  BY <1>12, ExitTyped, BoundAssumption DEF Crash, TypeOK, Steps
<1> QED  BY <1>1, <1>2, <1>3, <1>4, <1>5, <1>6, <1>7, <1>8, <1>9, <1>10, <1>11, <1>12 DEF Run

LEMMA NextTyped == ASSUME TypeOK, [Next]_vars PROVE TypeOK'
<1>1. CASE Next  BY <1>1, RunTyped DEF Next
<1>2. CASE UNCHANGED vars  BY <1>2 DEF vars, diskVars, fileVars, histVars, TypeOK
<1> QED  BY <1>1, <1>2

\* The types, and that a process that has ended has nothing open.
THEOREM TypeCorrect == Spec => []TypeOK
BY InitTyped, NextTyped, PTL DEF Spec

-----------------------------------------------------------------------------
(* The lock.                                                               *)

\* what the steps of a process say of its lock
HoldsAtSteps ==
    \A p \in Procs :
        /\ holds[p] => file[p] # 0 /\ pc[p] \in {"mkdir", "badger", "serve", "unlock"}
        /\ pc[p] = "flock" => file[p] # 0
        /\ pc[p] \in {"mkdir", "badger", "unlock"} \/ (pc[p] = "serve" /\ file[p] # 0) => holds[p]

\* the processes that hold the lock, or have still to remove its file
Engaged(p) == holds[p] \/ pc[p] = "remove"

\* As long as no lock was taken on a file that is gone or going: at most one
\* process is engaged, what it locked is at the path, and stays until it removes it.
OneEngaged ==
    /\ \A p, q \in Procs : Engaged(p) /\ Engaged(q) => p = q
    /\ \A p \in Procs : (holds[p] => file[p] = path) /\ (pc[p] = "remove" => path # 0)
    /\ unclean = {}

LockInv == TypeOK /\ HoldsAtSteps /\ (~raced => OneEngaged)

\* steps that touch neither locks, nor the path
LEMMA StepAside ==
    ASSUME LockInv, TypeOK', NEW p \in Procs, UNCHANGED <<path, fileVars, histVars>>,
           NEW s \in Steps \ {"remove", "flock"}, Go(p, s),
           s \in {"mkdir", "badger", "unlock"} \/ (s = "serve" /\ file[p] # 0) => holds[p],
           holds[p] => s \in {"mkdir", "badger", "serve", "unlock"}
    PROVE  LockInv'
<1>1. /\ pc'[p] = s /\ \A q \in Procs \ {p} : pc'[q] = pc[q]
      /\ file' = file /\ holds' = holds /\ path' = path /\ raced' = raced /\ unclean' = unclean
  BY GoTyped DEF LockInv, fileVars, histVars
<1>2. HoldsAtSteps'  BY <1>1 DEF LockInv, HoldsAtSteps, Steps
<1>3. ASSUME ~raced PROVE OneEngaged'
  <2>1. OneEngaged  BY <1>3 DEF LockInv
  <2>2. \A q \in Procs : Engaged(q)' => Engaged(q)  BY <1>1 DEF Engaged
  <2>3. \A q \in Procs : pc'[q] = "remove" => pc[q] = "remove"  BY <1>1
  <2> QED  BY <1>1, <2>1, <2>2, <2>3 DEF OneEngaged
<1> QED  BY <1>1, <1>2, <1>3 DEF LockInv

\* a process that ends lets go of what it had, and touches nothing else
LEMMA ExitAside ==
    ASSUME LockInv, TypeOK', NEW p \in Procs, Exit(p), UNCHANGED <<path, raced, unclean>>
    PROVE  LockInv'
<1>1. /\ pc'[p] = "out" /\ file'[p] = 0 /\ ~holds'[p]
      /\ \A q \in Procs \ {p} : pc'[q] = pc[q] /\ file'[q] = file[q] /\ holds'[q] = holds[q]
  BY ExitTyped DEF LockInv
<1>2. HoldsAtSteps'  BY <1>1 DEF LockInv, HoldsAtSteps
<1>3. ASSUME ~raced PROVE OneEngaged'
  <2>1. OneEngaged  BY <1>3 DEF LockInv
  <2>2. \A q \in Procs : Engaged(q)' => Engaged(q)  BY <1>1 DEF Engaged
  <2> QED  BY <1>1, <2>1, <2>2 DEF OneEngaged
<1> QED  BY <1>2, <1>3 DEF LockInv

\* A file is created only where there is none: then nobody is engaged.
LEMMA OpenFileLock ==
    ASSUME LockInv, TypeOK', NEW p \in Procs, OpenFile(p)
    PROVE  LockInv'
<1>1. /\ pc[p] = "lock" /\ pc'[p] = "flock" /\ \A q \in Procs \ {p} : pc'[q] = pc[q]
      /\ holds' = holds /\ raced' = raced /\ unclean' = unclean
  <2>1. "flock" \in Steps  BY DEF Steps
  <2> QED  BY <2>1, GoTyped DEF OpenFile, LockInv, histVars
<1>2. path' # 0 /\ (path # 0 => path' = path)  BY BoundAssumption DEF OpenFile
<1>3. file'[p] = path' /\ \A q \in Procs \ {p} : file'[q] = file[q]
  BY DEF OpenFile, LockInv, TypeOK
<1>4. ~holds[p]  BY <1>1 DEF LockInv, HoldsAtSteps
<1>5. HoldsAtSteps'  BY <1>1, <1>2, <1>3, <1>4 DEF LockInv, HoldsAtSteps
<1>6. ASSUME ~raced PROVE OneEngaged'
  <2>1. OneEngaged  BY <1>6 DEF LockInv
  <2>2. \A q \in Procs : Engaged(q)' => Engaged(q) /\ q # p  BY <1>1, <1>4 DEF Engaged
  <2>3. \A q \in Procs : holds[q] => file[q] = path /\ path # 0
    BY <2>1 DEF OneEngaged, LockInv, HoldsAtSteps
  <2>4. \A q \in Procs : holds'[q] => file'[q] = path'  BY <1>1, <1>2, <1>3, <1>4, <2>3
  <2> QED  BY <1>1, <1>2, <2>1, <2>2, <2>4 DEF OneEngaged
<1> QED  BY <1>1, <1>5, <1>6 DEF LockInv

\* A lock that is soundly taken is the only one: another holder would hold it on
\* the same file, and nobody is about to remove it.
LEMMA FlockLock ==
    ASSUME LockInv, TypeOK', NEW p \in Procs, Flock(p), ~Exit(p)
    PROVE  LockInv'
<1>0. pc[p] = "flock" /\ file[p] # 0  BY DEF Flock, LockInv, HoldsAtSteps
<1>1. PICK s \in {"mkdir", "badger"} : Go(p, s)  BY DEF Flock
<1>2. pc'[p] = s /\ \A q \in Procs \ {p} : pc'[q] = pc[q]
  <2>1. s \in Steps  BY DEF Steps
  <2> QED  BY <1>1, <2>1, GoTyped DEF LockInv
<1>3. /\ ~HeldByAnother(p) /\ file' = file /\ path' = path /\ unclean' = unclean
      /\ holds' = [holds EXCEPT ![p] = TRUE]
  BY DEF Flock, diskVars
<1>4. holds'[p] /\ \A q \in Procs \ {p} : holds'[q] = holds[q]
  <2>1. holds \in [Procs -> BOOLEAN]  BY DEF LockInv, TypeOK
  <2> QED  BY <1>3, <2>1
<1>5. HoldsAtSteps'  BY <1>0, <1>2, <1>3, <1>4 DEF LockInv, HoldsAtSteps
<1>6. ASSUME ~raced' PROVE OneEngaged'
  <2>1. ~raced /\ Sound(p)  BY <1>6 DEF Flock
  <2>2. OneEngaged  BY <2>1 DEF LockInv
  <2>3. \A q \in Procs \ {p} : ~holds[q]
    <3>1. \A q \in Procs : holds[q] => file[q] = path  BY <2>2 DEF OneEngaged
    <3> QED  BY <1>3, <2>1, <3>1 DEF Sound, HeldByAnother
  <2>4. \A q \in Procs \ {p} : ~holds'[q] /\ pc'[q] # "remove"
    BY <1>2, <1>4, <2>1, <2>3 DEF Sound
  <2>5. file'[p] = path' /\ pc'[p] # "remove"  BY <1>2, <1>3, <2>1 DEF Sound
  <2> QED  BY <1>3, <2>2, <2>4, <2>5 DEF OneEngaged, Engaged
<1> QED  BY <1>5, <1>6 DEF LockInv

\* The unlock leaves its process engaged: the file it held is still at the path.
LEMMA UnlockLock ==
    ASSUME LockInv, TypeOK', NEW p \in Procs, Unlock(p)
    PROVE  LockInv'
<1>1. /\ pc[p] = "unlock" /\ pc'[p] = "remove" /\ \A q \in Procs \ {p} : pc'[q] = pc[q]
      /\ path' = path /\ raced' = raced /\ unclean' = unclean
  <2>1. "remove" \in Steps  BY DEF Steps
  <2> QED  BY <2>1, GoTyped DEF Unlock, LockInv, diskVars, histVars
<1>2. ~holds'[p] /\ \A q \in Procs \ {p} : holds'[q] = holds[q]
  <2>1. holds \in [Procs -> BOOLEAN]  BY DEF LockInv, TypeOK
  <2> QED  BY <2>1 DEF Unlock
<1>3. \A q \in Procs \ {p} : file'[q] = file[q]  BY DEF Unlock, LockInv, TypeOK
<1>4. holds[p] /\ file[p] # 0  BY <1>1 DEF LockInv, HoldsAtSteps
<1>5. HoldsAtSteps'  BY <1>1, <1>2, <1>3 DEF LockInv, HoldsAtSteps
<1>6. ASSUME ~raced PROVE OneEngaged'
  <2>1. OneEngaged /\ path # 0
    <3>1. OneEngaged  BY <1>6 DEF LockInv
    <3> QED  BY <1>4, <3>1 DEF OneEngaged
  <2>2. \A q \in Procs : Engaged(q)' => Engaged(q)  BY <1>1, <1>2, <1>4 DEF Engaged
  <2> QED  BY <1>1, <1>2, <1>3, <2>1, <2>2 DEF OneEngaged
<1> QED  BY <1>1, <1>5, <1>6 DEF LockInv

\* Nobody else is engaged when the file is removed, and it is there.
LEMMA RemoveLock ==
    ASSUME LockInv, TypeOK', NEW p \in Procs, Remove(p)
    PROVE  LockInv'
<1>1. pc[p] = "remove" /\ ~holds[p]  BY DEF Remove, LockInv, HoldsAtSteps
<1>2. /\ pc'[p] \in {"out", "closeStores"} /\ \A q \in Procs \ {p} : pc'[q] = pc[q]
      /\ ~holds'[p] /\ \A q \in Procs \ {p} : holds'[q] = holds[q] /\ file'[q] = file[q]
  <2>1. CASE Exit(p)  BY <2>1, ExitTyped DEF LockInv
  <2>2. CASE Go(p, "closeStores") /\ UNCHANGED <<fileVars, opened>>
    <3>1. "closeStores" \in Steps  BY DEF Steps
    <3> QED  BY <1>1, <2>2, <3>1, GoTyped DEF LockInv, fileVars
  <2> QED  BY <2>1, <2>2 DEF Remove
<1>3. raced' = raced  BY DEF Remove
<1>4. HoldsAtSteps'  BY <1>2 DEF LockInv, HoldsAtSteps
<1>5. ASSUME ~raced PROVE OneEngaged'
  <2>1. OneEngaged  BY <1>5 DEF LockInv
  <2>2. \A q \in Procs : ~Engaged(q)'  BY <1>1, <1>2, <2>1 DEF OneEngaged, Engaged
  <2>3. unclean' = {}  BY <1>1, <2>1 DEF OneEngaged, Remove
  <2> QED  BY <2>2, <2>3 DEF OneEngaged, Engaged
<1> QED  BY <1>3, <1>4, <1>5 DEF LockInv

LEMMA LockKept ==
    ASSUME LockInv, TypeOK', NEW p \in Procs, Start(p) \/ Run(p) \/ Crash(p)
    PROVE  LockInv'
<1> USE DEF diskVars, fileVars, histVars
<1>0. /\ TypeOK /\ (pc[p] = "out" => file[p] = 0 /\ ~holds[p])
      /\ holds[p] => pc[p] \in {"mkdir", "badger", "serve", "unlock"}
      /\ pc[p] \in {"mkdir", "badger"} \/ (pc[p] = "serve" /\ file[p] # 0) => holds[p]
  BY DEF LockInv, HoldsAtSteps, TypeOK
<1>1. CASE Start(p)
  <2>1. PICK s \in {"initRoot", "lock", "serve"} : Go(p, s)  BY <1>1 DEF Start
  <2>2. file[p] = 0 /\ ~holds[p] /\ s \in Steps  BY <1>0, <1>1 DEF Start, Steps
  <2>3. UNCHANGED <<path, fileVars, histVars>>  BY <1>1 DEF Start
  <2> QED  BY <2>1, <2>2, <2>3, StepAside
<1>2. CASE InitRoot(p)
  <2>1. Go(p, "uncheck") /\ ~holds[p] /\ "uncheck" \in Steps  BY <1>0, <1>2 DEF InitRoot, Steps
  <2> QED  BY <1>2, <2>1, StepAside DEF InitRoot
<1>3. CASE Uncheck(p)
  <2>1. ~holds[p] /\ "lock" \in Steps  BY <1>0, <1>3 DEF Uncheck, Steps
  <2>2. CASE Exit(p)  BY <1>3, <2>2, ExitAside DEF Uncheck
  <2>3. CASE Go(p, "lock") /\ UNCHANGED <<fileVars, opened>>
    BY <1>3, <2>1, <2>3, StepAside DEF Uncheck
  <2> QED  BY <1>3, <2>2, <2>3 DEF Uncheck
<1>4. CASE OpenFile(p)  BY <1>4, OpenFileLock
<1>5. CASE Flock(p)
  <2>1. CASE Exit(p)
    <3>1. UNCHANGED <<path, raced, unclean>>
      <4>1. pc[p] = "flock"  BY <1>5 DEF Flock
      <4>2. pc'[p] = "out"  BY <2>1, ExitTyped DEF LockInv
      <4>3. "mkdir" \in Steps /\ "badger" \in Steps  BY DEF Steps
      <4>4. ~Go(p, "mkdir") /\ ~Go(p, "badger")  BY <4>2, <4>3, GoTyped DEF LockInv
      <4> QED  BY <1>5, <4>4 DEF Flock
    <3> QED  BY <2>1, <3>1, ExitAside
  <2>2. CASE ~Exit(p)  BY <1>5, <2>2, FlockLock
  <2> QED  BY <2>1, <2>2
<1>6. CASE Mkdir(p)
  <2>1. pc[p] = "mkdir" /\ holds[p] /\ "unlock" \in Steps  BY <1>0, <1>6 DEF Mkdir, Steps
  <2>2. CASE Go(p, "unlock")  BY <1>6, <2>1, <2>2, StepAside DEF Mkdir
  <2>3. CASE UNCHANGED pc
    BY <1>6, <2>3 DEF Mkdir, LockInv, HoldsAtSteps, OneEngaged, Engaged
  <2> QED  BY <1>6, <2>2, <2>3 DEF Mkdir
<1>7. CASE Badger(p)
  <2>1. pc[p] = "badger" /\ holds[p] /\ "unlock" \in Steps /\ "serve" \in Steps
    BY <1>0, <1>7 DEF Badger, Steps
  <2>2. UNCHANGED <<path, fileVars, histVars>>  BY <1>7 DEF Badger
  <2>3. CASE Go(p, "unlock") \/ Go(p, "serve")  BY <2>1, <2>2, <2>3, StepAside
  <2>4. CASE UNCHANGED pc
    BY <2>2, <2>4 DEF LockInv, HoldsAtSteps, OneEngaged, Engaged
  <2> QED  BY <1>7, <2>3, <2>4 DEF Badger
<1>8. CASE Stop(p)
  <2>1. CASE Exit(p)  BY <1>8, <2>1, ExitAside DEF Stop
  <2>2. CASE file[p] # 0 /\ Go(p, "unlock") /\ UNCHANGED <<fileVars, opened>>
    <3>1. holds[p] /\ "unlock" \in Steps  BY <1>0, <1>8, <2>2 DEF Stop, Steps
    <3> QED  BY <1>8, <2>2, <3>1, StepAside DEF Stop
  <2> QED  BY <1>8, <2>1, <2>2 DEF Stop
<1>9. CASE Unlock(p)  BY <1>9, UnlockLock
<1>10. CASE Remove(p)  BY <1>10, RemoveLock
<1>11. CASE CloseStores(p)  BY <1>11, ExitAside DEF CloseStores
<1>12. CASE Crash(p)  BY <1>12, ExitAside DEF Crash
<1> QED  BY <1>1, <1>2, <1>3, <1>4, <1>5, <1>6, <1>7, <1>8, <1>9, <1>10, <1>11, <1>12 DEF Run

LEMMA LockAlways == Spec => []LockInv
<1>1. Init => LockInv
  <2> SUFFICES ASSUME Init PROVE LockInv  OBVIOUS
  <2>1. \A p \in Procs : pc[p] = "out" /\ ~holds[p]  BY DEF Init
  <2> QED  BY <2>1, InitTyped DEF Init, LockInv, HoldsAtSteps, OneEngaged, Engaged
<1>2. ASSUME LockInv, [Next]_vars PROVE LockInv'
  <2>0. TypeOK'  BY <1>2, NextTyped DEF LockInv
  <2>1. CASE Next  BY <1>2, <2>0, <2>1, LockKept DEF Next
  <2>2. CASE UNCHANGED vars
    BY <1>2, <2>0, <2>2 DEF vars, diskVars, fileVars, histVars, LockInv, HoldsAtSteps, OneEngaged, Engaged
  <2> QED  BY <1>2, <2>1, <2>2
<1> QED  BY <1>1, <1>2, PTL DEF Spec

\* The lock of the home is exclusive, whatever the processes do and wherever they
\* are killed, unless it was taken on a file that an unlock had removed or was
\* about to remove (Locker.lock and Locker.unlock).
THEOREM LockIsExclusiveUnlessRaced == Spec => []ExclusiveUnlessRaced
<1>1. LockInv => ExclusiveUnlessRaced
  BY DEF LockInv, OneEngaged, Engaged, ExclusiveUnlessRaced, LockIsExclusive
<1> QED  BY <1>1, LockAlways, PTL

\* Close fails, and leaves the badger stores unclosed, only after such a race.
THEOREM StoresAreClosedUnlessRaced == Spec => []ClosesUnlessRaced
<1>1. LockInv => ClosesUnlessRaced  BY DEF LockInv, OneEngaged, ClosesUnlessRaced
<1> QED  BY <1>1, LockAlways, PTL

-----------------------------------------------------------------------------
(* A service's store.                                                      *)

\* what serves has the databases it needs, under the lock
ServesOpen ==
    \A p \in Procs :
        pc[p] = "serve" /\ Needs[p] \intersect Databases # {} =>
            file[p] # 0 /\ Needs[p] \intersect Databases \subseteq opened[p]

StoreInv == LockInv /\ ServesOpen

\* a process changes nothing of another one
LEMMA OwnStep ==
    ASSUME TypeOK, NEW p \in Procs, Start(p) \/ Run(p) \/ Crash(p)
    PROVE  /\ \A q \in Procs \ {p} : /\ pc'[q] = pc[q] /\ aim'[q] = aim[q]
                                     /\ file'[q] = file[q] /\ opened'[q] = opened[q]
           /\ dirs \subseteq dirs'
<1> USE DEF diskVars, fileVars, histVars, TypeOK, Go, Exit
<1>1. CASE Start(p)  BY <1>1 DEF Start
<1>2. CASE InitRoot(p)  BY <1>2 DEF InitRoot
<1>3. CASE Uncheck(p)  BY <1>3 DEF Uncheck
<1>4. CASE OpenFile(p)  BY <1>4 DEF OpenFile
<1>5. CASE Flock(p)  BY <1>5 DEF Flock
<1>6. CASE Mkdir(p)  BY <1>6 DEF Mkdir
<1>7. CASE Badger(p)  BY <1>7 DEF Badger
<1>8. CASE Stop(p)  BY <1>8 DEF Stop
<1>9. CASE Unlock(p)  BY <1>9 DEF Unlock
<1>10. CASE Remove(p)  BY <1>10 DEF Remove
<1>11. CASE CloseStores(p)  BY <1>11 DEF CloseStores
<1>12. CASE Crash(p)  BY <1>12 DEF Crash
<1> QED  BY <1>1, <1>2, <1>3, <1>4, <1>5, <1>6, <1>7, <1>8, <1>9, <1>10, <1>11, <1>12 DEF Run

\* where the steps of a process lead
LEMMA Leads ==
    ASSUME TypeOK, NEW p \in Procs, Run(p)
    PROVE  /\ pc[p] = "initRoot" => pc'[p] = "uncheck" /\ aim'[p] = aim[p]
           /\ pc[p] = "uncheck" => pc'[p] \in {"lock", "out"} /\ aim'[p] = aim[p]
           /\ pc[p] = "lock" => pc'[p] = "flock" /\ aim'[p] = aim[p]
           /\ pc[p] = "flock" => /\ pc'[p] \in {"out", IF aim[p] = "init" THEN "mkdir" ELSE "badger"}
                                 /\ aim'[p] = aim[p]
           /\ pc[p] = "mkdir" => pc'[p] \in {"mkdir", "unlock"} /\ aim'[p] = aim[p]
           /\ pc[p] = "badger" =>
                \/ pc'[p] = "badger" /\ aim'[p] = aim[p]
                \/ pc'[p] = "unlock" /\ aim'[p] = "fail"
                \/ /\ pc'[p] = "serve" /\ aim'[p] = aim[p] /\ file'[p] = file[p]
                   /\ Needs[p] \intersect Databases \subseteq opened'[p]
           /\ pc[p] = "serve" => pc'[p] = (IF file[p] # 0 THEN "unlock" ELSE "out") /\ aim'[p] = "close"
           /\ pc[p] = "unlock" => pc'[p] = "remove" /\ aim'[p] = aim[p]
           /\ pc[p] = "remove" =>
                /\ pc'[p] = (IF path # 0 /\ aim[p] = "close" THEN "closeStores" ELSE "out")
                /\ aim'[p] = aim[p]
           /\ pc[p] = "closeStores" => pc'[p] = "out" /\ aim'[p] = aim[p]
           /\ pc[p] # "out"
<1> USE DEF diskVars, fileVars, TypeOK, Go, Exit
<1>2. CASE InitRoot(p)  BY <1>2 DEF InitRoot
<1>3. CASE Uncheck(p)  BY <1>3 DEF Uncheck
<1>4. CASE OpenFile(p)  BY <1>4 DEF OpenFile
<1>5. CASE Flock(p)  BY <1>5 DEF Flock
<1>6. CASE Mkdir(p)  BY <1>6 DEF Mkdir
<1>7. CASE Badger(p)  BY <1>7 DEF Badger
<1>8. CASE Stop(p)  BY <1>8 DEF Stop
<1>9. CASE Unlock(p)  BY <1>9 DEF Unlock
<1>10. CASE Remove(p)  BY <1>10 DEF Remove
<1>11. CASE CloseStores(p)  BY <1>11 DEF CloseStores
<1> QED  BY <1>2, <1>3, <1>4, <1>5, <1>6, <1>7, <1>8, <1>9, <1>10, <1>11 DEF Run

LEMMA ServesOpenKept ==
    ASSUME LockInv, ServesOpen, NEW p \in Procs, Start(p) \/ Run(p) \/ Crash(p)
    PROVE  ServesOpen'
<1>0. TypeOK  BY DEF LockInv
<1> SUFFICES ASSUME pc'[p] = "serve", Needs[p] \intersect Databases # {}
             PROVE  file'[p] # 0 /\ Needs[p] \intersect Databases \subseteq opened'[p]
  BY <1>0, OwnStep DEF ServesOpen
<1>1. CASE Start(p)
  <2>1. pc'[p] # "serve"  BY <1>0, <1>1 DEF Start, Go, TypeOK
  <2> QED  BY <2>1
<1>2. CASE Run(p)
  <2>1. pc[p] = "badger"  BY <1>0, <1>2, Leads DEF TypeOK
  <2>2. file[p] # 0  BY <2>1 DEF LockInv, HoldsAtSteps
  <2> QED  BY <1>0, <1>2, <2>1, <2>2, Leads
<1>3. CASE Crash(p)
  <2>1. pc'[p] = "out"  BY <1>0, <1>3 DEF Crash, Exit, Go, TypeOK
  <2> QED  BY <2>1
<1> QED  BY <1>1, <1>2, <1>3

LEMMA StoreAlways == Spec => []StoreInv
<1>1. Init => ServesOpen  BY DEF Init, ServesOpen
<1>2. LockInv /\ ServesOpen /\ [Next]_vars => ServesOpen'
  <2> SUFFICES ASSUME LockInv, ServesOpen, [Next]_vars PROVE ServesOpen'  OBVIOUS
  <2>1. CASE Next  BY <2>1, ServesOpenKept DEF Next
  <2>2. CASE UNCHANGED vars  BY <2>2 DEF vars, fileVars, ServesOpen
  <2> QED  BY <2>1, <2>2
<1> QED  BY <1>1, <1>2, LockAlways, PTL DEF Spec, StoreInv

-----------------------------------------------------------------------------
(* Services are processes of Store.                                        *)

LEMMA ServiceInStore == ASSUME [ServiceNext]_homeVars PROVE [Next]_vars
<1>1. CASE UNCHANGED homeVars  BY <1>1 DEF homeVars
<1>2. ASSUME NEW p \in Services \intersect cast, Launch(p) \/ Proceed(p) \/ End(p)
      PROVE  [Next]_vars
  <2>0. p \in Procs  BY ServicesAssumption
  <2>1. Start(p) \/ Run(p) \/ Crash(p) \/ UNCHANGED vars
    BY <1>2 DEF Launch, Proceed, RunInit, RunStart, Stat, Truncate, Write, ReadConfig, OpenStore,
                InStore, Prepare, Peers, End, Signal, StopNext, Run
  <2> QED  BY <2>0, <2>1 DEF Next
<1>3. ASSUME NEW p \in (Procs \ Services) \intersect cast, Keys(p) PROVE [Next]_vars
  BY <1>3 DEF Next, Keys
<1>4. CASE Edit  BY <1>4 DEF Edit
<1> QED  BY <1>1, <1>2, <1>3, <1>4 DEF ServiceNext

\* Whatever the services' commands do, they use the store as processes of Store:
\* what is proved of these holds beside config files, failures and signals.
THEOREM ServicesShareAStore == ServiceSpec => Spec
BY ServiceInStore, PTL DEF ServiceSpec, Spec, ServiceInit

-----------------------------------------------------------------------------
(* The stop functions.                                                     *)

Stoppable == {"queriers", "account", "metrics", "dht", "store"}

\* stopFuncs after so many of its functions were called
Left ==
    {Registered, (<<"account", "metrics", "dht", "store">>), (<<"metrics", "dht", "store">>),
     (<<"dht", "store">>), (<<"store">>)}

LEMMA Concatenations ==
    /\ (<<"queriers">> \o <<"account">>) \o Metrics = <<"queriers", "account", "metrics">>
    /\ <<"queriers", "account", "metrics">> \o StopsLast = Registered
<1>1. ASSUME NEW s \in Seq(Stoppable), NEW t \in Seq(Stoppable), NEW u \in Seq(Stoppable),
             Len(u) = Len(s) + Len(t),
             \A i \in 1..Len(u) : u[i] = IF i <= Len(s) THEN s[i] ELSE t[i - Len(s)]
      PROVE  s \o t = u
  <2>1. /\ s \o t \in Seq(Stoppable) /\ Len(s \o t) = Len(s) + Len(t)
        /\ \A i \in 1..Len(s) + Len(t) : (s \o t)[i] = IF i <= Len(s) THEN s[i] ELSE t[i - Len(s)]
    BY ConcatProperties
  <2>2. \A i \in 1..Len(s \o t) : (s \o t)[i] = u[i]  BY <1>1, <2>1
  <2> QED  BY <1>1, <2>1, <2>2, SeqEqual
<1>2. /\ <<"queriers">> \in Seq(Stoppable) /\ <<"account">> \in Seq(Stoppable)
      /\ <<"metrics">> \in Seq(Stoppable)
      /\ <<"queriers", "account">> \in Seq(Stoppable)
      /\ <<"queriers", "account", "metrics">> \in Seq(Stoppable)
      /\ <<"dht", "store">> \in Seq(Stoppable)
      /\ <<"queriers", "account", "metrics", "dht", "store">> \in Seq(Stoppable)
  BY DEF Stoppable
<1>3. <<"queriers">> \o <<"account">> = <<"queriers", "account">>
  <2> DEFINE s == <<"queriers">>  t == <<"account">>  u == <<"queriers", "account">>
  <2>1. /\ Len(u) = Len(s) + Len(t)
        /\ \A i \in 1..Len(u) : u[i] = IF i <= Len(s) THEN s[i] ELSE t[i - Len(s)]
    OBVIOUS
  <2>2. s \in Seq(Stoppable) /\ t \in Seq(Stoppable) /\ u \in Seq(Stoppable)  BY <1>2
  <2> HIDE DEF s, t, u
  <2>3. s \o t = u  BY <1>1, <2>1, <2>2
  <2> QED  BY <2>3 DEF s, t, u
<1>4. <<"queriers", "account">> \o <<"metrics">> = <<"queriers", "account", "metrics">>
  <2> DEFINE s == <<"queriers", "account">>  t == <<"metrics">>  u == <<"queriers", "account", "metrics">>
  <2>1. /\ Len(u) = Len(s) + Len(t)
        /\ \A i \in 1..Len(u) : u[i] = IF i <= Len(s) THEN s[i] ELSE t[i - Len(s)]
    OBVIOUS
  <2>2. s \in Seq(Stoppable) /\ t \in Seq(Stoppable) /\ u \in Seq(Stoppable)  BY <1>2
  <2> HIDE DEF s, t, u
  <2>3. s \o t = u  BY <1>1, <2>1, <2>2
  <2> QED  BY <2>3 DEF s, t, u
<1>5. <<"queriers", "account", "metrics">> \o <<"dht", "store">> = <<"queriers", "account", "metrics", "dht", "store">>
  <2> DEFINE s == <<"queriers", "account", "metrics">>  t == <<"dht", "store">>  u == <<"queriers", "account", "metrics", "dht", "store">>
  <2>1. /\ Len(u) = Len(s) + Len(t)
        /\ \A i \in 1..Len(u) : u[i] = IF i <= Len(s) THEN s[i] ELSE t[i - Len(s)]
    OBVIOUS
  <2>2. s \in Seq(Stoppable) /\ t \in Seq(Stoppable) /\ u \in Seq(Stoppable)  BY <1>2
  <2> HIDE DEF s, t, u
  <2>3. s \o t = u  BY <1>1, <2>1, <2>2
  <2> QED  BY <2>3 DEF s, t, u
<1> QED  BY <1>3, <1>4, <1>5 DEF Metrics, StopsLast, Registered

LEMMA Tails ==
    /\ Tail(Registered) = <<"account", "metrics", "dht", "store">>
    /\ Tail(<<"account", "metrics", "dht", "store">>) = <<"metrics", "dht", "store">>
    /\ Tail(<<"metrics", "dht", "store">>) = <<"dht", "store">>
    /\ Tail(<<"dht", "store">>) = <<"store">>
    /\ Tail(<<"store">>) = <<>>
    /\ Head(Registered) = "queriers"
    /\ Head(<<"account", "metrics", "dht", "store">>) = "account"
    /\ Head(<<"metrics", "dht", "store">>) = "metrics"
    /\ Head(<<"dht", "store">>) = "dht" /\ Head(<<"store">>) = "store"
BY DEF Registered

LEMMA Registrations ==
    ASSUME NEW s, s \in Left \union {(<<>>), (<<"queriers">>), (<<"queriers", "account", "metrics">>)}
    PROVE  \E i \in 1..6, j \in 0..5 : s = SubSeq(Registered, i, j)
<1>1. <<>> = SubSeq(Registered, 1, 0)  BY DEF Registered
<1>2. <<"queriers">> = SubSeq(Registered, 1, 1)  BY DEF Registered
<1>3. <<"queriers", "account", "metrics">> = SubSeq(Registered, 1, 3)  BY DEF Registered
<1>4. <<"account", "metrics", "dht", "store">> = SubSeq(Registered, 2, 5)  BY DEF Registered
<1>5. <<"metrics", "dht", "store">> = SubSeq(Registered, 3, 5)  BY DEF Registered
<1>6. <<"dht", "store">> = SubSeq(Registered, 4, 5)  BY DEF Registered
<1>7. <<"store">> = SubSeq(Registered, 5, 5)  BY DEF Registered
<1>8. Registered = SubSeq(Registered, 1, 5)
  <2>1. Registered \in Seq(Stoppable) /\ Len(Registered) = 5  BY DEF Registered, Stoppable
  <2>2. 1 \in Int /\ 5 \in Int /\ \A i \in 1..5 : Registered[i] \in Stoppable
    BY DEF Registered, Stoppable
  <2>3. /\ SubSeq(Registered, 1, 5) \in Seq(Stoppable)
        /\ Len(SubSeq(Registered, 1, 5)) = IF 1 <= 5 THEN 5 - 1 + 1 ELSE 0
        /\ \A i \in 1..5 - 1 + 1 : SubSeq(Registered, 1, 5)[i] = Registered[1 + i - 1]
    BY <2>2, SubSeqProperties
  <2>4. /\ Len(SubSeq(Registered, 1, 5)) = 5
        /\ \A i \in 1..5 : SubSeq(Registered, 1, 5)[i] = Registered[i]
    BY <2>3
  <2> QED  BY <2>1, <2>3, <2>4, SeqEqual
<1>9. \A i \in {1, 2, 3, 4, 5} : i \in 1..6 /\ i \in 0..5  OBVIOUS
<1>10. 0 \in 0..5  OBVIOUS
<1> QED  BY <1>1, <1>2, <1>3, <1>4, <1>5, <1>6, <1>7, <1>8, <1>9, <1>10, Zenon DEF Left

-----------------------------------------------------------------------------
(* The steps of the services' commands.                                    *)

Idle == {"off", "stat", "read"} \union Begun \union Truncated
Serving == {"account", "peers", "run", "stopping"}

ServiceTyped ==
    /\ cast \in Casts /\ config \in {"none", "torn", "default", "edited"}
    /\ phase \in [Services -> Phases]
    /\ loaded \in [Services -> {"none", "torn", "default", "edited"}]
    /\ dht \in [Services -> BOOLEAN] /\ due \in BOOLEAN /\ tornRead \subseteq Services
    /\ edits \in 0..MaxEdits /\ failures \in 0..MaxFailures
    /\ DOMAIN stops = Services /\ stops = [p \in Services |-> stops[p]]

\* What the step of a command says of its process in the store, of what is
\* registered, and of the DHT: it is up only while the store's stop is to come,
\* or is still to be registered.
AtPhase(p) ==
    /\ phase[p] \in Idle \union {"store"} => pc[p] = "out" /\ stops[p] = <<>>
    /\ phase[p] \in Idle \union {"init"} => loaded[p] = "none"
    /\ phase[p] = "init" =>
         /\ stops[p] = <<>> /\ aim[p] = "init"
         /\ pc[p] \in {"initRoot", "uncheck", "lock", "flock", "mkdir", "unlock", "remove"}
    /\ phase[p] = "opening" =>
         /\ stops[p] = <<"queriers">> /\ aim[p] \in {"open", "fail"}
         /\ pc[p] \in {"lock", "flock", "badger", "unlock", "remove"}
    /\ phase[p] = "closing" =>
         /\ stops[p] = <<>> /\ aim[p] = "close"
         /\ pc[p] \in {"unlock", "remove", "closeStores"}
    /\ phase[p] \in Serving => pc[p] = "serve"
    /\ phase[p] = "account" => stops[p] = <<"queriers">>
    /\ phase[p] = "peers" => stops[p] = <<"queriers", "account", "metrics">>
    /\ phase[p] = "run" => stops[p] = Registered
    /\ phase[p] = "stopping" => stops[p] \in Left
    /\ dht[p] => phase[p] \in {"peers", "run", "stopping"} /\ stops[p] # <<"store">>

PhaseInv == ServiceTyped /\ \A p \in Services : AtPhase(p)

\* config.toml is there once it is read, and truncated only by somebody who is at
\* it, or was killed
FileInv ==
    /\ \A p \in Services : phase[p] \in Truncated \union {"read"} => config # "none"
    /\ config = "torn" => failures > 0 \/ \E q \in Services : phase[q] \in Truncated

\* the settings of a service that has read them
ReadInv ==
    \A p \in Services :
        phase[p] \in {"store", "opening"} \union Serving =>
            /\ p \in Given \/ loaded[p] = "edited"
            /\ loaded[p] # "none"
            /\ loaded[p] = "torn" => failures > 0 \/ p \in tornRead

\* no command that is under way will write to an edited file
KeptInv ==
    due => /\ config = "edited"
           /\ \A p \in Services : IsInit(p) /\ phase[p] \notin Begun \union Truncated \union {"init"}

\* the step of a service's command changes nothing of another's
LEMMA OwnPhase ==
    ASSUME PhaseInv, TypeOK, NEW p \in Services, Launch(p) \/ Proceed(p) \/ End(p),
           NEW q \in Services \ {p}
    PROVE  /\ phase'[q] = phase[q] /\ stops'[q] = stops[q] /\ loaded'[q] = loaded[q]
           /\ dht'[q] = dht[q] /\ pc'[q] = pc[q] /\ aim'[q] = aim[q]
           /\ q \in tornRead <=> q \in tornRead'
<1>1. p \in Procs /\ q \in Procs \ {p}  BY ServicesAssumption
<1>2. Start(p) \/ Run(p) \/ Crash(p) \/ UNCHANGED vars
  BY DEF Launch, Proceed, RunInit, RunStart, Stat, Truncate, Write, ReadConfig, OpenStore,
         InStore, Prepare, Peers, End, Signal, StopNext, Run
<1>3. pc'[q] = pc[q] /\ aim'[q] = aim[q]
  <2>1. CASE UNCHANGED vars  BY <2>1 DEF vars
  <2> QED  BY <1>1, <1>2, <2>1, OwnStep
<1>4. /\ DOMAIN phase = Services /\ DOMAIN loaded = Services /\ DOMAIN dht = Services
      /\ DOMAIN stops = Services
  BY DEF PhaseInv, ServiceTyped
<1>5. phase'[q] = phase[q]
  BY <1>4 DEF Launch, Proceed, RunInit, RunStart, Stat, Truncate, Write, ReadConfig, OpenStore,
              InStore, Prepare, Peers, End, Signal, StopNext, To
<1>6. stops'[q] = stops[q]
  BY <1>4 DEF Launch, Proceed, RunInit, RunStart, Stat, Truncate, Write, ReadConfig, OpenStore,
              InStore, Prepare, Peers, End, Signal, StopNext, Forget, startVars
<1>7. loaded'[q] = loaded[q] /\ (q \in tornRead <=> q \in tornRead')
  BY <1>4 DEF Launch, Proceed, RunInit, RunStart, Stat, Truncate, Write, ReadConfig, OpenStore,
              InStore, Prepare, Peers, End, Signal, StopNext, Forget, configVars
<1>8. dht'[q] = dht[q]
  <2>1. \/ UNCHANGED dht
        \/ dht' = [dht EXCEPT ![p] = FALSE]
        \/ dht' = [dht EXCEPT ![p] = TRUE]
    BY DEF Launch, Proceed, RunInit, RunStart, Stat, Truncate, Write, ReadConfig, OpenStore,
           InStore, Prepare, Peers, End, Signal, StopNext, Forget, startVars
  <2> QED  BY <1>4, <2>1
<1> QED  BY <1>3, <1>5, <1>6, <1>7, <1>8

LEMMA AfterTyped == ASSUME NEW p \in Services, phase[p] \in Phases PROVE After(p) \in Phases
BY DEF After, Phases, Begun, Truncated

LEMMA TypedKept ==
    ASSUME ServiceTyped, [ServiceNext]_homeVars
    PROVE  ServiceTyped'
<1> USE DEF serviceVars, configVars, startVars
<1>1. CASE UNCHANGED homeVars \/ \E p \in (Procs \ Services) \intersect cast : Keys(p) /\ UNCHANGED serviceVars
  BY <1>1 DEF homeVars, ServiceTyped
<1>2. CASE Edit /\ UNCHANGED cast
  BY <1>2, LimitAssumption DEF Edit, ServiceTyped
<1>3. ASSUME NEW p \in Services, Launch(p) \/ Proceed(p) \/ (End(p) /\ UNCHANGED cast)
      PROVE  ServiceTyped'
  <2>1. /\ cast' = cast /\ edits' = edits /\ due' = due
        /\ failures' \in 0..MaxFailures
    BY <1>3, LimitAssumption
    DEF ServiceTyped, Launch, Proceed, RunInit, RunStart, Stat, Truncate, Write, ReadConfig, OpenStore,
        InStore, Prepare, Peers, End, Signal, StopNext
  <2>2. config' \in {"none", "torn", "default", "edited"}
    BY <1>3
    DEF ServiceTyped, Launch, Proceed, RunInit, RunStart, Stat, Truncate, Write, ReadConfig, OpenStore,
        InStore, Prepare, Peers, End, Signal, StopNext
  <2>3. phase' \in [Services -> Phases]
    <3>1. \/ UNCHANGED phase
          \/ \E s \in Phases : To(p, s)
      BY <1>3, AfterTyped
      DEF ServiceTyped, Launch, Proceed, RunInit, RunStart, Stat, Truncate, Write, ReadConfig, OpenStore,
          InStore, Prepare, Peers, End, Signal, StopNext, Phases, Begun, Truncated
    <3> QED  BY <3>1 DEF ServiceTyped, To
  <2>4. loaded' \in [Services -> {"none", "torn", "default", "edited"}] /\ tornRead' \subseteq Services
    BY <1>3
    DEF ServiceTyped, Launch, Proceed, RunInit, RunStart, Stat, Truncate, Write, ReadConfig, OpenStore,
        InStore, Prepare, Peers, End, Signal, StopNext, Forget
  <2>5. dht' \in [Services -> BOOLEAN]
    <3>1. \/ UNCHANGED dht
          \/ dht' = [dht EXCEPT ![p] = FALSE]
          \/ dht' = [dht EXCEPT ![p] = TRUE]
      BY <1>3 DEF Launch, Proceed, RunInit, RunStart, Stat, Truncate, Write, ReadConfig, OpenStore,
                  InStore, Prepare, Peers, End, Signal, StopNext, Forget
    <3>2. dht \in [Services -> BOOLEAN]  BY DEF ServiceTyped
    <3> QED  BY <3>1, <3>2
  <2>6. DOMAIN stops' = Services /\ stops' = [q \in Services |-> stops'[q]]
    <3>1. UNCHANGED stops \/ \E f : stops' = [stops EXCEPT ![p] = f]
      BY <1>3 DEF Launch, Proceed, RunInit, RunStart, Stat, Truncate, Write, ReadConfig, OpenStore,
                  InStore, Prepare, Peers, End, Signal, StopNext, Forget
    <3> QED  BY <3>1 DEF ServiceTyped
  <2> QED  BY <2>1, <2>2, <2>3, <2>4, <2>5, <2>6 DEF ServiceTyped
<1> QED  BY <1>1, <1>2, <1>3 DEF ServiceNext

\* a command that is over
LEMMA ForgetAt ==
    ASSUME ServiceTyped, NEW p \in Services, To(p, "off"), Forget(p), pc'[p] = "out"
    PROVE  AtPhase(p)'
<1>1. phase'[p] = "off" /\ stops'[p] = <<>> /\ loaded'[p] = "none"
  BY DEF ServiceTyped, To, Forget
<1>2. ~dht'[p]
  <2>1. dht \in [Services -> BOOLEAN] /\ dht' = [dht EXCEPT ![p] = FALSE]  BY DEF ServiceTyped, Forget
  <2> QED  BY <2>1
<1> QED  BY <1>1, <1>2 DEF AtPhase, Idle, Begun, Truncated, Serving

\* steps outside of the store, whose resources stay as they are
LEMMA AsideAt ==
    ASSUME ServiceTyped, NEW p \in Services, AtPhase(p), UNCHANGED <<vars, startVars>>, ~dht[p],
           phase[p] \in Idle,
           \/ phase'[p] \in Idle /\ loaded'[p] = loaded[p]
           \/ phase'[p] = "store"
    PROVE  AtPhase(p)'
BY DEF vars, startVars, AtPhase, Idle, Begun, Truncated, Serving

\* steps in the store: where they end, the command goes on, or its process ends
LEMMA InStoreAt ==
    ASSUME ServiceTyped, StoreInv, NEW p \in Services, AtPhase(p), InStore(p)
    PROVE  AtPhase(p)'
<1>0. p \in Procs /\ TypeOK /\ Run(p) /\ To(p, After(p))
  BY ServicesAssumption DEF InStore, StoreInv, LockInv
<1>1. phase'[p] = After(p)  BY <1>0 DEF To, ServiceTyped
<1>2. ~dht[p]  BY DEF AtPhase, InStore
<1>3. CASE After(p) = "off"
  <2>1. Forget(p)  BY <1>3 DEF InStore
  <2>2. pc'[p] = "out"  BY <1>3 DEF After, AtPhase, InStore
  <2> QED  BY <1>0, <1>3, <2>1, <2>2, ForgetAt
<1>4. CASE After(p) # "off"
  <2>1. UNCHANGED <<startVars, loaded, tornRead>>  BY <1>4 DEF InStore
  <2>2. stops'[p] = stops[p] /\ loaded'[p] = loaded[p] /\ ~dht'[p]  BY <1>2, <2>1 DEF startVars
  <2>3. CASE phase[p] = "init"
    <3>1. /\ pc'[p] \in {"initRoot", "uncheck", "lock", "flock", "mkdir", "unlock", "remove", "out"}
          /\ aim'[p] = "init"
      BY <1>0, <2>3, Leads DEF AtPhase
    <3>2. pc'[p] # "out" => After(p) = "init"  BY <2>3, <3>1 DEF After
    <3>3. pc'[p] = "out" => After(p) = "initTruncate"  BY <1>4, <2>3 DEF After
    <3> QED  BY <1>1, <2>2, <2>3, <3>1, <3>2, <3>3
             DEF AtPhase, Idle, Begun, Truncated, Serving
  <2>4. CASE phase[p] = "opening"
    <3>1. /\ pc'[p] \in {"lock", "flock", "badger", "unlock", "remove", "serve", "out"}
          /\ aim'[p] \in {"open", "fail"}
      BY <1>0, <2>4, Leads DEF AtPhase
    <3>2. pc'[p] # "out"  BY <1>4, <2>4 DEF After
    <3>3. After(p) = IF pc'[p] = "serve" THEN "account" ELSE "opening"  BY <2>4, <3>2 DEF After
    <3> QED  BY <1>1, <2>2, <2>4, <3>1, <3>2, <3>3
             DEF AtPhase, Idle, Begun, Truncated, Serving
  <2>5. CASE phase[p] = "closing"
    <3>1. pc'[p] \in {"unlock", "remove", "closeStores", "out"} /\ aim'[p] = "close"
      BY <1>0, <2>5, Leads DEF AtPhase
    <3>2. pc'[p] # "out"  BY <1>4, <2>5 DEF After
    <3>3. After(p) = "closing"  BY <2>5, <3>1, <3>2 DEF After
    <3> QED  BY <1>1, <2>2, <2>5, <3>1, <3>2, <3>3
             DEF AtPhase, Idle, Begun, Truncated, Serving
  <2> QED  BY <2>3, <2>4, <2>5 DEF InStore
<1> QED  BY <1>3, <1>4

\* the stop functions one after the other: the DHT's before the store's
LEMMA StopNextAt ==
    ASSUME ServiceTyped, StoreInv, NEW p \in Services, AtPhase(p), StopNext(p)
    PROVE  AtPhase(p)'
<1>0. p \in Procs /\ TypeOK /\ "data" \in Needs[p] \intersect Databases
  BY ServicesAssumption DEF StoreInv, LockInv, Databases
<1>1. stops'[p] = Tail(stops[p]) /\ loaded'[p] = loaded[p]
  BY DEF StopNext, ServiceTyped, configVars
<1>2. phase[p] = "stopping" /\ stops[p] \in Left /\ pc[p] = "serve"
  BY DEF AtPhase, StopNext, Serving
<1>3. CASE stops[p] = <<"store">>
  <2>1. Stop(p) /\ To(p, "closing") /\ ~dht[p] /\ UNCHANGED dht
    BY <1>3, Tails DEF StopNext, AtPhase
  <2>2. pc'[p] = "unlock" /\ aim'[p] = "close"
    <3>1. file[p] # 0  BY <1>0, <1>2 DEF StoreInv, ServesOpen
    <3> QED  BY <1>0, <1>2, <2>1, <3>1, Leads DEF Run
  <2>3. phase'[p] = "closing"  BY <2>1 DEF To, ServiceTyped
  <2> QED  BY <1>1, <1>3, <2>1, <2>2, <2>3, Tails
           DEF AtPhase, Idle, Begun, Truncated, Serving
<1>4. CASE stops[p] # <<"store">>
  <2>1. stops'[p] \in Left /\ Head(stops[p]) # "store"  BY <1>1, <1>2, <1>4, Tails DEF Left
  <2>2. UNCHANGED <<vars, phase>>  BY <2>1 DEF StopNext
  <2>3. dht'[p] => stops'[p] # <<"store">>
    <3>1. CASE Head(stops[p]) = "dht"
      <4>1. dht \in [Services -> BOOLEAN] /\ dht' = [dht EXCEPT ![p] = FALSE]
        BY <3>1 DEF StopNext, ServiceTyped
      <4> QED  BY <4>1
    <3>2. CASE Head(stops[p]) # "dht"
      <4>1. stops[p] # <<"dht", "store">>  BY <3>2, Tails
      <4> QED  BY <1>1, <1>2, <1>4, <4>1, Tails DEF Left, Registered
    <3> QED  BY <3>1, <3>2
  <2> QED  BY <1>1, <1>2, <2>1, <2>2, <2>3
           DEF vars, AtPhase, Idle, Begun, Truncated, Serving
<1> QED  BY <1>3, <1>4

LEMMA ProceedAt ==
    ASSUME ServiceTyped, StoreInv, NEW p \in Services, AtPhase(p), Proceed(p)
    PROVE  AtPhase(p)'
<1> USE DEF configVars, startVars
<1>0. p \in Procs /\ TypeOK /\ "data" \in Needs[p] \intersect Databases
  BY ServicesAssumption DEF StoreInv, LockInv, Databases
<1>1. CASE Stat(p)
  <2>1. phase'[p] \in {"truncate", "read"} /\ ~dht[p] /\ phase[p] \in Idle
    BY <1>1 DEF Stat, To, ServiceTyped, AtPhase, Idle
  <2> QED  BY <1>1, <2>1, AsideAt DEF Stat, Idle, Begun
<1>2. CASE Truncate(p)
  <2>1. phase'[p] \in {"write", "initWrite"} /\ ~dht[p] /\ phase[p] \in Idle
    BY <1>2 DEF Truncate, To, ServiceTyped, AtPhase, Idle, Begun
  <2> QED  BY <1>2, <2>1, AsideAt DEF Truncate, Idle, Truncated
<1>3. CASE Write(p)
  <2>1. phase'[p] \in {"read", "off"} /\ ~dht[p] /\ phase[p] \in Idle
    BY <1>3 DEF Write, To, ServiceTyped, AtPhase, Idle, Truncated
  <2> QED  BY <1>3, <2>1, AsideAt DEF Write, Idle
<1>4. CASE ReadConfig(p)
  <2>1. /\ ~dht[p] /\ phase[p] \in Idle
        /\ phase'[p] = "store" \/ (phase'[p] = "off" /\ loaded' = loaded)
    BY <1>4 DEF ReadConfig, To, ServiceTyped, AtPhase, Idle
  <2> QED  BY <1>4, <2>1, AsideAt DEF ReadConfig, Idle
<1>5. CASE OpenStore(p)
  <2>1. ~dht[p] /\ pc[p] = "out"  BY <1>5 DEF OpenStore, AtPhase
  <2>2. CASE UNCHANGED vars /\ To(p, "off") /\ Forget(p)
    <3>1. pc'[p] = "out"  BY <2>1, <2>2 DEF vars
    <3> QED  BY <2>2, <3>1, ForgetAt
  <2>3. CASE /\ IsInit(p) /\ Start(p) /\ To(p, "opening")
             /\ stops' = [stops EXCEPT ![p] = <<"queriers">>] /\ UNCHANGED <<dht, loaded, tornRead>>
    <3>1. phase'[p] = "opening" /\ stops'[p] = <<"queriers">> /\ ~dht'[p]
      BY <2>1, <2>3 DEF To, ServiceTyped
    <3>2. pc'[p] = "lock" /\ aim'[p] = "open"  BY <1>0, <2>3 DEF Start, Go, TypeOK
    <3> QED  BY <3>1, <3>2 DEF AtPhase, Idle, Begun, Truncated, Serving
  <2> QED  BY <1>5, <2>2, <2>3 DEF OpenStore
<1>6. CASE InStore(p)  BY <1>6, InStoreAt
<1>7. CASE Prepare(p)
  <2>1. /\ phase'[p] = "peers" /\ pc'[p] = "serve"
        /\ stops'[p] = (<<"queriers">> \o <<"account">>) \o Metrics
    BY <1>7 DEF Prepare, To, ServiceTyped, AtPhase, Serving, vars
  <2>2. <<"queriers", "account", "metrics">> # <<"store">>  OBVIOUS
  <2> QED  BY <2>1, <2>2, Concatenations DEF AtPhase, Idle, Begun, Truncated, Serving
<1>8. CASE Peers(p)
  <2>1. /\ phase'[p] = "run" /\ pc'[p] = "serve"
        /\ stops'[p] = <<"queriers", "account", "metrics">> \o StopsLast
    BY <1>8 DEF Peers, To, ServiceTyped, AtPhase, Serving, vars
  <2>2. Registered # <<"store">>  BY DEF Registered
  <2> QED  BY <2>1, <2>2, Concatenations DEF AtPhase, Idle, Begun, Truncated, Serving
<1>9. CASE Signal(p)
  <2>1. /\ phase'[p] = "stopping" /\ pc'[p] = "serve" /\ stops'[p] = Registered
    BY <1>9 DEF Signal, To, ServiceTyped, AtPhase, Serving, vars
  <2>2. Registered # <<"store">> /\ Registered \in Left  BY DEF Registered, Left
  <2> QED  BY <2>1, <2>2 DEF AtPhase, Idle, Begun, Truncated, Serving
<1>10. CASE StopNext(p)  BY <1>10, StopNextAt
<1> QED  BY <1>1, <1>2, <1>3, <1>4, <1>5, <1>6, <1>7, <1>8, <1>9, <1>10 DEF Proceed

LEMMA LaunchAt ==
    ASSUME ServiceTyped, StoreInv, NEW p \in Services, AtPhase(p), Launch(p)
    PROVE  AtPhase(p)'
<1>0. p \in Procs /\ TypeOK  BY ServicesAssumption DEF StoreInv, LockInv
<1>1. ~dht[p] /\ phase[p] = "off" /\ stops[p] = <<>> /\ loaded[p] = "none" /\ phase[p] \in Idle
  BY DEF Launch, RunInit, RunStart, AtPhase, Idle
<1>2. CASE RunInit(p)
  <2>1. phase'[p] = "init" /\ stops'[p] = <<>> /\ loaded'[p] = "none" /\ ~dht'[p]
    BY <1>1, <1>2 DEF RunInit, To, ServiceTyped, configVars, startVars
  <2>2. pc'[p] = "initRoot" /\ aim'[p] = "init"  BY <1>0, <1>2 DEF RunInit, Start, Go, TypeOK
  <2> QED  BY <2>1, <2>2 DEF AtPhase, Idle, Begun, Truncated, Serving
<1>3. CASE RunStart(p)
  <2>1. phase'[p] = "stat" /\ loaded' = loaded  BY <1>3 DEF RunStart, To, ServiceTyped, configVars
  <2> QED  BY <1>1, <1>3, <2>1, AsideAt DEF RunStart, Idle
<1> QED  BY <1>2, <1>3 DEF Launch

LEMMA PhaseKept ==
    ASSUME PhaseInv, StoreInv, [ServiceNext]_homeVars
    PROVE  PhaseInv'
<1>0. ServiceTyped' /\ TypeOK  BY TypedKept DEF PhaseInv, StoreInv, LockInv
<1>1. ASSUME NEW p \in Services, Launch(p) \/ Proceed(p) \/ End(p) PROVE \A q \in Services : AtPhase(q)'
  <2>1. ASSUME NEW q \in Services \ {p} PROVE AtPhase(q)'
    BY <1>0, <1>1, OwnPhase DEF PhaseInv, AtPhase
  <2>2. CASE End(p)
    <3>1. pc'[p] = "out"
      <4>1. CASE pc[p] = "out" /\ UNCHANGED vars  BY <4>1 DEF vars
      <4>2. CASE Crash(p)  BY <1>0, <4>2, ServicesAssumption DEF Crash, Exit, Go, TypeOK
      <4> QED  BY <2>2, <4>1, <4>2 DEF End
    <3>2. AtPhase(p)'  BY <2>2, <3>1, ForgetAt DEF End, PhaseInv
    <3> QED  BY <2>1, <3>2
  <2> QED  BY <1>1, <2>1, <2>2, ProceedAt, LaunchAt DEF PhaseInv
<1>2. ASSUME UNCHANGED <<phase, stops, loaded, dht, pc, aim>> PROVE \A q \in Services : AtPhase(q)'
  <2> SUFFICES ASSUME NEW q \in Services PROVE AtPhase(q)'  OBVIOUS
  <2>1. AtPhase(q)  BY DEF PhaseInv
  <2> QED  BY <1>2, <2>1 DEF AtPhase
<1>3. ASSUME NEW p \in (Procs \ Services) \intersect cast, Keys(p), UNCHANGED serviceVars
      PROVE  \A q \in Services : AtPhase(q)'
  <2>1. \A q \in Services : q \in Procs \ {p}  BY ServicesAssumption
  <2>2. \A q \in Services : pc'[q] = pc[q] /\ aim'[q] = aim[q]
    BY <1>0, <1>3, <2>1, OwnStep DEF Keys
  <2> QED  BY <1>3, <2>2 DEF serviceVars, configVars, startVars, PhaseInv, AtPhase
<1>4. Edit \/ UNCHANGED homeVars => UNCHANGED <<phase, stops, loaded, dht, pc, aim>>
  BY DEF Edit, homeVars, serviceVars, configVars, startVars, vars
<1> QED  BY <1>0, <1>1, <1>2, <1>3, <1>4 DEF ServiceNext, PhaseInv

LEMMA PhaseAlways == ServiceSpec => [](StoreInv /\ PhaseInv)
<1>1. ServiceInit => PhaseInv
  <2> SUFFICES ASSUME ServiceInit PROVE PhaseInv  OBVIOUS
  <2>1. dht = [p \in Services |-> FALSE] /\ "off" \in Phases  BY DEF ServiceInit, Phases
  <2>2. dht \in [Services -> BOOLEAN] /\ \A p \in Services : ~dht[p]  BY <2>1
  <2>5. due \in BOOLEAN /\ tornRead \subseteq Services  BY DEF ServiceInit
  <2>6. edits \in 0..MaxEdits /\ failures \in 0..MaxFailures  BY LimitAssumption DEF ServiceInit
  <2>7. /\ phase \in [Services -> Phases]
        /\ loaded \in [Services -> {"none", "torn", "default", "edited"}]
        /\ cast \in Casts /\ config \in {"none", "torn", "default", "edited"}
    BY <2>1 DEF ServiceInit
  <2>8. DOMAIN stops = Services /\ stops = [p \in Services |-> stops[p]]  BY DEF ServiceInit
  <2>3. ServiceTyped  BY <2>2, <2>5, <2>6, <2>7, <2>8 DEF ServiceTyped
  <2>4. ASSUME NEW p \in Services PROVE AtPhase(p)
    <3>1. /\ phase[p] = "off" /\ loaded[p] = "none" /\ stops[p] = <<>> /\ ~dht[p]
          /\ pc[p] = "out"
      BY <2>2, ServicesAssumption DEF ServiceInit, Init
    <3> QED  BY <3>1 DEF AtPhase, Begun, Truncated, Serving
  <2> QED  BY <2>3, <2>4 DEF PhaseInv
<1> QED  BY <1>1, PhaseKept, StoreAlways, ServicesShareAStore, PTL DEF ServiceSpec

\* The types; a service serves in the store from its account to its last stop.
THEOREM ServicesTypeCorrect == ServiceSpec => []ServiceTypeOK
<1>1. ASSUME PhaseInv PROVE ServiceStateOK
  <2> SUFFICES ASSUME NEW p \in Services
               PROVE  /\ \E i \in 1..6, j \in 0..5 : stops[p] = SubSeq(Registered, i, j)
                      /\ phase[p] \in {"account", "peers", "run", "stopping"} <=> pc[p] = "serve"
                      /\ phase[p] \in {"init", "opening", "closing"} => pc[p] # "out"
                      /\ phase[p] = "off" => pc[p] = "out" /\ stops[p] = <<>> /\ ~dht[p] /\ loaded[p] = "none"
    BY <1>1 DEF PhaseInv, ServiceTyped, ServiceStateOK
  <2>1. AtPhase(p)  BY <1>1 DEF PhaseInv
  <2>2. phase[p] \in Idle \union {"store", "init", "opening", "closing"} \union Serving
    BY <1>1 DEF PhaseInv, ServiceTyped, Phases, Idle, Serving
  <2>3. stops[p] \in Left \union {(<<>>), (<<"queriers">>), (<<"queriers", "account", "metrics">>)}
    BY <2>1, <2>2 DEF AtPhase, Serving, Left
  <2>4. \E i \in 1..6, j \in 0..5 : stops[p] = SubSeq(Registered, i, j)  BY <2>3, Registrations
  <2> QED  BY <2>1, <2>2, <2>4 DEF AtPhase, Idle, Begun, Truncated, Serving
<1>2. TypeOK /\ ServiceStateOK => ServiceTypeOK  BY DEF ServiceTypeOK
<1> QED  BY <1>1, <1>2, PhaseAlways, TypeCorrect, ServicesShareAStore, PTL

\* The data store is open, and locked, while the DHT is up: the DHT is stopped
\* before the store is closed, and the store opened before there is a DHT
\* (start, stopFuncs).
THEOREM DHTsHaveTheirStore == ServiceSpec => []DHTHasItsStore
<1>1. ASSUME StoreInv, PhaseInv PROVE DHTHasItsStore
  <2> SUFFICES ASSUME NEW p \in Services, dht[p] PROVE "data" \in opened[p] /\ holds[p]
    BY DEF DHTHasItsStore
  <2>1. pc[p] = "serve"  BY <1>1 DEF PhaseInv, AtPhase, Serving
  <2>2. p \in Procs /\ "data" \in Needs[p] \intersect Databases  BY ServicesAssumption DEF Databases
  <2>3. file[p] # 0 /\ "data" \in opened[p]  BY <1>1, <2>1, <2>2 DEF StoreInv, ServesOpen
  <2> QED  BY <1>1, <2>1, <2>2, <2>3 DEF StoreInv, LockInv, HoldsAtSteps
<1> QED  BY <1>1, PhaseAlways, PTL

\* the steps that are not of a service's command
LEMMA OthersStep ==
    ASSUME [ServiceNext]_homeVars,
           ~\E p \in Services \intersect cast : Launch(p) \/ Proceed(p) \/ (End(p) /\ UNCHANGED cast)
    PROVE  /\ UNCHANGED <<phase, loaded, tornRead, failures>>
           /\ UNCHANGED <<config, due>> \/ Edit
BY DEF ServiceNext, Edit, homeVars, serviceVars, configVars, startVars

\* the parts of the invariant, of which each relies on those before
ConfigInv == FileInv /\ ReadInv /\ KeptInv

LEMMA FileKept ==
    ASSUME PhaseInv, TypeOK, FileInv, [ServiceNext]_homeVars
    PROVE  FileInv'
<1>1. ASSUME NEW p \in Services, Launch(p) \/ Proceed(p) \/ End(p) PROVE FileInv'
  <2>1. \A q \in Services \ {p} : phase'[q] = phase[q]  BY <1>1, OwnPhase
  <2>2. ASSUME NEW s, To(p, s) PROVE phase'[p] = s  BY <2>2 DEF To, PhaseInv, ServiceTyped
  <2>3. After(p) \notin Truncated \union {"read"} \/ After(p) = phase[p]  BY DEF After, Truncated
  <2>4. \/ /\ config' = config /\ failures' = failures /\ phase[p] \notin Truncated
           /\ phase'[p] \notin Truncated
           /\ phase'[p] = "read" => config # "none"
        \/ config' = "torn" /\ phase'[p] \in Truncated
        \/ config' = "default"
        \/ config' = config /\ failures' > 0 /\ phase'[p] = "off"
    <3>1. CASE Launch(p)
      BY <1>1, <2>2, <3>1 DEF Launch, RunInit, RunStart, configVars, Truncated
    <3>2. CASE Stat(p)  BY <2>2, <3>2 DEF Stat, Creates, configVars, Truncated
    <3>3. CASE Truncate(p)  BY <2>2, <3>3 DEF Truncate, Truncated
    <3>4. CASE Write(p)  BY <3>4 DEF Write
    <3>5. CASE ReadConfig(p) \/ OpenStore(p)
      BY <2>2, <3>5 DEF ReadConfig, OpenStore, Truncated
    <3>6. CASE InStore(p)
      <4>1. phase'[p] = After(p) /\ phase[p] \notin Truncated \union {"read"}
        BY <2>2, <3>6 DEF InStore, Truncated
      <4> QED  BY <2>3, <3>6, <4>1 DEF InStore
    <3>7. CASE Prepare(p) \/ Peers(p) \/ Signal(p) \/ StopNext(p)
      <4>1. /\ phase[p] \notin Truncated \union {"read"} /\ config' = config /\ failures' = failures
            /\ phase'[p] \in {"peers", "run", "stopping", "closing"}
        BY <2>2, <3>7 DEF Prepare, Peers, Signal, StopNext, configVars, Truncated
      <4> QED  BY <4>1 DEF Truncated
    <3>8. CASE End(p)
      <4>1. failures' > 0  BY <3>8, LimitAssumption DEF End, PhaseInv, ServiceTyped
      <4> QED  BY <2>2, <3>8, <4>1 DEF End
    <3> QED  BY <1>1, <3>1, <3>2, <3>3, <3>4, <3>5, <3>6, <3>7, <3>8 DEF Proceed
  <2> QED  BY <2>1, <2>4 DEF FileInv, Truncated
<1>2. CASE UNCHANGED <<phase, failures>> /\ (UNCHANGED config \/ Edit)
  BY <1>2 DEF FileInv, Edit
<1> QED  BY <1>1, <1>2, OthersStep

\* What start has read is not read again; and what it reads is complete, or torn
\* by somebody who is at the file, or was killed.
LEMMA ReadKept ==
    ASSUME PhaseInv, StoreInv, FileInv, ReadInv, [ServiceNext]_homeVars
    PROVE  ReadInv'
<1> DEFINE Read(p) == phase[p] \in {"store", "opening"} \union Serving
           Settled(p) == /\ p \in Given \/ loaded[p] = "edited"
                         /\ loaded[p] # "none"
                         /\ loaded[p] = "torn" => failures > 0 \/ p \in tornRead
<1>0. TypeOK /\ failures \in Nat
  BY LimitAssumption DEF StoreInv, LockInv, PhaseInv, ServiceTyped
<1>1. ASSUME NEW p \in Services, Launch(p) \/ Proceed(p) \/ End(p) PROVE ReadInv'
  <2>1. failures' = failures \/ failures' > 0
    BY <1>0, <1>1 DEF Launch, Proceed, RunInit, RunStart, Stat, Truncate, Write, ReadConfig, OpenStore,
                InStore, Prepare, Peers, End, Signal, StopNext
  <2>2. ASSUME NEW q \in Services \ {p}, Read(q)' PROVE Settled(q)'
    <3>1. /\ phase'[q] = phase[q] /\ loaded'[q] = loaded[q] /\ (q \in tornRead <=> q \in tornRead')
      BY <1>0, <1>1, OwnPhase
    <3> QED  BY <2>1, <2>2, <3>1 DEF ReadInv
  <2>3. ASSUME Read(p)' PROVE Settled(p)'
    <3>1. ASSUME NEW s, To(p, s) PROVE phase'[p] = s  BY <3>1 DEF To, PhaseInv, ServiceTyped
    <3>2. CASE Read(p) /\ UNCHANGED <<loaded, tornRead>>  BY <2>1, <3>2 DEF ReadInv
    <3>3. CASE ReadConfig(p)
      <4>1. /\ Valid(p) /\ loaded' = [loaded EXCEPT ![p] = config]
            /\ tornRead' = IF \E q \in Services : phase[q] \in Truncated THEN tornRead \union {p} ELSE tornRead
        BY <2>3, <3>1, <3>3 DEF ReadConfig, Serving
      <4>2. loaded'[p] = config  BY <4>1 DEF PhaseInv, ServiceTyped
      <4>3. config # "none" /\ phase[p] = "read"  BY <3>3 DEF FileInv, ReadConfig
      <4>4. config = "torn" => failures' > 0 \/ p \in tornRead'
        <5>1. failures' = failures  BY <3>3 DEF ReadConfig
        <5> QED  BY <4>1, <5>1 DEF FileInv
      <4>5. p \in Given \/ config = "edited"
        BY <4>1 DEF Valid, Setting, PhaseInv, ServiceTyped
      <4> QED  BY <4>2, <4>3, <4>4, <4>5
    <3>4. CASE InStore(p)
      <4>1. phase'[p] = After(p) /\ p \in Procs  BY <3>1, <3>4, ServicesAssumption DEF InStore
      <4>2. phase[p] \notin {"init", "closing"}
        <5>1. AtPhase(p) /\ Run(p)  BY <3>4 DEF PhaseInv, InStore
        <5>2. phase[p] \in {"init", "closing"} => pc'[p] # "serve"
          BY <1>0, <4>1, <5>1, Leads DEF AtPhase
        <5> QED  BY <2>3, <4>1, <5>2 DEF After, Serving
      <4>3. Read(p) /\ After(p) # "off"  BY <2>3, <3>4, <4>1, <4>2 DEF InStore, Serving
      <4> QED  BY <3>2, <3>4, <4>3 DEF InStore
    <3>5. CASE OpenStore(p) \/ Prepare(p) \/ Peers(p) \/ Signal(p) \/ StopNext(p)
      <4>1. Read(p) /\ UNCHANGED <<loaded, tornRead>>
        BY <2>3, <3>1, <3>5 DEF OpenStore, Prepare, Peers, Signal, StopNext, configVars, Serving
      <4> QED  BY <3>2, <4>1
    <3>6. CASE Launch(p) \/ Stat(p) \/ Truncate(p) \/ Write(p) \/ End(p)
      <4>1. phase'[p] \in {"off", "stat", "init", "truncate", "read", "write", "initWrite"}
        BY <3>1, <3>6 DEF Launch, RunInit, RunStart, Stat, Truncate, Write, End
      <4> QED  BY <2>3, <4>1 DEF Serving
    <3> QED  BY <1>1, <3>3, <3>4, <3>5, <3>6 DEF Proceed
  <2> QED  BY <2>2, <2>3 DEF ReadInv
<1>2. CASE UNCHANGED <<phase, loaded, tornRead, failures>>  BY <1>2 DEF ReadInv
<1> QED  BY <1>1, <1>2, OthersStep

\* Whoever is to write the defaults has seen a home that is not initialized, or
\* no file; and the file of an initialized home is never taken away.
LEMMA KeptKept ==
    ASSUME PhaseInv, TypeOK, KeptInv, [ServiceNext]_homeVars
    PROVE  KeptInv'
<1>1. dirs \subseteq dirs'
  <2>1. [Next]_vars  BY ServiceInStore
  <2> QED  BY <2>1, OwnStep DEF Next, vars, diskVars
<1>2. ASSUME NEW p \in Services, IsInit(p) PROVE IsInit(p)'  BY <1>1, <1>2 DEF IsInit
<1>3. ASSUME NEW p \in Services, Launch(p) \/ Proceed(p) \/ End(p) PROVE KeptInv'
  <2> SUFFICES ASSUME due PROVE /\ config' = "edited"
                                /\ phase'[p] \notin Begun \union Truncated \union {"init"}
    <3>1. due' = due
      BY <1>3 DEF Launch, Proceed, RunInit, RunStart, Stat, Truncate, Write, ReadConfig, OpenStore,
                  InStore, Prepare, Peers, End, Signal, StopNext, configVars
    <3>2. \A q \in Services \ {p} : phase'[q] = phase[q]  BY <1>3, OwnPhase
    <3> QED  BY <1>2, <3>1, <3>2 DEF KeptInv
  <2>1. config = "edited" /\ IsInit(p) /\ phase[p] \notin Begun \union Truncated \union {"init"}
    BY DEF KeptInv
  <2>2. ASSUME NEW s, To(p, s) PROVE phase'[p] = s  BY <2>2 DEF To, PhaseInv, ServiceTyped
  <2>3. ~RunInit(p) /\ ~Truncate(p) /\ ~Write(p)  BY <2>1 DEF RunInit, Truncate, Write
  <2>4. config' = "edited"
    BY <1>3, <2>1, <2>3 DEF Launch, Proceed, RunStart, Stat, ReadConfig, OpenStore,
                  InStore, Prepare, Peers, End, Signal, StopNext, configVars
  <2>5. CASE InStore(p)
    <3>1. After(p) \in {"account", "off", phase[p]}  BY <2>1 DEF After
    <3> QED  BY <2>1, <2>2, <2>4, <2>5, <3>1 DEF InStore, Begun, Truncated
  <2>6. CASE ~InStore(p)
    <3>1. phase'[p] \in {"stat", "read", "store", "off", "opening", "peers", "run", "stopping", "closing"}
      BY <1>3, <2>1, <2>2, <2>3, <2>6 DEF Launch, Proceed, RunStart, Stat, Creates, ReadConfig, OpenStore,
                  Prepare, Peers, End, Signal, StopNext
    <3> QED  BY <2>4, <3>1 DEF Begun, Truncated
  <2> QED  BY <2>5, <2>6
<1>4. CASE Edit
  <2>1. phase' = phase /\ config' = "edited"  BY <1>4 DEF Edit
  <2>2. due' => due \/ \A p \in Services : IsInit(p) /\ phase[p] \notin Begun \union Truncated \union {"init"}
    BY <1>4 DEF Edit
  <2> QED  BY <1>2, <2>1, <2>2 DEF KeptInv
<1>5. CASE UNCHANGED <<phase, config, due>>  BY <1>2, <1>5 DEF KeptInv
<1> QED  BY <1>3, <1>4, <1>5, OthersStep

LEMMA ConfigAlways == ServiceSpec => [](PhaseInv /\ ConfigInv)
<1>1. ServiceInit => ConfigInv
  BY DEF ServiceInit, ConfigInv, FileInv, ReadInv, KeptInv, Truncated, Serving
<1>2. StoreInv /\ PhaseInv /\ ConfigInv /\ [ServiceNext]_homeVars => ConfigInv'
  BY FileKept, ReadKept, KeptKept DEF StoreInv, LockInv, ConfigInv
<1> QED  BY <1>1, <1>2, PhaseAlways, PTL DEF ServiceSpec

\* What the operator writes to the file of an initialized home stays there,
\* whichever init and start commands run, and wherever they are killed
\* (initializeConfigFile).
THEOREM EditsAreKept == ServiceSpec => []EditIsKept
<1>1. ConfigInv => EditIsKept  BY DEF ConfigInv, KeptInv, EditIsKept
<1> QED  BY <1>1, ConfigAlways, PTL

\* A service runs with the settings it needs (LoadFileConfiguration,
\* ValidateBasics), and reads an empty file only while another command is at it,
\* or after one was killed at it.
THEOREM ServicesRunConfigured == ServiceSpec => []RunsConfigured
<1>1. ConfigInv => RunsConfigured  BY DEF ConfigInv, ReadInv, RunsConfigured, Serving
<1> QED  BY <1>1, ConfigAlways, PTL

\* Service's store keeps its lock, and is closed, as Store's does.
THEOREM ServicesLockIsExclusive == ServiceSpec => [](ExclusiveUnlessRaced /\ ClosesUnlessRaced)
BY ServicesShareAStore, LockIsExclusiveUnlessRaced, StoresAreClosedUnlessRaced, PTL
=============================================================================
