----------------------------- MODULE KeysProofs -----------------------------
(***************************************************************************)
(* Proofs about Keys, for any shells, addresses, passphrases and nicknames *)
(* and any number of commands: the types, that the EVM keystore is what    *)
(* the commands reported unless two of them raced, and that the number of  *)
(* P2P keys is a free nickname as long as nobody interferes.               *)
(***************************************************************************)
EXTENDS Keys, FiniteSetTheorems, TLAPS

Steps == {"out", "import", "store", "unlock", "confirm", "remove", "decrypt",
          "rewrite", "create", "write", "erase", "identity", "get", "serve"}

-----------------------------------------------------------------------------
(* Types.                                                                  *)

\* what is being written was created
Control ==
    /\ IsFiniteSet(p2p)
    /\ \A p \in Procs : pc[p] = "write" => reg[p].key \in 1..made

IInv == TypeOK /\ Control

LEMMA GoTyped ==
    ASSUME TypeOK, NEW p \in Procs, NEW s \in Steps, Go(p, s)
    PROVE  /\ pc' \in [Procs -> Steps] /\ pc'[p] = s
           /\ \A q \in Procs \ {p} : pc'[q] = pc[q]
BY DEF TypeOK, Go, Steps

\* what a command has in hand when it starts
LEMMA IdleTyped ==
    /\ Idle \in Registers
    /\ \A a \in Addrs, n \in Passes : [Idle EXCEPT !.addr = a, !.new = n] \in Registers
    /\ \A a \in Addrs, i \in Nat, given, n \in Passes :
         /\ [Idle EXCEPT !.addr = a, !.stamp = i] \in Registers
         /\ [Idle EXCEPT !.addr = a, !.stamp = i, !.old = given] \in Registers
         /\ [Idle EXCEPT !.addr = a, !.stamp = i, !.old = given, !.new = n] \in Registers
    /\ \A n \in Nat : [Idle EXCEPT !.name = n] \in Registers
BY ServiceAssumption DEF Idle, Registers

LEMMA AccountTyped ==
    ASSUME TypeOK, NEW a, NEW f \in GetAccountFromStore(a)
    PROVE  f.stamp \in Nat
BY DEF TypeOK, GetAccountFromStore, FilesOf, EVMFiles

\* a step of p that hands it r
LEMMA HandTyped ==
    ASSUME TypeOK, NEW p \in Procs, NEW r \in Registers, Hand(p, r)
    PROVE  /\ reg' \in [Procs -> Registers] /\ reg'[p] = r
           /\ \A q \in Procs \ {p} : reg'[q] = reg[q]
BY DEF TypeOK, Hand

LEMMA ExitTyped ==
    ASSUME TypeOK, NEW p \in Procs, Exit(p)
    PROVE  /\ pc' \in [Procs -> Steps] /\ pc'[p] = "out"
           /\ \A q \in Procs \ {p} : pc'[q] = pc[q]
           /\ reg' \in [Procs -> Registers]
           /\ \A q \in Procs \ {p} : reg'[q] = reg[q]
<1>1. "out" \in Steps  BY DEF Steps
<1> QED  BY <1>1, GoTyped, IdleTyped, HandTyped DEF Exit

\* a command entered, or any step of p that creates no file: p's next step is s
LEMMA StepTyped ==
    ASSUME IInv, NEW p \in Procs, NEW s \in Steps \ {"write"}, Go(p, s),
           reg' \in [Procs -> Registers], \A q \in Procs \ {p} : reg'[q] = reg[q],
           evm' \subseteq EVMFiles, p2p' \subseteq p2p, written' \subseteq 1..made,
           UNCHANGED <<nickname, made>>,
           reported' \in [Addrs -> SUBSET Passes], raced' \in BOOLEAN, tidy' \in BOOLEAN,
           stamps' \in Nat, commands' \in Nat, crashes' \in Nat
    PROVE  IInv'
<1>1. /\ pc' \in [Procs -> Steps] /\ pc'[p] = s
      /\ \A q \in Procs \ {p} : pc'[q] = pc[q]
  BY GoTyped DEF IInv
<1>2. Control'  BY <1>1, FS_Subset DEF IInv, Control
<1>3. TypeOK'  BY <1>1 DEF IInv, TypeOK, Steps
<1> QED  BY <1>2, <1>3 DEF IInv

LEMMA EnterTyped ==
    ASSUME IInv, NEW p \in Procs, Enter(p)
    PROVE  IInv'
<1> USE DEF storeVars, histVars, countVars
<1>0. /\ commands \in Nat /\ evm \subseteq EVMFiles /\ written \subseteq 1..made
      /\ reported \in [Addrs -> SUBSET Passes] /\ raced \in BOOLEAN /\ tidy \in BOOLEAN
      /\ stamps \in Nat /\ crashes \in Nat /\ reg \in [Procs -> Registers]
      /\ p2p \subseteq P2PFiles
  BY DEF IInv, TypeOK
<1>1. /\ UNCHANGED <<storeVars, nickname, countVars, crashes>> /\ commands' \in Nat
  <2>1. Command(p)
    BY DEF Enter, EVMAdd, ImportFile, ImportECDSA, ImportMnemonic, BeginImport, EVMDelete,
                EVMUpdate, P2PAdd, P2PImport, P2PDelete
  <2> QED  BY <1>0, <2>1 DEF Command
<1>2. CASE \E a \in Addrs : BeginImport(p, a)
  <2>1. Go(p, "import") /\ "import" \in Steps \ {"write"}  BY <1>2 DEF BeginImport, Steps
  <2>2. reg' \in [Procs -> Registers] /\ \A q \in Procs \ {p} : reg'[q] = reg[q]
    BY <1>2, IdleTyped, HandTyped DEF BeginImport, IInv
  <2> QED  BY <1>0, <1>1, <1>2, <2>1, <2>2, StepTyped DEF BeginImport
<1>3. CASE EVMDelete(p)
  <2>1. Go(p, "unlock") /\ "unlock" \in Steps \ {"write"}  BY <1>3 DEF EVMDelete, Steps
  <2>2. reg' \in [Procs -> Registers] /\ \A q \in Procs \ {p} : reg'[q] = reg[q]
    BY <1>3, AccountTyped, IdleTyped, HandTyped DEF EVMDelete, IInv
  <2> QED  BY <1>0, <1>1, <1>3, <2>1, <2>2, StepTyped DEF EVMDelete
<1>4. CASE EVMUpdate(p)
  <2>1. Go(p, "decrypt") /\ "decrypt" \in Steps \ {"write"}  BY <1>4 DEF EVMUpdate, Steps
  <2>2. reg' \in [Procs -> Registers] /\ \A q \in Procs \ {p} : reg'[q] = reg[q]
    BY <1>4, AccountTyped, IdleTyped, HandTyped DEF EVMUpdate, IInv
  <2> QED  BY <1>0, <1>1, <1>4, <2>1, <2>2, StepTyped DEF EVMUpdate
<1>5. CASE P2PAdd(p) \/ P2PImport(p)
  <2>1. PICK n \in Nat : BeginPut(p, n)
    <3>1. NextNumber \in Nat  BY FS_CardinalityType DEF IInv, Control, NextNumber
    <3> QED  BY <1>5, <3>1, NicknameAssumption DEF P2PAdd, P2PImport
  <2>2. Go(p, "create") /\ "create" \in Steps \ {"write"}  BY <2>1 DEF BeginPut, Steps
  <2>3. reg' \in [Procs -> Registers] /\ \A q \in Procs \ {p} : reg'[q] = reg[q]
    BY <2>1, IdleTyped, HandTyped DEF BeginPut, IInv
  <2>4. UNCHANGED <<reported, raced>> /\ tidy' \in BOOLEAN
    BY <1>0, <1>5 DEF P2PAdd, P2PImport
  <2> QED  BY <1>0, <1>1, <2>2, <2>3, <2>4, StepTyped
<1>6. CASE P2PDelete(p)
  <2>1. Go(p, "erase") /\ "erase" \in Steps \ {"write"}  BY <1>6 DEF P2PDelete, Steps
  <2>2. reg' \in [Procs -> Registers] /\ \A q \in Procs \ {p} : reg'[q] = reg[q]
    <3>1. Names \subseteq Nat  BY <1>0 DEF Names, P2PFiles
    <3> QED  BY <1>6, <3>1, IdleTyped, HandTyped DEF P2PDelete, IInv
  <2> QED  BY <1>0, <1>1, <1>6, <2>1, <2>2, StepTyped DEF P2PDelete
<1> QED
  BY <1>2, <1>3, <1>4, <1>5, <1>6 DEF Enter, EVMAdd, ImportFile, ImportECDSA, ImportMnemonic

\* a command that is over
LEMMA ExitStep ==
    ASSUME IInv, NEW p \in Procs, Exit(p),
           evm' \subseteq EVMFiles, p2p' \subseteq p2p, written' \subseteq 1..made,
           UNCHANGED <<nickname, made>>,
           reported' \in [Addrs -> SUBSET Passes], raced' \in BOOLEAN, tidy' \in BOOLEAN,
           stamps' \in Nat, commands' \in Nat, crashes' \in Nat
    PROVE  IInv'
<1>1. Go(p, "out") /\ "out" \in Steps \ {"write"}  BY DEF Exit, Steps
<1>2. reg' \in [Procs -> Registers] /\ \A q \in Procs \ {p} : reg'[q] = reg[q]
  BY ExitTyped DEF IInv
<1> QED  BY <1>1, <1>2, StepTyped

LEMMA EVMTyped ==
    ASSUME IInv, NEW p \in Procs, EVM(p)
    PROVE  IInv'
<1> USE DEF storeVars, histVars, countVars, budgetVars
<1>0. /\ commands \in Nat /\ evm \subseteq EVMFiles /\ written \subseteq 1..made
      /\ reported \in [Addrs -> SUBSET Passes] /\ raced \in BOOLEAN /\ tidy \in BOOLEAN
      /\ stamps \in Nat /\ crashes \in Nat /\ reg \in [Procs -> Registers] /\ TypeOK
  BY DEF IInv, TypeOK
<1>r. /\ reg[p] \in Registers
      /\ reg[p].addr \in Addrs /\ reg[p].stamp \in Nat /\ reg[p].new \in Passes
      /\ \A i \in Nat : [reg[p] EXCEPT !.stamp = i] \in Registers
  BY <1>0 DEF Registers
<1>w. /\ [stamp |-> reg[p].stamp, addr |-> reg[p].addr, pass |-> reg[p].new] \in EVMFiles
      /\ [reported EXCEPT ![reg[p].addr] = {reg[p].new}] \in [Addrs -> SUBSET Passes]
      /\ [reported EXCEPT ![reg[p].addr] = {}] \in [Addrs -> SUBSET Passes]
  BY <1>0, <1>r DEF EVMFiles
<1>1. CASE CheckAddress(p)
  <2>1. CASE Exit(p) /\ UNCHANGED stamps  BY <1>0, <1>1, <2>1, ExitStep DEF CheckAddress
  <2>2. CASE Go(p, "store") /\ stamps' = stamps + 1 /\ Hand(p, [reg[p] EXCEPT !.stamp = stamps + 1])
    <3>1. "store" \in Steps \ {"write"} /\ stamps + 1 \in Nat  BY <1>0 DEF Steps
    <3>2. reg' \in [Procs -> Registers] /\ \A q \in Procs \ {p} : reg'[q] = reg[q]
      BY <1>0, <1>r, <2>2, <3>1, HandTyped
    <3> QED  BY <1>0, <1>1, <2>2, <3>1, <3>2, StepTyped DEF CheckAddress
  <2> QED  BY <1>1, <2>1, <2>2 DEF CheckAddress
<1>2. CASE StoreKey(p)
  <2>1. evm' \subseteq EVMFiles /\ reported' \in [Addrs -> SUBSET Passes] /\ raced' \in BOOLEAN
    BY <1>0, <1>2, <1>w DEF StoreKey
  <2> QED  BY <1>0, <1>2, <2>1, ExitStep DEF StoreKey
<1>3. CASE DeleteUnlock(p)
  <2>1. CASE Exit(p)  BY <1>0, <1>3, <2>1, ExitStep DEF DeleteUnlock
  <2>2. CASE Go(p, "confirm") /\ UNCHANGED reg
    <3>1. "confirm" \in Steps \ {"write"}  BY DEF Steps
    <3> QED  BY <1>0, <1>3, <2>2, <3>1, StepTyped DEF DeleteUnlock
  <2> QED  BY <1>3, <2>1, <2>2 DEF DeleteUnlock
<1>f. \A given : \A f \in Decrypted(p, given) : f.stamp \in Nat
  BY <1>0 DEF Decrypted, Find, FilesOf, EVMFiles
<1>4. CASE DeleteConfirm(p)
  <2>1. CASE Exit(p)  BY <1>0, <1>4, <2>1, ExitStep DEF DeleteConfirm
  <2>2. CASE \E f \in Decrypted(p, reg[p].old) :
                Hand(p, [reg[p] EXCEPT !.stamp = f.stamp]) /\ Go(p, "remove")
    <3>1. "remove" \in Steps \ {"write"}  BY DEF Steps
    <3>2. reg' \in [Procs -> Registers] /\ \A q \in Procs \ {p} : reg'[q] = reg[q]
      BY <1>0, <1>r, <1>f, <2>2, HandTyped
    <3> QED  BY <1>0, <1>4, <2>2, <3>1, <3>2, StepTyped DEF DeleteConfirm
  <2> QED  BY <1>4, <2>1, <2>2 DEF DeleteConfirm
<1>5. CASE EVMRemove(p)
  <2>1. evm' \subseteq EVMFiles /\ reported' \in [Addrs -> SUBSET Passes]
    BY <1>0, <1>5, <1>w DEF EVMRemove
  <2> QED  BY <1>0, <1>5, <2>1, ExitStep DEF EVMRemove
<1>6. CASE UpdateDecrypt(p)
  <2>1. CASE Exit(p)  BY <1>0, <1>6, <2>1, ExitStep DEF UpdateDecrypt
  <2>2. CASE \E f \in Decrypted(p, reg[p].old) :
                Hand(p, [reg[p] EXCEPT !.stamp = f.stamp]) /\ Go(p, "rewrite")
    <3>1. "rewrite" \in Steps \ {"write"}  BY DEF Steps
    <3>2. reg' \in [Procs -> Registers] /\ \A q \in Procs \ {p} : reg'[q] = reg[q]
      BY <1>0, <1>r, <1>f, <2>2, HandTyped
    <3> QED  BY <1>0, <1>6, <2>2, <3>1, <3>2, StepTyped DEF UpdateDecrypt
  <2> QED  BY <1>6, <2>1, <2>2 DEF UpdateDecrypt
<1>7. CASE UpdateRewrite(p)
  <2>1. evm' \subseteq EVMFiles /\ reported' \in [Addrs -> SUBSET Passes] /\ raced' \in BOOLEAN
    BY <1>0, <1>7, <1>w DEF UpdateRewrite, Rewrite
  <2> QED  BY <1>0, <1>7, <2>1, ExitStep DEF UpdateRewrite, Rewrite
<1> QED  BY <1>1, <1>2, <1>3, <1>4, <1>5, <1>6, <1>7 DEF EVM

\* the file that is created is the one that is written
LEMMA CreateTyped ==
    ASSUME IInv, NEW p \in Procs, PutCreate(p)
    PROVE  IInv'
<1> USE DEF histVars, budgetVars
<1>1. CASE reg[p].name \in Names
  BY <1>1, ExitStep DEF PutCreate, IInv, TypeOK
<1>2. CASE reg[p].name \notin Names
  <2>1. /\ made' = made + 1 /\ Hand(p, [reg[p] EXCEPT !.key = made + 1]) /\ Go(p, "write")
        /\ p2p' = p2p \union {[name |-> reg[p].name, key |-> made + 1]}
    BY <1>2 DEF PutCreate
  <2>2. /\ made + 1 \in Nat /\ reg[p] \in Registers /\ reg[p].name \in Nat
        /\ [reg[p] EXCEPT !.key = made + 1] \in Registers
        /\ [reg[p] EXCEPT !.key = made + 1].key = made + 1
    BY DEF IInv, TypeOK, Registers
  <2>3. /\ reg' \in [Procs -> Registers] /\ reg'[p].key = made + 1
        /\ \A q \in Procs \ {p} : reg'[q] = reg[q]
    BY <2>1, <2>2, HandTyped DEF IInv
  <2>4. pc' \in [Procs -> Steps] /\ \A q \in Procs \ {p} : pc'[q] = pc[q]
    <3>1. "write" \in Steps  BY DEF Steps
    <3> QED  BY <2>1, <3>1, GoTyped DEF IInv
  <2>5. p2p' \subseteq P2PFiles /\ IsFiniteSet(p2p')
    <3>1. [name |-> reg[p].name, key |-> made + 1] \in P2PFiles  BY <2>2 DEF P2PFiles
    <3>2. IsFiniteSet(p2p) /\ p2p \subseteq P2PFiles  BY DEF IInv, TypeOK, Control
    <3> QED  BY <2>1, <3>1, <3>2, FS_AddElement
  <2>6. made \in Nat /\ 1..made \subseteq 1..made' /\ made + 1 \in 1..made'
    BY <2>1 DEF IInv, TypeOK
  <2>7. Control'
    <3>1. ASSUME NEW q \in Procs, pc'[q] = "write" PROVE reg'[q].key \in 1..made'
      BY <2>3, <2>4, <2>6, <3>1 DEF IInv, Control
    <3> QED  BY <2>5, <3>1 DEF Control
  <2>8. TypeOK'  BY <1>2, <2>1, <2>2, <2>3, <2>4, <2>5, <2>6 DEF PutCreate, IInv, TypeOK, Steps
  <2> QED  BY <2>7, <2>8 DEF IInv
<1> QED  BY <1>1, <1>2

LEMMA P2PTyped ==
    ASSUME IInv, NEW p \in Procs, PutWrite(p) \/ P2PErase(p)
    PROVE  IInv'
<1> USE DEF storeVars, histVars, countVars, budgetVars
<1>0. TypeOK /\ tidy \in BOOLEAN  BY DEF IInv, TypeOK
<1>1. CASE PutWrite(p)
  <2>1. written' \subseteq 1..made  BY <1>1 DEF PutWrite, IInv, TypeOK, Control
  <2>2. CASE Exit(p)  BY <1>0, <1>1, <2>1, <2>2, ExitStep DEF PutWrite, TypeOK
  <2>3. CASE Go(p, "get") /\ UNCHANGED reg
    <3>1. "get" \in Steps \ {"write"}  BY DEF Steps
    <3> QED  BY <1>0, <1>1, <2>1, <2>3, <3>1, StepTyped DEF PutWrite, TypeOK
  <2> QED  BY <1>1, <2>2, <2>3 DEF PutWrite
<1>2. CASE P2PErase(p)
  <2>1. p2p' \subseteq p2p /\ tidy' \in BOOLEAN  BY <1>0, <1>2 DEF P2PErase
  <2> QED  BY <1>0, <1>2, <2>1, ExitStep DEF P2PErase, TypeOK
<1> QED  BY <1>1, <1>2

LEMMA ServiceTyped ==
    ASSUME IInv, ServiceStart \/ ServiceUnlock \/ GetP2PKeyOrGenerateNewOne \/ ServiceGet \/ ServiceStop
    PROVE  IInv'
<1> USE DEF storeVars, histVars, countVars, budgetVars
<1>0. TypeOK /\ Service \in Procs /\ p2p' \subseteq p2p
  BY DEF IInv, Procs, ServiceStart, ServiceUnlock, GetP2PKeyOrGenerateNewOne, ServiceGet, ServiceStop
<1>1. CASE ServiceStart
  <2>1. Go(Service, "unlock") /\ "unlock" \in Steps \ {"write"}  BY <1>1 DEF ServiceStart, Steps
  <2>2. reg' \in [Procs -> Registers] /\ \A q \in Procs \ {Service} : reg'[q] = reg[q]
    BY <1>0, <1>1, AccountTyped, IdleTyped, HandTyped, ServiceAssumption DEF ServiceStart
  <2> QED  BY <1>0, <1>1, <2>1, <2>2, StepTyped DEF ServiceStart, TypeOK
<1>2. CASE ServiceUnlock
  <2>1. CASE Exit(Service)  BY <1>0, <1>2, <2>1, ExitStep DEF ServiceUnlock, TypeOK
  <2>2. CASE Go(Service, "identity") /\ UNCHANGED reg
    <3>1. "identity" \in Steps \ {"write"}  BY DEF Steps
    <3> QED  BY <1>0, <1>2, <2>2, <3>1, StepTyped DEF ServiceUnlock, TypeOK
  <2> QED  BY <1>2, <2>1, <2>2 DEF ServiceUnlock
<1>3. CASE GetP2PKeyOrGenerateNewOne
  <2>1. PICK n \in Nat, s \in {"get", "create"} : Hand(Service, [Idle EXCEPT !.name = n]) /\ Go(Service, s)
    <3>1. NewKeyNickname \in Nat  BY DEF NewKeyNickname
    <3>2. Names \subseteq Nat  BY <1>0 DEF TypeOK, Names, P2PFiles
    <3>3. nickname # Unset => nickname \in Nat  BY <1>0, NicknameAssumption DEF TypeOK
    <3> QED  BY <1>3, <3>1, <3>2, <3>3 DEF GetP2PKeyOrGenerateNewOne, BeginPut
  <2>2. s \in Steps \ {"write"}  BY DEF Steps
  <2>3. reg' \in [Procs -> Registers] /\ \A q \in Procs \ {Service} : reg'[q] = reg[q]
    BY <1>0, <2>1, IdleTyped, HandTyped
  <2> QED  BY <1>0, <1>3, <2>1, <2>2, <2>3, StepTyped DEF GetP2PKeyOrGenerateNewOne, TypeOK
<1>4. CASE ServiceGet
  <2>1. CASE Exit(Service)  BY <1>0, <1>4, <2>1, ExitStep DEF ServiceGet, TypeOK
  <2>2. CASE Go(Service, "serve") /\ UNCHANGED reg
    <3>1. "serve" \in Steps \ {"write"}  BY DEF Steps
    <3> QED  BY <1>0, <1>4, <2>2, <3>1, StepTyped DEF ServiceGet, TypeOK
  <2> QED  BY <1>4, <2>1, <2>2 DEF ServiceGet
<1>5. CASE ServiceStop  BY <1>0, <1>5, ExitStep DEF ServiceStop, TypeOK
<1> QED  BY <1>1, <1>2, <1>3, <1>4, <1>5

LEMMA CrashTyped ==
    ASSUME IInv, NEW p \in Procs, Crash(p)
    PROVE  IInv'
<1> USE DEF storeVars, histVars, countVars
<1> QED  BY ExitStep DEF Crash, IInv, TypeOK

LEMMA InitTyped == Init => IInv
<1> SUFFICES ASSUME Init PROVE IInv  OBVIOUS
<1>1. /\ pc \in [Procs -> {"out"}] /\ reg \in [Procs -> {Idle}] /\ p2p = {}
      /\ evm = {} /\ written = {} /\ nickname \in Nicknames \union {Unset}
      /\ reported \in [Addrs -> SUBSET Passes] /\ raced = FALSE /\ tidy = TRUE
      /\ stamps = 0 /\ made = 0 /\ commands = 0 /\ crashes = 0
  BY DEF Init
<1>2. Control  BY <1>1, FS_EmptySet DEF Control
<1>3. reg \in [Procs -> Registers]  BY <1>1, IdleTyped
<1>4. TypeOK  BY <1>1, <1>3 DEF TypeOK
<1> QED  BY <1>2, <1>4 DEF IInv

LEMMA NextTyped == ASSUME IInv, [Next]_vars PROVE IInv'
<1>1. CASE \E p \in Procs : Enter(p) \/ Run(p) \/ Crash(p)
  BY <1>1, EnterTyped, EVMTyped, CreateTyped, P2PTyped, CrashTyped DEF Run
<1>2. CASE ServiceStart \/ Serve \/ ServiceStop  BY <1>2, ServiceTyped DEF Serve
<1>3. CASE UNCHANGED vars
  BY <1>3 DEF vars, storeVars, histVars, countVars, budgetVars, IInv, TypeOK, Control
<1> QED  BY <1>1, <1>2, <1>3 DEF Next

\* The types, and that only a file which was created is written.
THEOREM TypeCorrect == Spec => []TypeOK
<1>1. IInv => TypeOK  BY DEF IInv
<1> QED  BY <1>1, InitTyped, NextTyped, PTL DEF Spec

-----------------------------------------------------------------------------
(* The EVM keys.                                                           *)

\* Without a race an address has the key that was reported, in one file, or
\* no file: the files are told apart by their addresses.
OneFileEach ==
    ~raced => \A a \in Addrs : /\ \A f, g \in FilesOf(a) : f = g
                              /\ {f.pass : f \in FilesOf(a)} = reported[a]

\* the steps that leave the EVM keystore alone
LEMMA EVMAside ==
    ASSUME OneFileEach, UNCHANGED <<evm, reported, raced>>
    PROVE  OneFileEach'
BY DEF OneFileEach, FilesOf

\* A step that stores one file for an address that has none, or only this one.
LEMMA OneStored ==
    ASSUME IInv, OneFileEach, NEW a \in Addrs, NEW i \in Nat, NEW n \in Passes,
           NEW mine, mine = {f \in evm : f.addr = a /\ f.stamp = i},
           evm' = (evm \ mine) \union {[stamp |-> i, addr |-> a, pass |-> n]},
           reported' = [reported EXCEPT ![a] = {n}],
           ~raced' => ~raced /\ FilesOf(a) \subseteq mine
    PROVE  OneFileEach'
<1> SUFFICES ASSUME ~raced', NEW b \in Addrs
             PROVE  /\ \A f, g \in FilesOf(b)' : f = g
                    /\ {f.pass : f \in FilesOf(b)'} = reported'[b]
  BY DEF OneFileEach
<1>1. ~raced /\ FilesOf(a) \subseteq mine /\ reported \in [Addrs -> SUBSET Passes]
  BY DEF IInv, TypeOK
<1>2. CASE b = a
  <2>1. FilesOf(b)' = {[stamp |-> i, addr |-> a, pass |-> n]}  BY <1>1, <1>2 DEF FilesOf
  <2>2. reported'[b] = {n}  BY <1>1, <1>2
  <2> QED  BY <2>1, <2>2
<1>3. CASE b # a
  <2>1. FilesOf(b)' = FilesOf(b) /\ reported'[b] = reported[b]  BY <1>1, <1>3 DEF FilesOf
  <2> QED  BY <1>1, <2>1 DEF OneFileEach
<1> QED  BY <1>2, <1>3

LEMMA OneFileStep == ASSUME IInv, OneFileEach, [Next]_vars PROVE OneFileEach'
<1> USE DEF storeVars, histVars, countVars, budgetVars
<1>r. \A p \in Procs : reg[p].addr \in Addrs /\ reg[p].stamp \in Nat /\ reg[p].new \in Passes
  BY DEF IInv, TypeOK, Registers
<1>1. ASSUME NEW p \in Procs, StoreKey(p) PROVE OneFileEach'
  <2> DEFINE a == reg[p].addr
             mine == {f \in evm : f.addr = a /\ f.stamp = reg[p].stamp}
             new == [stamp |-> reg[p].stamp, addr |-> a, pass |-> reg[p].new]
  <2>1. CASE FilesOf(a) = {}
    <3>1. mine = {}  BY <2>1 DEF FilesOf
    <3>2. evm' = (evm \ mine) \union {new}  BY <1>1, <3>1 DEF StoreKey
    <3>3. reported' = [reported EXCEPT ![a] = {reg[p].new}] /\ (~raced' => ~raced)
      BY <1>1 DEF StoreKey
    <3> HIDE DEF mine
    <3>4. mine = {f \in evm : f.addr = a /\ f.stamp = reg[p].stamp}  BY DEF mine
    <3> QED  BY <1>r, <2>1, <3>2, <3>3, <3>4, OneStored
  <2>2. CASE FilesOf(a) # {}
    <3>1. raced'  BY <1>1, <2>2 DEF StoreKey
    <3> QED  BY <3>1 DEF OneFileEach
  <2> QED  BY <2>1, <2>2
<1>2. ASSUME NEW p \in Procs, UpdateRewrite(p) PROVE OneFileEach'
  <2> DEFINE a == reg[p].addr
             mine == {f \in evm : f.addr = a /\ f.stamp = reg[p].stamp}
  <2>1. /\ evm' = (evm \ mine) \union {[stamp |-> reg[p].stamp, addr |-> a, pass |-> reg[p].new]}
        /\ reported' = [reported EXCEPT ![a] = {reg[p].new}]
        /\ raced' = (raced \/ mine = {})
    BY <1>2 DEF UpdateRewrite, Rewrite
  <2>2. ~raced' => ~raced /\ FilesOf(a) \subseteq mine
    <3> SUFFICES ASSUME ~raced' PROVE ~raced /\ FilesOf(a) \subseteq mine  OBVIOUS
    <3>1. ~raced /\ mine # {}  BY <2>1
    <3>2. PICK f \in mine : f \in FilesOf(a)  BY <3>1 DEF FilesOf
    <3>3. \A g \in FilesOf(a) : g = f  BY <1>r, <3>1, <3>2 DEF OneFileEach
    <3> QED  BY <3>1, <3>2, <3>3
  <2> HIDE DEF mine
  <2>3. mine = {f \in evm : f.addr = a /\ f.stamp = reg[p].stamp}  BY DEF mine
  <2> QED  BY <1>r, <2>1, <2>2, <2>3, OneStored
<1>3. ASSUME NEW p \in Procs, EVMRemove(p) PROVE OneFileEach'
  <2> DEFINE a == reg[p].addr
             mine == {f \in evm : f.addr = a /\ f.stamp = reg[p].stamp}
  <2>1. /\ evm' = evm \ mine /\ raced' = raced
        /\ reported' = IF mine = {} THEN reported ELSE [reported EXCEPT ![a] = {}]
    BY <1>3 DEF EVMRemove
  <2>2. CASE mine = {}
    <3>1. evm' = evm /\ reported' = reported  BY <2>1, <2>2
    <3> QED  BY <2>1, <3>1, EVMAside
  <2>3. CASE mine # {}
    <3> SUFFICES ASSUME ~raced, NEW b \in Addrs
                 PROVE  /\ \A f, g \in FilesOf(b)' : f = g
                        /\ {f.pass : f \in FilesOf(b)'} = reported'[b]
      BY <2>1 DEF OneFileEach
    <3>1. reported' = [reported EXCEPT ![a] = {}] /\ reported \in [Addrs -> SUBSET Passes]
      BY <2>1, <2>3 DEF IInv, TypeOK
    <3>2. CASE b = a
      <4>1. PICK f \in mine : f \in FilesOf(a)  BY <2>3 DEF FilesOf
      <4>2. \A g \in FilesOf(a) : g = f  BY <1>r, <4>1 DEF OneFileEach
      <4>3. FilesOf(b)' = {}  BY <2>1, <3>2, <4>1, <4>2 DEF FilesOf
      <4>4. reported'[b] = {}  BY <1>r, <3>1, <3>2
      <4> QED  BY <4>3, <4>4
    <3>3. CASE b # a
      <4>1. FilesOf(b)' = FilesOf(b)  BY <2>1, <3>3 DEF FilesOf
      <4>2. reported'[b] = reported[b]  BY <1>r, <3>1, <3>3
      <4> QED  BY <4>1, <4>2 DEF OneFileEach
    <3> QED  BY <3>2, <3>3
  <2> QED  BY <2>2, <2>3
<1>4. ASSUME NEW p \in Procs, Enter(p) \/ Crash(p) PROVE OneFileEach'
  BY <1>4, EVMAside DEF Enter, EVMAdd, ImportFile, ImportECDSA, ImportMnemonic, BeginImport,
                        EVMDelete, EVMUpdate, P2PAdd, P2PImport, P2PDelete, Command, Crash
<1>5. ASSUME NEW p \in Procs, Run(p) PROVE OneFileEach'
  BY <1>1, <1>2, <1>3, <1>5, EVMAside
     DEF Run, EVM, CheckAddress, DeleteUnlock, DeleteConfirm, UpdateDecrypt, PutCreate, PutWrite, P2PErase
<1>6. CASE ServiceStart \/ Serve \/ ServiceStop
  BY <1>6, EVMAside DEF ServiceStart, Serve, ServiceUnlock, GetP2PKeyOrGenerateNewOne, ServiceGet, ServiceStop
<1>7. CASE UNCHANGED vars  BY <1>7, EVMAside DEF vars
<1> QED  BY <1>4, <1>5, <1>6, <1>7 DEF Next

\* Without a race between two of the EVM commands, the keystore is what they
\* reported: a deleted key is gone, and a key opens with its last passphrase.
THEOREM EVMStoreIsAsReported == Spec => []StoreIsAsReported
<1>1. Init => OneFileEach  BY DEF Init, OneFileEach, FilesOf
<1>2. OneFileEach => StoreIsAsReported  BY DEF OneFileEach, StoreIsAsReported
<1> QED  BY <1>1, <1>2, InitTyped, NextTyped, OneFileStep, PTL DEF Spec

-----------------------------------------------------------------------------
(* The P2P keys.                                                           *)

\* As long as no key is removed, or named by the operator, the nicknames are the
\* first numbers, and what is to be created next has one of them or the next.
Numbered ==
    tidy => /\ Names = 0 .. NextNumber - 1
            /\ \A p \in Procs : pc[p] = "create" => reg[p].name <= NextNumber

\* the steps that create nothing, and start to create nothing
LEMMA P2PAside ==
    ASSUME IInv, Numbered, NEW p \in Procs, UNCHANGED p2p, tidy' => tidy,
           NEW s \in Steps \ {"create"}, Go(p, s), \A q \in Procs \ {p} : reg'[q] = reg[q]
    PROVE  Numbered'
<1>1. pc'[p] # "create" /\ \A q \in Procs \ {p} : pc'[q] = pc[q]  BY GoTyped DEF IInv
<1>2. Names' = Names /\ NextNumber' = NextNumber  BY DEF Names, NextNumber
<1> QED  BY <1>1, <1>2 DEF Numbered

LEMMA ExitAside ==
    ASSUME IInv, Numbered, NEW p \in Procs, Exit(p), UNCHANGED p2p, tidy' => tidy
    PROVE  Numbered'
<1>1. Go(p, "out") /\ "out" \in Steps \ {"create"}  BY DEF Exit, Steps
<1> QED  BY <1>1, ExitTyped, P2PAside DEF IInv

\* a key is to be created under n
LEMMA BeginNumbered ==
    ASSUME IInv, Numbered, NEW p \in Procs, NEW n \in Nat, BeginPut(p, n), UNCHANGED p2p,
           tidy' => tidy /\ n <= NextNumber
    PROVE  Numbered'
<1>1. "create" \in Steps  BY DEF Steps
<1>2. \A q \in Procs \ {p} : pc'[q] = pc[q]  BY <1>1, GoTyped DEF IInv, BeginPut
<1>3. [Idle EXCEPT !.name = n] \in Registers /\ [Idle EXCEPT !.name = n].name = n
  BY IdleTyped DEF Idle
<1>4. reg'[p].name = n /\ \A q \in Procs \ {p} : reg'[q] = reg[q]
  BY <1>3, HandTyped DEF IInv, BeginPut
<1>5. Names' = Names /\ NextNumber' = NextNumber  BY DEF Names, NextNumber
<1> QED  BY <1>2, <1>4, <1>5 DEF Numbered

\* A nickname that is not taken is the next number: it is at most that.
LEMMA CreateNumbered ==
    ASSUME IInv, Numbered, NEW p \in Procs, PutCreate(p)
    PROVE  Numbered'
<1> USE DEF histVars
<1>1. CASE reg[p].name \in Names  BY <1>1, ExitAside DEF PutCreate
<1>2. CASE reg[p].name \notin Names
  <2> DEFINE new == [name |-> reg[p].name, key |-> made + 1]
  <2>1. /\ p2p' = p2p \union {new} /\ tidy' = tidy /\ pc[p] = "create"
        /\ Hand(p, [reg[p] EXCEPT !.key = made + 1]) /\ Go(p, "write")
    BY <1>2 DEF PutCreate
  <2>2. new \notin p2p /\ new.name = reg[p].name  BY <1>2 DEF Names
  <2>3. /\ NextNumber \in Nat /\ NextNumber' = NextNumber + 1
        /\ Names' = Names \union {reg[p].name}
    <3> HIDE DEF new
    <3>1. IsFiniteSet(p2p)  BY DEF IInv, Control
    <3>2. Cardinality(p2p') = Cardinality(p2p) + 1 /\ Cardinality(p2p) \in Nat
      BY <2>1, <2>2, <3>1, FS_AddElement, FS_CardinalityType
    <3>3. {f.name : f \in p2p'} = {f.name : f \in p2p} \union {new.name}  BY <2>1
    <3> QED  BY <2>2, <3>2, <3>3 DEF NextNumber, Names
  <2>4. reg[p] \in Registers /\ reg[p].name \in Nat /\ [reg[p] EXCEPT !.key = made + 1] \in Registers
    BY DEF IInv, TypeOK, Registers
  <2>5. /\ pc'[p] = "write" /\ \A q \in Procs \ {p} : pc'[q] = pc[q] /\ reg'[q] = reg[q]
    <3>1. "write" \in Steps  BY DEF Steps
    <3> QED  BY <2>1, <2>4, <3>1, GoTyped, HandTyped DEF IInv
  <2>6. ASSUME tidy PROVE Names' = 0 .. NextNumber' - 1
    <3>1. Names = 0 .. NextNumber - 1 /\ reg[p].name <= NextNumber  BY <2>1, <2>6 DEF Numbered
    <3>2. reg[p].name = NextNumber  BY <1>2, <2>3, <2>4, <3>1
    <3> QED  BY <2>3, <3>1, <3>2
  <2>7. ASSUME tidy, NEW q \in Procs, pc'[q] = "create" PROVE reg'[q].name <= NextNumber'
    <3>1. q # p /\ pc[q] = "create" /\ reg'[q] = reg[q]  BY <2>5, <2>7
    <3>2. reg[q].name <= NextNumber /\ reg[q].name \in Nat
      BY <2>7, <3>1 DEF Numbered, IInv, TypeOK, Registers
    <3> QED  BY <2>3, <3>1, <3>2
  <2> QED  BY <2>1, <2>6, <2>7 DEF Numbered
<1> QED  BY <1>1, <1>2

LEMMA NumberedStep == ASSUME IInv, Numbered, [Next]_vars PROVE Numbered'
<1> USE DEF storeVars, histVars, countVars, budgetVars
<1>0. NextNumber \in Nat  BY FS_CardinalityType DEF IInv, Control, NextNumber
<1>1. ASSUME NEW p \in Procs, P2PAdd(p) \/ P2PImport(p) PROVE Numbered'
  <2>1. CASE BeginPut(p, NextNumber) /\ UNCHANGED tidy
    BY <1>0, <1>1, <2>1, BeginNumbered DEF P2PAdd, P2PImport, Command
  <2>2. CASE tidy' = FALSE  BY <2>2 DEF Numbered
  <2> QED  BY <1>1, <2>1, <2>2 DEF P2PAdd, P2PImport
<1>2. ASSUME NEW p \in Procs, Enter(p) PROVE Numbered'
  <2>1. CASE P2PAdd(p) \/ P2PImport(p)  BY <1>1, <2>1
  <2>2. CASE ~(P2PAdd(p) \/ P2PImport(p))
    <3>1. PICK s \in {"import", "unlock", "decrypt", "erase"} : Go(p, s) /\ \E r : Hand(p, r)
      BY <1>2, <2>2 DEF Enter, EVMAdd, ImportFile, ImportECDSA, ImportMnemonic, BeginImport,
                        EVMDelete, EVMUpdate, P2PDelete
    <3>2. s \in Steps \ {"create"} /\ \A q \in Procs \ {p} : reg'[q] = reg[q]
      BY <3>1 DEF Steps, Hand, IInv, TypeOK
    <3>3. UNCHANGED <<p2p, tidy>>
      BY <1>2, <2>2 DEF Enter, EVMAdd, ImportFile, ImportECDSA, ImportMnemonic, BeginImport,
                        EVMDelete, EVMUpdate, P2PDelete, Command
    <3> QED  BY <3>1, <3>2, <3>3, P2PAside
  <2> QED  BY <2>1, <2>2
<1>3. ASSUME NEW p \in Procs, EVM(p) \/ PutWrite(p) PROVE Numbered'
  <2>1. UNCHANGED <<p2p, tidy>>
    BY <1>3 DEF EVM, CheckAddress, StoreKey, DeleteUnlock, DeleteConfirm, EVMRemove, UpdateDecrypt,
                UpdateRewrite, Rewrite, PutWrite
  <2>2. CASE Exit(p)  BY <2>1, <2>2, ExitAside
  <2>3. CASE ~Exit(p)
    <3>1. PICK s \in {"store", "confirm", "remove", "rewrite", "get"} :
              Go(p, s) /\ (UNCHANGED reg \/ \E r : Hand(p, r))
      BY <1>3, <2>3 DEF EVM, CheckAddress, StoreKey, DeleteUnlock, DeleteConfirm, EVMRemove,
                        UpdateDecrypt, UpdateRewrite, Rewrite, PutWrite
    <3>2. s \in Steps \ {"create"} /\ \A q \in Procs \ {p} : reg'[q] = reg[q]
      BY <3>1 DEF Steps, Hand, IInv, TypeOK
    <3> QED  BY <2>1, <3>1, <3>2, P2PAside
  <2> QED  BY <2>2, <2>3
<1>4. ASSUME NEW p \in Procs, P2PErase(p) PROVE Numbered'
  <2>1. CASE UNCHANGED <<p2p, tidy>>  BY <1>4, <2>1, ExitAside DEF P2PErase
  <2>2. CASE tidy' = FALSE  BY <2>2 DEF Numbered
  <2> QED  BY <1>4, <2>1, <2>2 DEF P2PErase
<1>5. ASSUME NEW p \in Procs, Crash(p) PROVE Numbered'  BY <1>5, ExitAside DEF Crash
<1>6. CASE GetP2PKeyOrGenerateNewOne
  <2>1. Service \in Procs /\ UNCHANGED <<p2p, tidy>>  BY <1>6 DEF Procs, GetP2PKeyOrGenerateNewOne
  <2>2. CASE BeginPut(Service, NewKeyNickname)
    BY <1>0, <2>1, <2>2, BeginNumbered DEF NewKeyNickname
  <2>3. CASE Go(Service, "get") /\ \E r : Hand(Service, r)
    <3>1. "get" \in Steps \ {"create"} /\ \A q \in Procs \ {Service} : reg'[q] = reg[q]
      BY <2>3 DEF Steps, Hand, IInv, TypeOK
    <3> QED  BY <2>1, <2>3, <3>1, P2PAside
  <2> QED  BY <1>6, <2>2, <2>3 DEF GetP2PKeyOrGenerateNewOne
<1>7. CASE ServiceStart \/ ServiceUnlock \/ ServiceGet \/ ServiceStop
  <2>1. Service \in Procs /\ UNCHANGED <<p2p, tidy>>
    BY <1>7 DEF Procs, ServiceStart, ServiceUnlock, ServiceGet, ServiceStop
  <2>2. CASE Exit(Service)  BY <2>1, <2>2, ExitAside
  <2>3. CASE ~Exit(Service)
    <3>1. PICK s \in {"unlock", "identity", "serve"} :
              Go(Service, s) /\ (UNCHANGED reg \/ \E r : Hand(Service, r))
      BY <1>7, <2>3 DEF ServiceStart, ServiceUnlock, ServiceGet, ServiceStop
    <3>2. s \in Steps \ {"create"} /\ \A q \in Procs \ {Service} : reg'[q] = reg[q]
      BY <3>1 DEF Steps, Hand, IInv, TypeOK
    <3> QED  BY <2>1, <3>1, <3>2, P2PAside
  <2> QED  BY <2>2, <2>3
<1>8. CASE UNCHANGED vars
  BY <1>8 DEF vars, Numbered, Names, NextNumber
<1> QED  BY <1>2, <1>3, <1>4, <1>5, <1>6, <1>7, <1>8, CreateNumbered DEF Next, Run, Serve

\* As long as no key is removed, or named by the operator, a key that is added
\* without a nickname finds the next number free.
THEOREM NumbersAreFree == Spec => []NextNumberIsFree
<1>1. Init => Numbered
  <2> SUFFICES ASSUME Init PROVE Numbered  OBVIOUS
  <2>1. Names = {} /\ NextNumber = 0  BY FS_EmptySet DEF Init, Names, NextNumber
  <2>2. \A p \in Procs : pc[p] = "out"  BY DEF Init
  <2> QED  BY <2>1, <2>2 DEF Numbered
<1>2. IInv /\ Numbered => NextNumberIsFree
  <2>1. IInv => NextNumber \in Nat  BY FS_CardinalityType DEF IInv, Control, NextNumber
  <2> QED  BY <2>1 DEF Numbered, NextNumberIsFree
<1> QED  BY <1>1, <1>2, InitTyped, NextTyped, NumberedStep, PTL DEF Spec
=============================================================================
