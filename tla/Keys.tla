-------------------------------- MODULE Keys --------------------------------
(***************************************************************************)
(* The keystores of a home directory: the keys commands (cmd/blobstream/   *)
(* keys) and a service that takes its EVM account and its P2P identity     *)
(* from them.                                                              *)
(*                                                                         *)
(* OpenStore takes no lock for the keystores, so every command runs while  *)
(* others wait for a passphrase or an answer.  An EVM key is a file whose  *)
(* name has the time it was created at, encrypted with a passphrase (go-   *)
(* ethereum's keystore, external).  A P2P key is a file named after its    *)
(* nickname, created and then written (boxo's FSKeystore, external).       *)
(***************************************************************************)
EXTENDS Integers, FiniteSets, FiniteSetsExt

CONSTANTS
    Shells, Service,    \* the operator's shells, and the service
    Addrs,              \* EVM addresses
    Passes,             \* passphrases of EVM keys
    Account, Passphrase, \* the service's --evm.account and --evm.passphrase
    Nicknames,          \* nicknames the operator gives; numbers stand for all
    MaxCommands,        \* bound: keys commands
    MaxCrashes          \* bound: processes killed

ASSUME ServiceAssumption == Service \notin Shells /\ Account \in Addrs /\ Passphrase \in Passes
ASSUME NicknameAssumption == Nicknames \subseteq Nat
ASSUME BoundAssumption == MaxCommands \in Nat /\ MaxCrashes \in Nat

Procs == Shells \union {Service}

\* the service's --p2p.nickname is not set
Unset == -1

VARIABLES
    evm,            \* files of the EVM keystore
    p2p,            \* files of the P2P keystore
    written,        \* P2P keys that are in their files
    nickname,       \* the service's --p2p.nickname
    pc,             \* each process's next step
    reg,            \* what it has in hand
    \* history
    reported,       \* each address's passphrase as the commands reported it, {} for no key
    raced,          \* a key was stored twice, or stored again after its removal
    tidy,           \* no P2P key was removed, or named by the operator
    \* counters and spent budgets
    stamps, made, commands, crashes

storeVars  == <<evm, p2p, written>>
histVars   == <<reported, raced, tidy>>
countVars  == <<stamps, made>>
budgetVars == <<commands, crashes>>
vars == <<storeVars, nickname, pc, reg, histVars, countVars, budgetVars>>

EVMFiles == [stamp : Nat, addr : Addrs, pass : Passes]
P2PFiles == [name : Nat, key : Nat]
Registers == [addr : Addrs, stamp : Nat, old : Passes, new : Passes, name : Nat, key : Nat]

-----------------------------------------------------------------------------

Go(p, step) == pc' = [pc EXCEPT ![p] = step]

\* nothing in hand
Idle == [addr |-> Account, stamp |-> 0, old |-> Passphrase, new |-> Passphrase, name |-> 0, key |-> 0]

\* p goes on with r in hand
Hand(p, r) == reg' = [reg EXCEPT ![p] = r]

Exit(p) == Go(p, "out") /\ Hand(p, Idle)

\* a command is entered in a shell
Command(p) ==
    /\ p \in Shells /\ pc[p] = "out"
    /\ commands < MaxCommands /\ commands' = commands + 1
    /\ UNCHANGED <<storeVars, nickname, countVars, crashes>>

-----------------------------------------------------------------------------
(* The EVM keys.                                                           *)

FilesOf(a) == {f \in evm : f.addr = a}

\* GetAccountFromStore: the last of the address's files in the order of their
\* names, or nothing: then its caller fails
GetAccountFromStore(a) == {f \in FilesOf(a) : \A g \in FilesOf(a) : g.stamp <= f.stamp}

\* the file the account names, or the only one of its address; decrypted (external)
Find(p) ==
    LET named == {f \in FilesOf(reg[p].addr) : f.stamp = reg[p].stamp}
    IN  IF named # {} \/ Cardinality(FilesOf(reg[p].addr)) > 1 THEN named ELSE FilesOf(reg[p].addr)

Decrypted(p, given) == {f \in Find(p) : f.pass = given}

\* an import of a's key is started: its passphrases are asked first
BeginImport(p, a) ==
    /\ Command(p)
    /\ \E n \in Passes : Hand(p, [Idle EXCEPT !.addr = a, !.new = n])
    /\ Go(p, "import")
    /\ UNCHANGED histVars

\* a random key: its address is not in the store
EVMAdd(p) == \E a \in Addrs : FilesOf(a) = {} /\ BeginImport(p, a)

\* with the file's passphrase, or it fails later on
ImportFile(p) == \E a \in Addrs : BeginImport(p, a)
ImportECDSA(p) == \E a \in Addrs : BeginImport(p, a)
ImportMnemonic(p) == \E a \in Addrs : BeginImport(p, a)

\* keystore.ImportECDSA and Import: ErrAccountAlreadyExists, or the file gets its name
CheckAddress(p) ==
    /\ pc[p] = "import"
    /\ \/ FilesOf(reg[p].addr) # {} /\ Exit(p) /\ UNCHANGED stamps
       \/ /\ FilesOf(reg[p].addr) = {}
          /\ stamps' = stamps + 1 /\ Hand(p, [reg[p] EXCEPT !.stamp = stamps + 1])
          /\ Go(p, "store")
    /\ UNCHANGED <<storeVars, nickname, histVars, made, budgetVars>>

\* and is written once the key is encrypted
StoreKey(p) ==
    LET a == reg[p].addr IN
    /\ pc[p] = "store"
    /\ evm' = evm \union {[stamp |-> reg[p].stamp, addr |-> a, pass |-> reg[p].new]}
    /\ reported' = [reported EXCEPT ![a] = {reg[p].new}]
    /\ raced' = (raced \/ FilesOf(a) # {})
    /\ Exit(p)
    /\ UNCHANGED <<p2p, written, nickname, tidy, countVars, budgetVars>>

EVMDelete(p) ==
    /\ Command(p)
    /\ \E a \in Addrs, given \in Passes : \E f \in GetAccountFromStore(a) :
         Hand(p, [Idle EXCEPT !.addr = a, !.stamp = f.stamp, !.old = given])
    /\ Go(p, "unlock")
    /\ UNCHANGED histVars

\* the passphrase has to open the key, then the answer has to be "yes"
DeleteUnlock(p) ==
    /\ p \in Shells /\ pc[p] = "unlock"
    /\ \/ Decrypted(p, reg[p].old) # {} /\ Go(p, "confirm") /\ UNCHANGED reg
       \/ Decrypted(p, reg[p].old) = {} /\ Exit(p)
    /\ UNCHANGED <<storeVars, nickname, histVars, countVars, budgetVars>>

DeleteConfirm(p) ==
    /\ pc[p] = "confirm"
    /\ \/ Exit(p)
       \/ \E f \in Decrypted(p, reg[p].old) :
            Hand(p, [reg[p] EXCEPT !.stamp = f.stamp]) /\ Go(p, "remove")
    /\ UNCHANGED <<storeVars, nickname, histVars, countVars, budgetVars>>

\* keystore.Delete removes the file it decrypted, or fails if it is gone
EVMRemove(p) ==
    LET a == reg[p].addr
        mine == {f \in evm : f.addr = a /\ f.stamp = reg[p].stamp} IN
    /\ pc[p] = "remove"
    /\ evm' = evm \ mine
    /\ reported' = IF mine = {} THEN reported ELSE [reported EXCEPT ![a] = {}]
    /\ Exit(p)
    /\ UNCHANGED <<p2p, written, nickname, raced, tidy, countVars, budgetVars>>

EVMUpdate(p) ==
    /\ Command(p)
    /\ \E a \in Addrs, given, n \in Passes : \E f \in GetAccountFromStore(a) :
         Hand(p, [Idle EXCEPT !.addr = a, !.stamp = f.stamp, !.old = given, !.new = n])
    /\ Go(p, "decrypt")
    /\ UNCHANGED histVars

\* keystore.Update decrypts the file, then writes it again under its name
UpdateDecrypt(p) ==
    /\ pc[p] = "decrypt"
    /\ \/ \E f \in Decrypted(p, reg[p].old) :
            Hand(p, [reg[p] EXCEPT !.stamp = f.stamp]) /\ Go(p, "rewrite")
       \/ Decrypted(p, reg[p].old) = {} /\ Exit(p)
    /\ UNCHANGED <<storeVars, nickname, histVars, countVars, budgetVars>>

\* the file is written again with pass, and the update reported
Rewrite(p, pass) ==
    LET a == reg[p].addr
        mine == {f \in evm : f.addr = a /\ f.stamp = reg[p].stamp} IN
    /\ pc[p] = "rewrite"
    /\ evm' = (evm \ mine) \union {[stamp |-> reg[p].stamp, addr |-> a, pass |-> pass]}
    /\ reported' = [reported EXCEPT ![a] = {reg[p].new}]
    /\ raced' = (raced \/ mine = {})
    /\ Exit(p)
    /\ UNCHANGED <<p2p, written, nickname, tidy, countVars, budgetVars>>

UpdateRewrite_Old(p) == Rewrite(p, reg[p].old)

UpdateRewrite(p) == Rewrite(p, reg[p].new)

EVM(p) ==
    \/ CheckAddress(p) \/ StoreKey(p) \/ DeleteUnlock(p) \/ DeleteConfirm(p) \/ EVMRemove(p)
    \/ UpdateDecrypt(p) \/ UpdateRewrite(p)

-----------------------------------------------------------------------------
(* The P2P keys.                                                           *)

Names == {f.name : f \in p2p}

NextNumber_OffByOne == Cardinality(p2p) - 1

\* the nickname of a key that is added without one: len(k) in decimal
NextNumber == Cardinality(p2p)

\* P2PKeyStore.Put is to be called with n
BeginPut(p, n) == Hand(p, [Idle EXCEPT !.name = n]) /\ Go(p, "create")

P2PAdd(p) ==
    /\ Command(p)
    /\ \/ BeginPut(p, NextNumber) /\ UNCHANGED tidy
       \/ \E n \in Nicknames : BeginPut(p, n) /\ tidy' = FALSE
    /\ UNCHANGED <<reported, raced>>

P2PImport(p) ==
    /\ Command(p)
    /\ \E n \in Nicknames : BeginPut(p, n) /\ tidy' = FALSE
    /\ UNCHANGED <<reported, raced>>

\* Put (external): ErrKeyExists, or the file is created
PutCreate(p) ==
    /\ pc[p] = "create"
    /\ \/ reg[p].name \in Names /\ Exit(p) /\ UNCHANGED <<p2p, made>>
       \/ /\ reg[p].name \notin Names
          /\ made' = made + 1 /\ Hand(p, [reg[p] EXCEPT !.key = made + 1])
          /\ p2p' = p2p \union {[name |-> reg[p].name, key |-> made + 1]}
          /\ Go(p, "write")
    /\ UNCHANGED <<evm, written, nickname, histVars, stamps, budgetVars>>

\* Put: the key is written into the file, and the service gets it from there
PutWrite(p) ==
    /\ pc[p] = "write"
    /\ written' = written \union {reg[p].key}
    /\ \/ p = Service /\ Go(p, "get") /\ UNCHANGED reg
       \/ p # Service /\ Exit(p)
    /\ UNCHANGED <<evm, p2p, nickname, histVars, countVars, budgetVars>>

P2PDelete(p) ==
    /\ Command(p)
    /\ \E n \in Names : Hand(p, [Idle EXCEPT !.name = n])
    /\ Go(p, "erase")
    /\ UNCHANGED histVars

\* the answer is "yes" or not
P2PErase(p) ==
    /\ pc[p] = "erase"
    /\ \/ UNCHANGED <<p2p, tidy>>
       \/ p2p' = {f \in p2p : f.name # reg[p].name} /\ tidy' = FALSE
    /\ Exit(p)
    /\ UNCHANGED <<evm, written, nickname, reported, raced, countVars, budgetVars>>

-----------------------------------------------------------------------------
(* The service.                                                            *)

\* GetAccountFromStoreAndUnlockIt: the account, if the store has it
ServiceStart ==
    /\ pc[Service] = "out"
    /\ \E f \in GetAccountFromStore(Account) :
         Hand(Service, [Idle EXCEPT !.addr = Account, !.stamp = f.stamp])
    /\ Go(Service, "unlock")
    /\ UNCHANGED <<storeVars, nickname, histVars, countVars, budgetVars>>

\* then its key, with the passphrase
ServiceUnlock ==
    /\ pc[Service] = "unlock"
    /\ \/ Decrypted(Service, Passphrase) # {} /\ Go(Service, "identity") /\ UNCHANGED reg
       \/ Decrypted(Service, Passphrase) = {} /\ Exit(Service)
    /\ UNCHANGED <<storeVars, nickname, histVars, countVars, budgetVars>>

\* the nickname of the key that a service creates
NewKeyNickname_One == 1
NewKeyNickname == 0

GetP2PKeyOrGenerateNewOne_AlwaysNew ==
    /\ pc[Service] = "identity"
    /\ BeginPut(Service, NewKeyNickname)
    /\ UNCHANGED <<storeVars, nickname, histVars, countVars, budgetVars>>

\* The key of the nickname; or else the first one listed, in the order of the
\* directory; or else a new one.
GetP2PKeyOrGenerateNewOne ==
    /\ pc[Service] = "identity"
    /\ \/ /\ nickname # Unset
          /\ Hand(Service, [Idle EXCEPT !.name = nickname]) /\ Go(Service, "get")
       \/ /\ nickname = Unset
          /\ \E n \in Names : Hand(Service, [Idle EXCEPT !.name = n])
          /\ Go(Service, "get")
       \/ nickname = Unset /\ Names = {} /\ BeginPut(Service, NewKeyNickname)
    /\ UNCHANGED <<storeVars, nickname, histVars, countVars, budgetVars>>

\* P2PKeyStore.Get: the start fails if there is no such file, or no key in it
ServiceGet ==
    /\ pc[Service] = "get"
    /\ \/ /\ \E f \in p2p : f.name = reg[Service].name /\ f.key \in written
          /\ Go(Service, "serve") /\ UNCHANGED reg
       \/ /\ \A f \in p2p : f.name = reg[Service].name => f.key \notin written
          /\ Exit(Service)
    /\ UNCHANGED <<storeVars, nickname, histVars, countVars, budgetVars>>

ServiceStop ==
    /\ pc[Service] = "serve"
    /\ Exit(Service)
    /\ UNCHANGED <<storeVars, nickname, histVars, countVars, budgetVars>>

\* A process is killed; go-ethereum renames a complete file into place, boxo
\* leaves the file it has created.
Crash(p) ==
    /\ pc[p] # "out"
    /\ crashes < MaxCrashes /\ crashes' = crashes + 1
    /\ Exit(p)
    /\ UNCHANGED <<storeVars, nickname, histVars, countVars, commands>>

-----------------------------------------------------------------------------

Init ==
    /\ evm = {} /\ p2p = {} /\ written = {}
    /\ nickname \in Nicknames \union {Unset}
    /\ pc = [p \in Procs |-> "out"]
    /\ reg = [p \in Procs |-> Idle]
    /\ reported = [a \in Addrs |-> {}] /\ raced = FALSE /\ tidy = TRUE
    /\ stamps = 0 /\ made = 0 /\ commands = 0 /\ crashes = 0

\* what a shell starts, and what a process does once it is started
Enter(p) ==
    \/ EVMAdd(p) \/ ImportFile(p) \/ ImportECDSA(p) \/ ImportMnemonic(p)
    \/ EVMDelete(p) \/ EVMUpdate(p)
    \/ P2PAdd(p) \/ P2PImport(p) \/ P2PDelete(p)

Run(p) == EVM(p) \/ PutCreate(p) \/ PutWrite(p) \/ P2PErase(p)

Serve == ServiceUnlock \/ GetP2PKeyOrGenerateNewOne \/ ServiceGet

Next ==
    \/ \E p \in Procs : Enter(p) \/ Run(p) \/ Crash(p)
    \/ ServiceStart \/ Serve \/ ServiceStop

Spec == Init /\ [][Next]_vars

\* The operator answers what is asked, and a supervisor starts the service
\* again whenever it has ended.
FairSpec ==
    /\ Spec
    /\ WF_vars(ServiceStart) /\ WF_vars(Serve \/ Run(Service))
    /\ \A p \in Shells : WF_vars(Run(p))

-----------------------------------------------------------------------------
(* Properties.                                                             *)

\* The types; what a process has to write was named before.
TypeOK ==
    /\ evm \subseteq EVMFiles /\ p2p \subseteq P2PFiles /\ written \subseteq 1..made
    /\ nickname \in Nicknames \union {Unset}
    /\ pc \in [Procs -> {"out", "import", "store", "unlock", "confirm", "remove", "decrypt",
                         "rewrite", "create", "write", "erase", "identity", "get", "serve"}]
    /\ reg \in [Procs -> Registers]
    /\ reported \in [Addrs -> SUBSET Passes] /\ raced \in BOOLEAN /\ tidy \in BOOLEAN
    /\ stamps \in Nat /\ made \in Nat /\ commands \in Nat /\ crashes \in Nat

\* What the EVM commands reported last of an address is what the keystore has:
\* no key, or one that the passphrase opens.  Only two of them in a race can make
\* it otherwise: two imports of one key, or an update of a key that is deleted
\* while it is encrypted again.
StoreIsAsReported ==
    ~raced => \A a \in Addrs : {f.pass : f \in FilesOf(a)} = reported[a]

\* "If not specified, an incremental nickname will be assigned": the number of keys
\* is a nickname that is free, as long as no key is deleted or named by hand.
NextNumberIsFree == tidy => NextNumber \notin Names

\* The service's account opens, and a key that it can take is in the keystore or
\* it is the one to make it.
Startable ==
    /\ \E f \in GetAccountFromStore(Account) : f.pass = Passphrase
    /\ {f.key : f \in p2p} \subseteq written
    /\ nickname \in Names \union {Unset}

\* Whatever the commands do meanwhile: when the service can be started for good,
\* its restarts come to an end and it serves.
StartsEventually == <>[]Startable => []<>(pc[Service] = "serve")
=============================================================================
