-------------------------- MODULE CredentialStore --------------------------
(***************************************************************************)
(* Where the password of one configuration is on Linux, and how it moves.  *)
(* The keyring is reached through libsecret and, failing that, through     *)
(* secret-tool; the two file their items under attributes of their own, so *)
(* neither sees the other's.  Older versions left the password in a file   *)
(* of its own or in the configuration itself, and whoever reads one there  *)
(* moves it to the keyring: a connect does, on a thread of its own, while  *)
(* the window is open to the user.                                         *)
(***************************************************************************)
EXTENDS Naturals

CONSTANTS
    Clients,        \* of "libsecret", "tool": those this build and machine have
    Operations,     \* what happens: "connect", "save", "import"
    Concurrent,     \* the user saves while a connect reads
    Legacy,         \* an older version left its password behind
    Faults,         \* calls that may fail: "store", "lookup", "probe", "write"
    Crashes,        \* the program may die
    MaxMade,        \* bound: passwords made
    MaxFaults       \* bound: calls that fail

CredentialAssumption ==
    /\ Clients \subseteq {"libsecret", "tool"}
    /\ MaxMade \in Nat \ {0} /\ MaxFaults \in Nat
    /\ {Concurrent, Legacy, Crashes} \subseteq BOOLEAN

ASSUME CredentialConstants == CredentialAssumption

Callers == {"worker", "gui"}
None == 0

VARIABLES
    item,       \* the keyring's items, by the client that filed them
    plain,      \* the older version's password file
    file,       \* the configuration: its version, and a password inside it
    call,       \* what each thread is doing
    owed,       \* the version and password saved last (ghost)
    made, faults

credential_vars == <<item, plain, file, call, owed, made, faults>>

(* A configuration is numbered, and its password has its number.           *)
Numbers == 0..MaxMade
Configs == [version : Numbers, inline : Numbers]
Idle == [pc |-> "idle"]

(* "then" is where a store or a load returns to; pw what is stored or was  *)
(* found; text the configuration as it was read; was the one replaced.     *)
Pcs == {"read", "storeLibsecret", "storeTool", "removePlain", "strip", "readAgain",
        "loadLibsecret", "loadTool", "loadPlain", "probe", "verify", "commit", "write",
        "putBack", "done"}
Calls == [op : {"connect", "save", "import"}, pc : Pcs, then : Pcs, pw : Numbers,
          new : Numbers, text : Configs, was : Configs, since : 0..MaxFaults]

CredentialTypeOK ==
    /\ item \in [{"libsecret", "tool"} -> Numbers]
    /\ \A k \in DOMAIN item : item[k] # None => k \in Clients
    /\ plain \in Numbers /\ file \in Configs
    /\ call \in [Callers -> {Idle} \cup Calls]
    /\ owed \in 0..MaxMade /\ made \in 0..MaxMade /\ faults \in 0..MaxFaults

CredentialInit ==
    /\ \/ ~Legacy /\ plain = None /\ file = [version |-> 1, inline |-> None]
          /\ \E c \in Clients : item = [k \in {"libsecret", "tool"} |->
                                            IF k = c THEN 1 ELSE None]
       \/ Legacy /\ item = [k \in {"libsecret", "tool"} |-> None]
          /\ \/ plain = 1 /\ file = [version |-> 1, inline |-> None]
             \/ plain = None /\ file = [version |-> 1, inline |-> 1]
    /\ call = [c \in Callers |-> Idle]
    /\ owed = 1 /\ made = 1 /\ faults = 0

AtStep(c, pc) == call[c].pc = pc
Goto(c, pc) == call' = [call EXCEPT ![c].pc = pc]
Holding(c, pw, pc) == call' = [call EXCEPT ![c].pc = pc, ![c].pw = pw]
Fails(f) == f \in Faults /\ faults < MaxFaults /\ faults' = faults + 1
Works == faults' = faults

Begin(c, op, pc, pw, then) ==
    /\ op \in Operations /\ call[c] = Idle
    /\ Concurrent \/ \A d \in Callers : call[d] = Idle
    /\ call' = [call EXCEPT ![c] =
                    [op |-> op, pc |-> pc, then |-> then, pw |-> pw, new |-> pw,
                     text |-> file, was |-> file, since |-> faults]]

-----------------------------------------------------------------------------
(* CredentialStore::storePassword(): doStorePassword().                    *)

Has(client) == client \in Clients

StoreBy(c, client, pc, next) ==
    /\ AtStep(c, pc)
    /\ \/ Has(client) /\ Works
          /\ item' = [item EXCEPT ![client] = call[c].pw]
          /\ Goto(c, "removePlain")
       \/ (IF Has(client) THEN Fails("store") ELSE Works)
          /\ Goto(c, next) /\ UNCHANGED item
    /\ UNCHANGED <<plain, file, owed, made>>

(* Neither took it: what a failed store leaves to its caller.              *)
NotMoved(c) == IF call[c].op = "import" THEN "putBack" ELSE "readAgain"
Refused(c) == IF call[c].then = "strip" THEN NotMoved(c) ELSE call[c].then

StoreLibsecret(c) == StoreBy(c, "libsecret", "storeLibsecret", "storeTool")
StoreTool(c) == StoreBy(c, "tool", "storeTool", Refused(c))

DeletePasswordFile == plain' = None

RemovePlain(c) ==
    /\ AtStep(c, "removePlain")
    /\ DeletePasswordFile
    /\ Goto(c, call[c].then)
    /\ UNCHANGED <<item, file, owed, made, faults>>

(* CredentialStore::loadPassword(): loadPasswordLinux().                   *)

AfterLoad(c) == CASE call[c].op = "save" -> "commit" [] OTHER -> "done"
Found(c, pw) == Holding(c, pw, AfterLoad(c))

LoadBy(c, client, pc, next) ==
    /\ AtStep(c, pc)
    /\ \/ /\ Has(client) /\ item[client] # None /\ Works
          /\ Found(c, item[client])
       \/ /\ ~Has(client) \/ item[client] = None
          /\ Works /\ Goto(c, next)
       \/ Has(client) /\ Fails("lookup") /\ Goto(c, next)
    /\ UNCHANGED <<item, plain, file, owed, made>>

LoadLibsecret(c) == LoadBy(c, "libsecret", "loadLibsecret", "loadTool")
LoadTool(c) == LoadBy(c, "tool", "loadTool", "loadPlain")

LoadPlain(c) ==
    /\ AtStep(c, "loadPlain")
    /\ IF plain = None THEN Found(c, None) ELSE Holding(c, plain, "probe")
    /\ UNCHANGED <<item, plain, file, owed, made, faults>>

(* migrateLegacyFilePassword(): when a keyring answers, what the file held *)
(* is stored there.                                                        *)
DropsFirst(c) == plain' = None
KeepsUntilStored(c) == plain' = plain

Probe(c) ==
    /\ AtStep(c, "probe")
    /\ \/ Clients # {} /\ Works
          /\ call' = [call EXCEPT ![c].pc = "storeLibsecret", ![c].then = AfterLoad(c)]
          /\ KeepsUntilStored(c)
       \/ (IF Clients = {} THEN Works ELSE Fails("probe"))
          /\ Goto(c, AfterLoad(c)) /\ UNCHANGED plain
    /\ UNCHANGED <<item, file, owed, made>>

-----------------------------------------------------------------------------
(* migrateConfigPassword(): of a connect, and of an import.                *)

\* The window's thread starts one, when it is in no call of its own.
BeginConnect ==
    /\ call["gui"] = Idle
    /\ Begin("worker", "connect", "read", None, "strip")
    /\ UNCHANGED <<item, plain, file, owed, made, faults>>

Ends(c) == IF call[c].op = "import" THEN "done" ELSE "readAgain"

Moves(c) == IF file.inline = None THEN Ends(c) ELSE "storeLibsecret"

ReadConfig(c) ==
    /\ AtStep(c, "read")
    /\ call' = [call EXCEPT ![c].text = file, ![c].pw = file.inline, ![c].pc = Moves(c)]
    /\ owed' = IF Moves(c) = "done" THEN call[c].new ELSE owed
    /\ UNCHANGED <<item, plain, file, made, faults>>

(* The whole text as it was read, with no password in it.                  *)
Strip(c) ==
    /\ AtStep(c, "strip")
    /\ \/ /\ Works
          /\ file' = [call[c].text EXCEPT !.inline = None]
          /\ owed' = IF call[c].op = "import" THEN call[c].new ELSE owed
          /\ Goto(c, Ends(c))
       \/ /\ Fails("write")
          /\ Goto(c, NotMoved(c))
          /\ UNCHANGED <<file, owed>>
    /\ UNCHANGED <<item, plain, made>>

(* buildConnectConfigToml(), whatever came of the move.                    *)
ReadAgain(c) ==
    /\ AtStep(c, "readAgain")
    /\ IF file.inline # None THEN Holding(c, file.inline, "done")
       ELSE Holding(c, None, "loadLibsecret")
    /\ UNCHANGED <<item, plain, file, owed, made, faults>>

-----------------------------------------------------------------------------
(* saveConfigWithPassword(): stored, read back, and then committed.        *)

BeginSave ==
    /\ made < MaxMade /\ made' = made + 1
    /\ Begin("gui", "save", "storeLibsecret", made + 1, "verify")
    /\ UNCHANGED <<item, plain, file, owed, faults>>

Verify(c) ==
    /\ AtStep(c, "verify")
    /\ Goto(c, "loadLibsecret")
    /\ UNCHANGED <<item, plain, file, owed, made, faults>>

ReadBack(c) == call[c].pw = call[c].new

Commit(c) ==
    /\ AtStep(c, "commit")
    /\ IF ReadBack(c)
       THEN file' = [version |-> call[c].new, inline |-> None] /\ owed' = call[c].new
       ELSE UNCHANGED <<file, owed>>
    /\ Goto(c, "done")
    /\ UNCHANGED <<item, plain, made, faults>>

(* An import that replaces the configuration: a file with the password in  *)
(* it, then the move; the old file is put back when that fails.            *)
BeginImport ==
    /\ made < MaxMade /\ made' = made + 1
    /\ Begin("gui", "import", "write", made + 1, "strip")
    /\ UNCHANGED <<item, plain, file, owed, faults>>

WriteImport(c) ==
    /\ AtStep(c, "write")
    /\ file' = [version |-> call[c].new, inline |-> call[c].new]
    /\ Goto(c, "read")
    /\ UNCHANGED <<item, plain, owed, made, faults>>

PutBack(c) ==
    /\ AtStep(c, "putBack")
    /\ file' = call[c].was
    /\ Goto(c, "done")
    /\ UNCHANGED <<item, plain, owed, made, faults>>

Return(c) ==
    /\ AtStep(c, "done")
    /\ call' = [call EXCEPT ![c] = Idle]
    /\ UNCHANGED <<item, plain, file, owed, made, faults>>

Crash ==
    /\ Crashes
    /\ call' = [c \in Callers |-> Idle]
    /\ UNCHANGED <<item, plain, file, owed, made, faults>>

CredentialNext ==
    \/ BeginConnect \/ BeginSave \/ BeginImport \/ Crash
    \/ \E c \in Callers :
        \/ StoreLibsecret(c) \/ StoreTool(c) \/ RemovePlain(c)
        \/ LoadLibsecret(c) \/ LoadTool(c) \/ LoadPlain(c) \/ Probe(c)
        \/ ReadConfig(c) \/ Strip(c) \/ ReadAgain(c)
        \/ Verify(c) \/ Commit(c) \/ WriteImport(c) \/ PutBack(c) \/ Return(c)

CredentialSpec == CredentialInit /\ [][CredentialNext]_credential_vars

-----------------------------------------------------------------------------
(* What the next connect would read, with every call answered.             *)
WouldRead ==
    IF file.inline # None THEN file.inline
    ELSE IF "libsecret" \in Clients /\ item["libsecret"] # None THEN item["libsecret"]
    ELSE IF "tool" \in Clients /\ item["tool"] # None THEN item["tool"]
    ELSE plain

(* Between operations, and after a crash, the configuration is the one     *)
(* saved last, and the password read for it is the one saved with it, over *)
(* copies in two keyrings, an older file and the configuration itself      *)
(* (storePassword, loadPassword, saveConfigWithPassword,                   *)
(* migrateConfigPassword).                                                 *)
ReadsWhatWasSaved ==
    (\A c \in Callers : call[c] = Idle) =>
        WouldRead = owed /\ file.version = owed

(* A connect builds its configuration with that password or with none, and *)
(* never with an older one, whichever calls failed.                        *)
ConnectsWithTheLatest ==
    AtStep("worker", "done") => call["worker"].pw \in {None, owed}

(* A connect none of whose calls failed leaves the password in the keyring *)
(* alone: no copy in the older file, none in the configuration.            *)
MovesEveryCopy ==
    AtStep("worker", "done") /\ call["worker"].since = faults /\ Clients # {} =>
        plain = None /\ file.inline = None
=============================================================================
