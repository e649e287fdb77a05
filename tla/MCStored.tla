------------------------------ MODULE MCStored ------------------------------
(* What the application keeps, on small instances, one component at a time: the
   configuration files and what goes with them, the credential store, the split
   settings and the geo lists.  The credential store and the geo lists are the
   components this module extends: their constants are given in the cfg, and their variables
   rest in an initial state while another component is looked at. *)
EXTENDS CredentialStore, GeoLists

CONSTANTS p1, p2, p3

VARIABLES
    part,  \* the component looked at, the same throughout
    toml, aside, store, list, record, saved, address, fetching, op, servers, failed,
    kept, amiss,
    s, settings, configs, active, session, built, pushed, geo, changes

vaultVars == <<toml, aside, store, list, record, saved, address, fetching, op,
    servers, failed, kept, amiss>>
splitVars == <<s, settings, configs, active, session, built, pushed, geo,
    changes>>

\* The keys of names on Windows.
Lower(names) == [n \in names |-> IF n = "Work" THEN "work" ELSE n]

Vault == INSTANCE ConfigVault WITH
    Paths <- {p1, p2, p3}, MaxMade <- 7, MaxFaults <- 2,
    Operations <- {"create", "edit", "rename", "recase", "remove"},
    Faults <- {"store", "disk", "undo", "delete", "unsaved"}, Happens <- {},
    file <- toml, made <- servers, faults <- failed
Refreshed == INSTANCE ConfigVault WITH
    Paths <- {p1, p2}, MaxMade <- 8, MaxFaults <- 1,
    Operations <- {"edit", "rename", "recase", "import", "plain", "subscription", "detach"},
    Faults <- {"store", "undo"}, Happens <- {"fetch"}, file <- toml,
    made <- servers, faults <- failed
Imports == INSTANCE ConfigVault WITH
    Paths <- {p1, p2}, MaxMade <- 8, MaxFaults <- 2,
    Operations <- {"import", "replace", "plain", "bare", "subscription", "detach"},
    Faults <- {"store", "disk", "records", "undo", "delete", "unsaved"},
    Happens <- {}, file <- toml, made <- servers, faults <- failed
Replaced == INSTANCE ConfigVault WITH
    Paths <- {p1, p2}, MaxMade <- 8, MaxFaults <- 2,
    Operations <- {"import", "replace", "plain", "bare", "subscription", "remove"},
    Faults <- {"store", "records", "undo", "delete", "unsaved"}, Happens <- {},
    file <- toml, made <- servers, faults <- failed
Crashed == INSTANCE ConfigVault WITH
    Paths <- {p1, p2}, MaxMade <- 5, MaxFaults <- 2,
    Operations <- {"create", "edit", "rename", "recase", "import", "replace", "plain",
        "subscription", "remove", "detach"},
    Faults <- {"disk", "records", "undo", "delete", "unsaved"},
    Happens <- {"crash", "fetch"},
    file <- toml, made <- servers, faults <- failed
\* The credential store of the cfg is "saves"; these share its variables.
Stopped == INSTANCE CredentialStore WITH
    Operations <- {"connect"}, Faults <- {"store", "lookup", "probe", "write"},
    Crashes <- TRUE, MaxMade <- 1, MaxFaults <- 4
Client == INSTANCE CredentialStore WITH
    Clients <- {"tool"}, Operations <- {"connect", "save", "import"},
    Faults <- {"store", "probe"}
Meanwhile == INSTANCE CredentialStore WITH
    Clients <- {"libsecret"}, Concurrent <- TRUE, Legacy <- FALSE, MaxMade <- 5
Live == INSTANCE SplitSettings WITH
    Names <- {"Default", "work"}, Folded <- Lower({"Default", "work"}),
    Configs <- {p1, p2}, MaxEdits <- 4, Happens <- {"geo", "legacy"},
    file <- settings, edits <- changes
Start == INSTANCE SplitSettings WITH
    Names <- {"Default", "work", "Work"},
    Folded <- Lower({"Default", "work", "Work"}), Configs <- {p1},
    MaxEdits <- 6, Happens <- {}, file <- settings, edits <- changes
Upgrade == INSTANCE SplitSettings WITH
    Names <- {"Default", "work"}, Folded <- Lower({"Default", "work"}),
    Configs <- {p1}, MaxEdits <- 1, Happens <- {"legacy", "cut"},
    file <- settings, edits <- changes

-----------------------------------------------------------------------------
\* What a component leaves out when another one is looked at.
Absent == "nothing"
NoVault ==
    /\ toml = Absent /\ aside = Absent /\ store = Absent /\ list = Absent
    /\ record = Absent /\ saved = Absent /\ address = Absent
    /\ fetching = Absent /\ op = Absent /\ servers = Absent
    /\ failed = Absent /\ kept = Absent /\ amiss = Absent
NoSplit ==
    /\ s = Absent /\ settings = Absent /\ configs = Absent
    /\ active = Absent /\ session = Absent /\ built = Absent
    /\ pushed = Absent /\ geo = Absent /\ changes = Absent

NoCachedList == \A k \in Keys : cache[k] = Nothing
NoPlainFile == CredentialInit /\ plain = None

SuiteInit ==
    /\ Init
    /\ \/ /\ \/ part = "edits" /\ Vault!Init
             \/ part = "refreshed" /\ Refreshed!Init
             \/ part = "imports" /\ Imports!Init
             \/ part = "replaced" /\ Replaced!Init
             \/ part = "crash" /\ Crashed!Init
          /\ NoPlainFile /\ NoSplit /\ NoCachedList
       \/ /\ \/ part = "saves" /\ CredentialInit
             \/ part = "stopped" /\ Stopped!CredentialInit
             \/ part = "client" /\ Client!CredentialInit
             \/ part = "meanwhile" /\ Meanwhile!CredentialInit
          /\ NoVault /\ NoSplit /\ NoCachedList
       \/ /\ \/ part = "split" /\ Live!Init
             \/ part = "start" /\ Start!Init
             \/ part = "upgrade" /\ Upgrade!Init
          /\ NoVault /\ NoPlainFile /\ NoCachedList
       \/ part = "geo" /\ NoVault /\ NoPlainFile /\ NoSplit

SuiteNext ==
    \/ /\ \/ part = "edits" /\ Vault!Next
          \/ part = "refreshed" /\ Refreshed!Next
          \/ part = "imports" /\ Imports!Next
          \/ part = "replaced" /\ Replaced!Next
          \/ part = "crash" /\ Crashed!Next
       /\ UNCHANGED <<part, credential_vars, splitVars, vars>>
    \/ /\ \/ part = "saves" /\ CredentialNext
          \/ part = "stopped" /\ Stopped!CredentialNext
          \/ part = "client" /\ Client!CredentialNext
          \/ part = "meanwhile" /\ Meanwhile!CredentialNext
       /\ UNCHANGED <<part, vaultVars, splitVars, vars>>
    \/ /\ \/ part = "split" /\ Live!Next
          \/ part = "start" /\ Start!Next
          \/ part = "upgrade" /\ Upgrade!Next
       /\ UNCHANGED <<part, vaultVars, credential_vars, vars>>
    \/ /\ part = "geo" /\ Next
       /\ UNCHANGED <<part, vaultVars, credential_vars, splitVars>>

suite_vars == <<part, vaultVars, credential_vars, splitVars, vars>>
SuiteSpec == SuiteInit /\ [][SuiteNext]_suite_vars

-----------------------------------------------------------------------------
ASSUME /\ Vault!VaultAssumption /\ Refreshed!VaultAssumption /\ Imports!VaultAssumption
       /\ Replaced!VaultAssumption /\ Crashed!VaultAssumption
       /\ Stopped!CredentialAssumption
       /\ Client!CredentialAssumption /\ Meanwhile!CredentialAssumption
       /\ Live!SplitAssumption /\ Start!SplitAssumption /\ Upgrade!SplitAssumption

\* PasswordGoesWithServer.  Between operations a configuration is connected with the
\* password of the very server its file names, whatever was edited, renamed, refreshed or
\* replaced, and whichever call failed that the code asks about; where one failed that it
\* does not ask about, every configuration but the one that call was for
\* (BackendConfigShared.cpp:77-143, BackendConfigCreate.cpp:171-179).  A connect never uses an
\* older one, and when none of its calls failed it leaves one copy, in the keyring
\* (migrateConfigPassword).
PasswordGoesWithServer ==
    /\ part = "edits" => Vault!PasswordGoesWithServer
    /\ part = "refreshed" => Refreshed!TypeOK /\ Refreshed!PasswordGoesWithServer
    /\ part = "replaced" => Replaced!PasswordGoesWithServer
    /\ part = "saves" => CredentialTypeOK /\ MovesEveryCopy
    /\ part = "client" => Client!CredentialTypeOK /\ Client!ConnectsWithTheLatest

\* NothingLost.  No server the user was promised is lost and no record without its address,
\* at any moment of an operation, crashes included; and between operations nothing is left
\* of what was removed: no file, no password, no record, no address (BackendConfigShared.cpp:
\* 113-119, ConfigPaths.cpp:250-256, BackendSubscriptions.cpp:294-297).  Excepted is what a
\* failed call that nobody asks about was for: a file to put back, an entry to delete.
NothingLost ==
    /\ part = "crash" => Crashed!NothingLost /\ Crashed!RecordHasItsAddress
    /\ part = "imports" => Imports!NothingLost /\ Imports!AddressesBelong
    /\ part = "edits" => Vault!RemovedLeavesNothing
    /\ part = "refreshed" => Refreshed!RemovedLeavesNothing

\* RoutedByItsProfile.  A session that is up is routed by the profile of its own config as
\* it is now, and never by a mode that sends nothing through the tunnel; the page shows what
\* the profile holds; and the rules of a geo list's row were read for its own direction
\* (BackendSplit.cpp:466-544, GeoListCache.h:17-19).
RoutedByItsProfile ==
    /\ part = "split" => Live!TypeOK /\ Live!RoutedByItsProfile /\ Live!NeverFailsOpen
    /\ part = "upgrade" => Upgrade!PageShowsTheProfile
    /\ part = "geo" => TypeOK /\ OwnDirection

\* RestartKeepsRules.  A restart routes every config as before it, and a save cut short after
\* an upgrade leaves the profiles not being edited their programs (AppSettings.cpp:271-272).
RestartKeepsRules ==
    [][/\ part = "start" => Start!RestartKeepsRules
       /\ part = "upgrade" => Upgrade!UpgradeKeepsPrograms]_suite_vars
=============================================================================
