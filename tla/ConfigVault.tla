---------------------------- MODULE ConfigVault ----------------------------
(***************************************************************************)
(* One configuration is kept in four places: its TOML file, its password   *)
(* in the credential store, its row in configs.json, and, when it follows  *)
(* a subscription, a record in subscriptions.json naming an entry of its   *)
(* own in the credential store, the subscription's address.  This module   *)
(* is the operations that write to several of them: the editor's save, the *)
(* imports, removing, detaching, and a refresh, each with the order of its *)
(* writes, the way it is undone when one of them fails, and what survives  *)
(* when the program dies between two.                                      *)
(*                                                                         *)
(* Every call to the credential store runs an event loop that keeps the    *)
(* user's input out (withoutFreezingTheUi), so between two steps of an     *)
(* operation no other operation of the user's begins, and a document that  *)
(* was being fetched can arrive; its own calls then run straight through.  *)
(*                                                                         *)
(* A server, with its user name and password, is a number.  The file holds *)
(* the number, and the store the number whose password it has: the two go  *)
(* together when they are equal.                                           *)
(*                                                                         *)
(* Some calls may fail with nobody looking at their answer: those that put *)
(* back what was there, those that delete, and the saves of the rows and   *)
(* of the records.  The operation goes on as if they had worked, and amiss *)
(* names what is not as it says for that reason.                           *)
(***************************************************************************)
EXTENDS Naturals, FiniteSets

CONSTANTS Paths,     \* file names in the application's directory
          MaxMade,   \* servers and addresses made
          MaxFaults, \* calls that fail and crashes, all together
          Operations,\* the user's operations in this run
          Faults,    \* which calls may fail: "store", "disk", "records", and of those
                     \* nobody asks about "undo", "delete", "unsaved"
          Happens    \* "crash", "fetch"

VaultAssumption == MaxMade \in Nat /\ MaxFaults \in Nat /\ Paths # {}

VARIABLES file,     \* the TOML files
          aside,    \* files under a name of the moment, .rename-*.toml
          store,    \* passwords in the credential store, by configuration
          list,     \* configs.json, and Backend::m_paths
          record,   \* SubscriptionController::m_records: source ids, by path
          saved,    \* subscriptions.json
          address,  \* source ids whose address is in the credential store
          fetching, \* configurations a document is being fetched for
          op,       \* the operation under way
          made, faults, \* bounds
          kept,     \* the servers the user is owed (ghost)
          amiss     \* paths, servers and addresses a failed call nobody asks about
                    \* left otherwise than the operation says (ghost)

vars == <<file, aside, store, list, record, saved, address, fetching, op, made, faults, kept,
          amiss>>

None   == 0
NoFile == [id |-> None, bare |-> TRUE, inline |-> FALSE]
Idle   == [kind |-> "idle"]
Numbers == 1 .. MaxMade
\* A file naming no server is what an edit makes of a linked one that is missing.
Files  == [id : Numbers \union {None}, bare : BOOLEAN, inline : BOOLEAN]
\* p is the path before, t the path the result is written to; id and pw are the
\* server and the password to save, was the file and held the password to put
\* back, sid the new source id and old the one to drop.
Steps == {"snapshot", "build", "aside", "rename", "unrename", "store", "verify", "commit",
          "restore", "forgetOld", "storeAgain", "persist", "address", "readAddress",
          "noAddress", "drop", "write", "migrate", "strip", "putBack", "dropOld", "link",
          "undo", "delete", "forget", "finish"}
Kinds == {"create", "edit", "rename", "recase", "apply", "import", "replace", "remove",
          "detach"}

TypeOK ==
    /\ file \in [Paths -> Files] /\ store \in [Paths -> 0 .. MaxMade]
    /\ aside \subseteq Files \ {NoFile} /\ amiss \subseteq Paths \union Numbers
    /\ list \subseteq Paths /\ fetching \subseteq {p \in Paths : record[p] # None}
    /\ record \in [Paths -> 0 .. MaxMade] /\ saved \in [Paths -> 0 .. MaxMade]
    /\ address \subseteq Numbers /\ kept \subseteq Numbers
    /\ made \in 0 .. MaxMade /\ faults \in 0 .. MaxFaults
    /\ op = Idle \/ (op.kind \in Kinds /\ op.pc \in Steps /\ {op.p, op.t} \subseteq Paths)

Exists(p) == file[p] # NoFile
Linked(p) == record[p] # None
At(pc)    == op # Idle /\ op.pc = pc
Goto(pc)  == op' = [op EXCEPT !.pc = pc]
Done      == op' = Idle
Fails(f)  == /\ f \in Faults
             /\ faults < MaxFaults
             /\ faults' = faults + 1
Works     == faults' = faults
LeavesAmiss(things) == amiss' = amiss \union (things \ {None})

\* What a connection made now would send: buildConnectConfigToml().
PasswordSent(p) == IF file[p].inline THEN file[p].id ELSE store[p]
OwnPassword(p)  == IF file[p].bare THEN None ELSE file[p].id

AsItShouldBe(p) == IF p \in list THEN Exists(p) /\ PasswordSent(p) = OwnPassword(p)
                   ELSE ~Exists(p) /\ store[p] = None /\ record[p] = None

\* The user no longer needs the servers in old, and is owed server new.
Instead(old, new) == kept' = ((kept \ old) \union {new}) \ {None}

Starts(operation) ==
    /\ op = Idle
    /\ op' = operation
    /\ amiss' = {a \in amiss : a \in Paths => ~AsItShouldBe(a)}

Begin(kind, p, t, pc) ==
    /\ kind \in Operations
    /\ made + 2 <= MaxMade
    /\ Starts([kind |-> kind, pc |-> pc, p |-> p, t |-> t, id |-> None, pw |-> None,
               bare |-> FALSE, was |-> file[p], held |-> None, sid |-> None, old |-> None])

-----------------------------------------------------------------------------
(* The editor's save: createConfig().                                      *)

\* snapshotForEdit() reads the file, and then asks the store for the password.
BeginSave(kind, p, t) ==
    /\ \/ kind = "create" /\ p = t /\ ~Exists(p) /\ Begin(kind, p, t, "build")
       \/ kind = "edit" /\ p = t /\ p \in list /\ Begin(kind, p, t, "snapshot")
       \/ kind = "recase" /\ p = t /\ p \in list /\ Exists(p) /\ Begin(kind, p, t, "snapshot")
       \/ kind = "rename" /\ p # t /\ p \in list /\ ~Exists(t) /\ Begin(kind, p, t, "snapshot")
    /\ UNCHANGED <<file, aside, store, list, record, saved, address, fetching, made, faults,
                   kept>>

Snapshot ==
    /\ At("snapshot")
    /\ op' = [op EXCEPT !.pc = "build", !.held = store[op.p]]
    /\ UNCHANGED <<file, aside, store, list, record, saved, address, fetching, made, faults,
                   kept, amiss>>

\* keepSubscriptionOwnedFields(): the server of a linked configuration is what
\* the file and the store say, whatever the form shows.
Build ==
    /\ At("build")
    /\ LET next == IF op.kind = "recase" THEN "aside" ELSE "store" IN
       IF op.kind # "create" /\ Linked(op.p)
       THEN /\ op' = [op EXCEPT !.pc = next, !.id = op.was.id,
                                !.pw = IF op.held # None THEN op.held ELSE op.was.id]
            /\ UNCHANGED made
       ELSE /\ op' = [op EXCEPT !.pc = next, !.id = made + 1, !.pw = made + 1]
            /\ made' = made + 1
    /\ UNCHANGED <<file, aside, store, list, record, saved, address, fetching, faults, kept,
                   amiss>>

(* ownerConfigPathForSave(), of a name in which only the letter case is new: *)
(* the file takes it through a name of the moment, and keeps the old one,    *)
(* as in any edit, when that fails.                                          *)

KeepsItsName == op' = [op EXCEPT !.pc = "store", !.kind = "edit"]

FilePutAside ==
    /\ At("aside")
    /\ \/ /\ Works
          /\ file' = [file EXCEPT ![op.p] = NoFile]
          /\ aside' = aside \union {op.was}
          /\ Goto("rename")
       \/ Fails("disk") /\ KeepsItsName /\ UNCHANGED <<file, aside>>
    /\ UNCHANGED <<store, list, record, saved, address, fetching, made, kept, amiss>>

FileTakesName ==
    /\ At("rename")
    /\ \/ /\ Works
          /\ file' = [file EXCEPT ![op.t] = op.was]
          /\ aside' = aside \ {op.was}
          /\ Goto("store")
       \/ Fails("disk") /\ Goto("unrename") /\ UNCHANGED <<file, aside>>
    /\ UNCHANGED <<store, list, record, saved, address, fetching, made, kept, amiss>>

FilePutBack ==
    /\ At("unrename")
    /\ \/ /\ Works
          /\ file' = [file EXCEPT ![op.p] = op.was]
          /\ aside' = aside \ {op.was}
          /\ UNCHANGED amiss
       \/ Fails("undo") /\ LeavesAmiss({op.p}) /\ UNCHANGED <<file, aside>>
    /\ KeepsItsName
    /\ UNCHANGED <<store, list, record, saved, address, fetching, made, kept>>

(* saveConfigWithPassword(): the new file staged, the password stored and   *)
(* read back, and only then the file put in place; the store is put back    *)
(* when that fails.                                                         *)

SaveStores ==
    /\ At("store")
    /\ \/ Works /\ store' = [store EXCEPT ![op.t] = op.pw]
       \/ Fails("store") /\ UNCHANGED store
    /\ Goto("verify")
    /\ UNCHANGED <<file, aside, list, record, saved, address, fetching, made, kept, amiss>>

\* What the store holds for the file a save goes over: passwordStoredFor().
Previous == IF op.kind \in {"edit", "recase", "apply"} THEN op.held ELSE None

SaveVerifies ==
    /\ At("verify")
    /\ IF store[op.t] = op.pw THEN Goto("commit") ELSE Done
    /\ UNCHANGED <<file, aside, store, list, record, saved, address, fetching, made, faults,
                   kept, amiss>>

SaveCommits ==
    /\ At("commit")
    /\ \/ /\ Works
          /\ file' = [file EXCEPT ![op.t] = [id |-> op.id, bare |-> FALSE, inline |-> FALSE]]
          /\ Instead({op.was.id, file[op.p].id}, op.id)
          /\ CASE op.kind = "apply"                -> Done
               [] op.kind \in {"rename", "recase"} -> Goto("forgetOld")
               [] OTHER                            -> Goto("persist")
       \/ /\ Fails("disk")
          /\ Goto("restore")
          /\ UNCHANGED <<file, kept>>
    /\ UNCHANGED <<aside, store, list, record, saved, address, fetching, made, amiss>>

\* restorePassword(), which does not look at what the store answers.
SaveRestores ==
    /\ At("restore")
    /\ \/ Works /\ store' = [store EXCEPT ![op.t] = Previous] /\ UNCHANGED amiss
       \/ Fails("undo") /\ LeavesAmiss({op.t}) /\ UNCHANGED store
    /\ Done
    /\ UNCHANGED <<file, aside, list, record, saved, address, fetching, made, kept>>

\* forgetOldPassword(): where the store takes both spellings for one key the
\* deletion took the new entry too, and it is stored again.
ForgetsOldPassword ==
    /\ At("forgetOld")
    /\ \/ Works /\ store' = [store EXCEPT ![op.p] = None] /\ UNCHANGED amiss
       \/ Fails("delete") /\ LeavesAmiss({op.p}) /\ UNCHANGED store
    /\ Goto(IF op.kind = "recase" THEN "storeAgain" ELSE "persist")
    /\ UNCHANGED <<file, aside, list, record, saved, address, fetching, made, kept>>

StoresAgain ==
    /\ At("storeAgain")
    /\ \/ Works /\ store' = [store EXCEPT ![op.t] = op.pw] /\ UNCHANGED amiss
       \/ Fails("undo") /\ LeavesAmiss({op.t}) /\ UNCHANGED store
    /\ Goto("persist")
    /\ UNCHANGED <<file, aside, list, record, saved, address, fetching, made, kept>>

\* persistCreatedConfigPaths(): the old file goes, the row is renamed, and with
\* it the link to a subscription, whose fetch is let go.  The link stays where
\* the row could not be saved.
Moves == op.p # op.t

OldFileGoes == file' = IF Moves THEN [file EXCEPT ![op.p] = NoFile] ELSE file

RowIsSaved == list' = (IF Moves THEN list \ {op.p} ELSE list) \union {op.t}

LinkMoves ==
    IF Moves /\ Linked(op.p)
    THEN /\ record' = [record EXCEPT ![op.t] = record[op.p], ![op.p] = None]
         /\ fetching' = fetching \ {op.p}
    ELSE UNCHANGED <<record, fetching>>

Persists ==
    /\ At("persist")
    /\ \/ /\ Works
          /\ OldFileGoes /\ RowIsSaved /\ LinkMoves
          /\ saved' = IF Moves /\ Linked(op.p) THEN record' ELSE saved
          /\ UNCHANGED amiss
       \/ /\ Fails("delete")
          /\ Moves
          /\ RowIsSaved /\ LinkMoves
          /\ saved' = IF Linked(op.p) THEN record' ELSE saved
          /\ LeavesAmiss({op.p})
          /\ UNCHANGED file
       \/ /\ Fails("unsaved")
          /\ op.t \notin list
          /\ OldFileGoes
          /\ LeavesAmiss({op.p, op.t})
          /\ UNCHANGED <<list, record, saved, fetching>>
       \/ /\ Fails("unsaved")
          /\ Moves /\ Linked(op.p)
          /\ OldFileGoes /\ RowIsSaved /\ LinkMoves
          /\ UNCHANGED <<saved, amiss>>
    /\ Done
    /\ UNCHANGED <<aside, store, address, made, kept>>

-----------------------------------------------------------------------------
(* Imports: a link, an export or a file; or a subscription's server, whose *)
(* address goes into the store first and its record last.                  *)

\* kind is "import" or "replace", of a plain or a bare link, or a subscription.
BeginImport(kind, p, what) ==
    /\ kind \in Operations
    /\ what \in Operations
    /\ (kind = "replace") = Exists(p)
    /\ made + 2 <= MaxMade
    /\ made' = made + (IF what = "subscription" THEN 2 ELSE 1)
    /\ Starts([kind |-> kind, p |-> p, t |-> p, id |-> made + 1, pw |-> made + 1,
               bare |-> what = "bare", was |-> file[p], held |-> None,
               sid |-> IF what = "subscription" THEN made + 2 ELSE None, old |-> None,
               pc |-> CASE what = "subscription"              -> "address"
                        [] what = "bare" /\ kind = "replace" -> "drop"
                        [] OTHER                              -> "write"])
    /\ UNCHANGED <<file, aside, store, list, record, saved, address, fetching, faults, kept>>

Replacing == op.was # NoFile

\* storeAddress(): stored, read back, and taken out again when that fails.
AddressStored ==
    /\ At("address")
    /\ \/ Works /\ address' = address \union {op.sid}
       \/ Fails("store") /\ UNCHANGED address
    /\ Goto("readAddress")
    /\ UNCHANGED <<file, aside, store, list, record, saved, fetching, made, kept, amiss>>

AddressRead ==
    /\ At("readAddress")
    /\ Goto(IF op.sid \in address THEN "write" ELSE "noAddress")
    /\ UNCHANGED <<file, aside, store, list, record, saved, address, fetching, made, faults,
                   kept, amiss>>

\* deleteAddress(), which does not look at what the store answers.
DeletesAddress(sid) ==
    \/ Works /\ address' = address \ {sid} /\ UNCHANGED amiss
    \/ Fails("delete") /\ sid \in address /\ LeavesAmiss({sid}) /\ UNCHANGED address

\* An import that cannot go on.
AddressUndone ==
    /\ At("noAddress") \/ At("undo")
    /\ DeletesAddress(op.sid)
    /\ Done
    /\ UNCHANGED <<file, aside, store, list, record, saved, fetching, made, kept>>

\* Mutant: it inherits it.
PasswordDroppedNot ==
    /\ At("drop")
    /\ Goto("write")
    /\ UNCHANGED <<file, aside, store, list, record, saved, address, fetching, made, faults,
                   kept, amiss>>

\* A link with no password of its own must not inherit the one at this path.
PasswordDropped ==
    /\ At("drop")
    /\ \/ Works /\ store' = [store EXCEPT ![op.t] = None] /\ UNCHANGED amiss
       \/ Fails("delete") /\ LeavesAmiss({op.t}) /\ UNCHANGED store
    /\ Goto("write")
    /\ UNCHANGED <<file, aside, list, record, saved, address, fetching, made, kept>>

GivesUp == IF op.sid # None THEN Goto("undo") ELSE Done

Written(inline) == [id |-> op.id, bare |-> op.bare, inline |-> inline]

\* writeConfigFile(), with the password in it.
ImportWrites ==
    /\ At("write")
    /\ \/ /\ Works
          /\ file' = [file EXCEPT ![op.t] = Written(~op.bare)]
          /\ Instead({op.was.id, file[op.t].id}, op.id)
          /\ Goto(IF op.bare THEN "strip" ELSE "migrate")
       \/ /\ Fails("disk")
          /\ GivesUp
          /\ UNCHANGED <<file, kept>>
    /\ UNCHANGED <<aside, store, list, record, saved, address, fetching, made, amiss>>

\* migrateConfigPassword(), first half: the password goes into the store.
ImportMigrates ==
    /\ At("migrate")
    /\ \/ /\ Works
          /\ store' = [store EXCEPT ![op.t] = op.pw]
          /\ Goto("strip")
       \/ /\ Fails("store")
          /\ Goto("putBack")
          /\ UNCHANGED store
    /\ UNCHANGED <<file, aside, list, record, saved, address, fetching, made, kept, amiss>>

\* A new file is removed, one that was replaced is written back, and neither is
\* asked about.
PutsBack ==
    /\ At("putBack")
    /\ \/ /\ Works
          /\ file' = [file EXCEPT ![op.t] = op.was]
          /\ UNCHANGED amiss
       \/ /\ Fails("undo")
          /\ LeavesAmiss(IF Replacing THEN {op.was.id} ELSE {op.t})
          /\ UNCHANGED file
    /\ Instead({op.id, file[op.t].id}, op.was.id)
    /\ GivesUp
    /\ UNCHANGED <<aside, store, list, record, saved, address, fetching, made>>

FileStripped ==
    IF op.bare
    THEN UNCHANGED <<file, kept>>
    ELSE /\ file' = [file EXCEPT ![op.t] = Written(FALSE)]
         /\ Instead({file[op.t].id}, op.id)

\* The subscription of a configuration that is replaced is forgotten.
SourceForgotten ==
    IF Replacing /\ Linked(op.t)
    THEN /\ record' = [record EXCEPT ![op.t] = None]
         /\ fetching' = fetching \ {op.t}
         /\ op' = [op EXCEPT !.pc = "dropOld", !.old = record[op.t]]
    ELSE /\ IF op.sid # None THEN Goto("link") ELSE Done
         /\ UNCHANGED <<record, fetching>>

RecordsAfter == IF Replacing /\ Linked(op.t) THEN record' ELSE saved

\* Second half, the file without it, then the row, then what it came from.
ImportStrips ==
    /\ At("strip")
    /\ \/ /\ Works
          /\ FileStripped /\ SourceForgotten
          /\ list' = list \union {op.t}
          /\ saved' = RecordsAfter
          /\ UNCHANGED amiss
       \/ /\ Fails("unsaved")
          /\ op.t \notin list
          /\ FileStripped /\ SourceForgotten
          /\ saved' = RecordsAfter
          /\ LeavesAmiss({op.t})
          /\ UNCHANGED list
       \/ /\ Fails("unsaved")
          /\ Replacing /\ Linked(op.t)
          /\ FileStripped /\ SourceForgotten
          /\ list' = list \union {op.t}
          /\ LeavesAmiss({record[op.t]})
          /\ UNCHANGED saved
       \/ /\ Fails("disk")
          /\ ~op.bare
          /\ Goto("putBack")
          /\ UNCHANGED <<file, list, record, saved, fetching, kept, amiss>>
    /\ UNCHANGED <<aside, store, address, made>>

\* dropAddressUnlessShared(): no two records share one here.
DropsOldAddress ==
    /\ At("dropOld")
    /\ DeletesAddress(op.old)
    /\ IF op.kind = "remove" THEN Goto("finish")
       ELSE IF op.sid # None THEN Goto("link") ELSE Done
    /\ UNCHANGED <<file, aside, store, list, record, saved, fetching, made, kept>>

\* link(): the record, which is taken back when it cannot be saved.
Links ==
    /\ At("link")
    /\ \/ /\ Works
          /\ record' = [record EXCEPT ![op.t] = op.sid]
          /\ saved' = record'
          /\ Done
       \/ /\ Fails("records")
          /\ Goto("undo")
          /\ UNCHANGED <<record, saved>>
    /\ UNCHANGED <<file, aside, store, list, address, fetching, made, kept, amiss>>

-----------------------------------------------------------------------------
(* Removing a configuration, and detaching one from its subscription.      *)

BeginRemove(p) ==
    /\ p \in list
    /\ Begin("remove", p, p, "delete")
    /\ kept' = kept \ {file[p].id}
    /\ UNCHANGED <<file, aside, store, list, record, saved, address, fetching, made, faults>>

BeginDetach(p) ==
    /\ Linked(p)
    /\ Begin("detach", p, p, "forget")
    /\ UNCHANGED <<file, aside, store, list, record, saved, address, fetching, made, faults,
                   kept>>

RemoveDeletes ==
    /\ At("delete")
    /\ \/ Works /\ store' = [store EXCEPT ![op.p] = None] /\ UNCHANGED amiss
       \/ Fails("delete") /\ LeavesAmiss({op.p}) /\ UNCHANGED store
    /\ Goto("forget")
    /\ UNCHANGED <<file, aside, list, record, saved, address, fetching, made, kept>>

\* Mutant: the address goes before the record that names it.
ForgetsAddressFirst ==
    /\ At("forget")
    /\ fetching' = fetching \ {op.p}
    /\ IF Linked(op.p) /\ record[op.p] \in address
       THEN /\ address' = address \ {record[op.p]}
            /\ UNCHANGED <<op, record, saved>>
       ELSE /\ record' = [record EXCEPT ![op.p] = None]
            /\ saved' = record'
            /\ op' = [op EXCEPT !.pc = "dropOld", !.old = record[op.p]]
            /\ UNCHANGED address
    /\ UNCHANGED <<file, aside, store, list, made, faults, kept, amiss>>

\* forget(): the fetch let go, the record out of the file, then the address.
\* That the record could not be saved stops nothing.
Forgets ==
    /\ At("forget")
    /\ fetching' = fetching \ {op.p}
    /\ IF Linked(op.p)
       THEN /\ record' = [record EXCEPT ![op.p] = None]
            /\ op' = [op EXCEPT !.pc = "dropOld", !.old = record[op.p]]
            /\ \/ Works /\ saved' = record' /\ UNCHANGED amiss
               \/ Fails("unsaved") /\ LeavesAmiss({record[op.p]}) /\ UNCHANGED saved
       ELSE /\ Works
            /\ IF op.kind = "remove" THEN Goto("finish") ELSE Done
            /\ UNCHANGED <<record, saved, amiss>>
    /\ UNCHANGED <<file, aside, store, list, address, made, kept>>

Removed ==
    /\ At("finish")
    /\ \/ /\ Works
          /\ file' = [file EXCEPT ![op.p] = NoFile]
          /\ list' = list \ {op.p}
          /\ UNCHANGED amiss
       \/ /\ Fails("delete")
          /\ list' = list \ {op.p}
          /\ LeavesAmiss({op.p})
          /\ UNCHANGED file
       \/ /\ Fails("unsaved")
          /\ file' = [file EXCEPT ![op.p] = NoFile]
          /\ LeavesAmiss({op.p})
          /\ UNCHANGED list
    /\ Done
    /\ UNCHANGED <<aside, store, record, saved, address, fetching, made, kept>>

-----------------------------------------------------------------------------
(* Refreshes.                                                              *)

\* startSubscriptionRefresh(), by the scheduler, at any time.
FetchStarts(p) ==
    /\ "fetch" \in Happens
    /\ Linked(p)
    /\ record[p] \in address
    /\ p \notin fetching
    /\ made + 2 <= MaxMade
    /\ fetching' = fetching \union {p}
    /\ UNCHANGED <<file, aside, store, list, record, saved, address, op, made, faults, kept,
                   amiss>>

\* subscriptionUpdateWaits(): the editor has it open. isBusy(): being applied.
Waits(p) == \/ op # Idle /\ op.kind \in {"edit", "recase", "rename"} /\ op.p = p
            \/ op # Idle /\ op.kind = "apply" /\ op.p = p

\* A document is in, and nothing runs: applySubscriptionUpdate(), call by call.
BeginApply(p) ==
    /\ p \in fetching
    /\ made < MaxMade
    /\ fetching' = fetching \ {p}
    /\ made' = made + 1
    /\ Starts([kind |-> "apply", pc |-> "store", p |-> p, t |-> p, id |-> made + 1,
               pw |-> made + 1, bare |-> FALSE, was |-> file[p], held |-> store[p],
               sid |-> None, old |-> None])
    /\ UNCHANGED <<file, aside, store, list, record, saved, address, faults, kept>>

\* One comes in under another operation's call: applied straight through.
AppliedMeanwhile(p) ==
    /\ p \in fetching
    /\ op # Idle
    /\ Linked(p)
    /\ ~Waits(p)
    /\ made < MaxMade
    /\ fetching' = fetching \ {p}
    /\ made' = made + 1
    /\ store' = [store EXCEPT ![p] = made + 1]
    /\ file' = [file EXCEPT ![p] = [id |-> made + 1, bare |-> FALSE, inline |-> FALSE]]
    /\ kept' = IF file[p].id \in kept THEN (kept \ {file[p].id}) \union {made + 1} ELSE kept
    /\ UNCHANGED <<aside, list, record, saved, address, op, faults, amiss>>

\* The document is unusable, says nothing new, or has to wait.
FetchComesToNothing(p) ==
    /\ p \in fetching
    /\ fetching' = fetching \ {p}
    /\ UNCHANGED <<file, aside, store, list, record, saved, address, op, made, faults, kept,
                   amiss>>

-----------------------------------------------------------------------------
\* The program dies, and starts again: start() lets go of the records whose
\* configuration is not in the list, and of their addresses.
Restart ==
    /\ "crash" \in Happens
    /\ faults < MaxFaults /\ faults' = faults + 1
    /\ op' = Idle
    /\ fetching' = {}
    /\ record' = [p \in Paths |-> IF p \in list THEN saved[p] ELSE None]
    /\ saved' = record'
    /\ address' = address \ {saved[p] : p \in Paths \ list}
    /\ UNCHANGED <<file, aside, store, list, made, kept, amiss>>

\* One configuration is there, which follows a subscription when one can.
Init == \E p \in Paths :
    /\ file = [q \in Paths |-> IF q = p THEN [id |-> 1, bare |-> FALSE, inline |-> FALSE] ELSE NoFile]
    /\ store = [q \in Paths |-> IF q = p THEN 1 ELSE None]
    /\ list = {p}
    /\ record = [q \in Paths |-> IF q = p /\ "fetch" \in Happens THEN 2 ELSE None]
    /\ saved = record
    /\ address = {record[q] : q \in Paths} \ {None}
    /\ fetching = {} /\ op = Idle /\ made = 2 /\ faults = 0 /\ kept = {1}
    /\ aside = {} /\ amiss = {}

Save == \/ \E k \in {"create", "edit", "rename", "recase"}, p, t \in Paths : BeginSave(k, p, t)
        \/ Snapshot \/ Build \/ FilePutAside \/ FileTakesName \/ FilePutBack
        \/ SaveStores \/ SaveVerifies \/ SaveCommits \/ SaveRestores
        \/ ForgetsOldPassword \/ StoresAgain \/ Persists

Import == \/ \E k \in {"import", "replace"}, p \in Paths, w \in {"plain", "bare", "subscription"} :
                BeginImport(k, p, w)
          \/ AddressStored \/ AddressRead \/ AddressUndone \/ PasswordDropped
          \/ ImportWrites \/ ImportMigrates \/ ImportStrips \/ PutsBack \/ DropsOldAddress
          \/ Links

Remove == \/ \E p \in Paths : BeginRemove(p) \/ BeginDetach(p)
          \/ RemoveDeletes \/ Forgets \/ Removed

Refresh == \E p \in Paths : \/ FetchStarts(p) \/ BeginApply(p) \/ AppliedMeanwhile(p)
                            \/ FetchComesToNothing(p)

Next == Save \/ Import \/ Remove \/ Refresh \/ Restart

Spec == Init /\ [][Next]_vars

-----------------------------------------------------------------------------
(* What must be right, but for what is amiss.                              *)

\* Between operations the password a configuration is connected with is the one
\* that belongs to the server its file names, and it has one whenever it came
\* with one (BackendConfigShared.cpp:110-143, BackendConfigImport.cpp:204-214).
PasswordGoesWithServer ==
    op = Idle => \A p \in list \ amiss : Exists(p) => PasswordSent(p) = OwnPassword(p)

\* Between operations nothing is kept of a configuration that is not listed: no
\* file, no password, no record (tests/test_backend_config.cpp:547-548).
RemovedLeavesNothing ==
    op = Idle => \A p \in Paths \ (list \union amiss) :
        ~Exists(p) /\ store[p] = None /\ record[p] = None

\* Between operations the addresses in the store are exactly those the records
\* name: none is left that nothing would ever delete, and none is missing
\* (BackendSubscriptions.cpp:294-297).
AddressesBelong ==
    op = Idle => address \ amiss = {record[p] : p \in Paths} \ ({None} \union amiss)

\* At every moment, crashes included, the record on disk of a listed
\* configuration has its address in the store, so what is linked can be refreshed
\* after any restart (SubscriptionController.cpp:148-160, Backend's order of
\* BackendSubscriptions.cpp:294-297).
RecordHasItsAddress ==
    \A p \in list : saved[p] # None => saved[p] \in address \union amiss

\* At every moment, crashes included, each server the user was promised is in
\* some file, the one under a name of the moment included: an edit, a rename or a
\* replacement that fails or is cut short costs no configuration
\* (BackendConfigShared.cpp:113-119, ConfigPaths.cpp:250-256).
NothingLost ==
    \A id \in kept \ amiss : \/ \E p \in Paths : file[p].id = id
                             \/ \E f \in aside : f.id = id
=============================================================================
