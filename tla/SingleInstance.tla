--------------------------- MODULE SingleInstance ---------------------------
(***************************************************************************)
(* One FreeTunnel per user: what a launch does to find the instance that   *)
(* runs, to hand it a command, or to become the instance itself, with the  *)
(* token both sides read from the credential store, the update that hands  *)
(* the name over to a new build, quits and crashes.                        *)
(* (core/InstanceControl.cpp, app/AppGuiMain.cpp, app/AppStartup.cpp and   *)
(* the AppImage half of app/BackendUpdates.cpp.)                           *)
(*                                                                         *)
(* Every member of Procs is one launch, and lives once. A token is the     *)
(* name of the process that made it. What another account holds at a name  *)
(* is "open" (it answers) or "mute" (its backlog is kept full).            *)
(***************************************************************************)
EXTENDS Naturals, Sequences, FiniteSets

CONSTANTS
    Procs,          \* the launches there may be, one process each
    BusyIsRefused,  \* macOS: a full backlog refuses as a stale file does
    Foreign,        \* what other accounts hold: a function on some names
    Incidents         \* what the environment may do

NoToken == "no token"
Nobody == "nobody"
Stale == "stale"

SingleInstanceAssumption ==
    /\ {NoToken, Nobody, Stale, "open", "mute"} \cap Procs = {}
    /\ BusyIsRefused \in BOOLEAN
    /\ DOMAIN Foreign \subseteq {"temp", "shared"}
    /\ \A n \in DOMAIN Foreign : Foreign[n] \in {"open", "mute"}
    /\ Incidents \subseteq {"overlap", "login", "busy", "crash", "quit",
                          "update", "lock", "disk"}
    /\ BusyIsRefused => "update" \notin Incidents \* an AppImage is of Linux

ASSUME LaunchConstants == SingleInstanceAssumption

Names == {"runtime", "temp", "shared"}
Tokens == Procs \cup {NoToken}

VARIABLES
    loggedIn,    \* whether this user has a runtime directory
    holder,     \* whose socket file each name is
    claim,      \* who holds the lock beside each name (macOS)
    keyring,    \* the token in the credential store
    file,       \* the token in the fallback file
    locked,     \* the credential store refuses every call
    pc,         \* where each process is
    own,        \* the name each process takes for this user's
    nth,        \* which of the names it asks next
    has,        \* the token a launch read
    to,         \* the instance it is connected to
    mine,       \* the token an instance checks commands against
    listening,  \* the process's listener is open
    waiting,      \* the connections it has not looked at: who, with what token
    stalled,       \* its event loop is stuck and its backlog full
    restoring,  \* where it is in putting its token back
    recheck,    \* the look at its token after start is still to come
    handedOver, \* it gave its name to a new build that started
    ran,        \* history: the launches whose command was acted on
    dropped     \* history: those whose connection a closing instance dropped

world == <<loggedIn, holder, claim>>
store == <<keyring, file, locked>>
asking == <<own, nth, has, to>>
serving == <<mine, listening, waiting, stalled, restoring, recheck, handedOver>>
history == <<ran, dropped>>
launch_vars == <<world, store, pc, asking, serving, history>>

Sending == {"send", "send again"}
Asking == {"read", "move", "ask", "again"} \cup Sending
Becoming == {"token", "listen"}
Instance == Becoming \cup {"loading", "up", "swapping"}
Leaving == {"leaving", "compare", "delete"}
Over == {"told", "gave up", "gone", "crashed"}

\* The names a launch asks: this user's own, then the ones older starts used.
Try(p) == IF own[p] = "runtime" THEN <<"runtime", "temp", "shared">>
                                ELSE <<"temp", "shared">>

Alive(p) == pc[p] \notin Over \cup {"off"}

\* The token where a launch would find it: the store's, or the file's when the
\* store gives none.
Loaded == IF locked THEN NoToken ELSE keyring
StoredToken == IF Loaded # NoToken THEN Loaded ELSE file

\* Whether a launch may begin or a name change hands now: without "overlap",
\* only while no other launch is between its first look and its own listener.
NoneStarting ==
    \/ "overlap" \in Incidents
    \/ \A p \in Procs : pc[p] \notin Asking \cup Becoming \cup {"swapping"}

Goto(p, l) == pc' = [pc EXCEPT ![p] = l]

\* storeInstanceAuthToken: the store, and without it the file.
StoreToken(t) ==
    \/ ~locked /\ keyring' = t /\ file' = NoToken /\ UNCHANGED locked
    \/ locked /\ file' = t /\ UNCHANGED <<keyring, locked>>

-----------------------------------------------------------------------------
(* A launch looks for the instance.                                        *)

Launch(p) ==
    /\ pc[p] = "off" /\ NoneStarting
    /\ Goto(p, "read")
    /\ own' = [own EXCEPT ![p] = IF loggedIn THEN "runtime" ELSE "temp"]
    /\ UNCHANGED <<world, store, nth, has, to, serving, history>>

\* readInstanceAuthToken: the store's token, which makes the file a leftover.
ReadToken(p) ==
    /\ pc[p] = "read"
    /\ has' = [has EXCEPT ![p] = StoredToken]
    /\ IF Loaded # NoToken
       THEN file' = NoToken /\ Goto(p, "ask")
       ELSE UNCHANGED file /\ Goto(p, IF file = NoToken THEN "ask" ELSE "move")
    /\ UNCHANGED <<world, keyring, locked, own, nth, to, serving, history>>

\* A token found in the file moves to a store that takes it.
MoveToken(p) ==
    /\ pc[p] = "move"
    /\ IF locked THEN UNCHANGED <<keyring, file>>
                 ELSE keyring' = has[p] /\ file' = NoToken
    /\ Goto(p, "ask")
    /\ UNCHANGED <<world, locked, asking, serving, history>>

\* Whether a process that still runs holds the lock beside a name.
ALiveInstanceClaims(n) == claim[n] # Nobody /\ Alive(claim[n])

\* localSocketPeerIsSameUser: who answers is asked for, at both ends.
PeerIsSameUser(n) == holder[n] # "open"

\* What a connection to a name meets.
Meets(n) ==
    CASE holder[n] = Nobody -> "nothing"
      [] holder[n] = Stale -> "refusal"
      [] ~PeerIsSameUser(n) -> "a stranger"
      [] holder[n] = "mute" -> "silence"
      [] OTHER -> IF ~stalled[holder[n]] THEN "ours"
                  ELSE IF BusyIsRefused THEN "refusal" ELSE "silence"

\* heldByThisUser: another account's file is not this user's, whatever it does.
HeldByThisUser(n) == holder[n] \notin {"open", "mute"}

\* refusedByABusyInstanceOfOurs: where busy and stale look alike, a running
\* process's claim on the name tells them apart.
RefusedByABusyOne(n) ==
    Meets(n) = "refusal" /\ BusyIsRefused /\ ALiveInstanceClaims(n)

\* Mutant: a failed connection is never an instance of ours.
NothingIsUnreachable(p) == FALSE

\* whatAFailedConnectMeans: a launch gives way only at this user's own name.
MeansUnreachable(p) ==
    LET n == Try(p)[nth[p]]
    IN  /\ nth[p] = 1
        /\ HeldByThisUser(n)
        /\ Meets(n) = "silence" \/ RefusedByABusyOne(n)

Looking == {"ask", "again"}

\* No instance at this name: the next one, or this launch is the instance.
NoInstance(p) ==
    /\ pc[p] \in Looking
    /\ Meets(Try(p)[nth[p]]) # "ours" /\ ~MeansUnreachable(p)
    /\ IF nth[p] < Len(Try(p))
       THEN nth' = [nth EXCEPT ![p] = @ + 1] /\ Goto(p, "ask")
       ELSE UNCHANGED nth /\ Goto(p, "token")
    /\ UNCHANGED <<world, store, own, has, to, serving, history>>

\* One of ours is there and cannot be told: never start beside it.
GiveWay(p) ==
    /\ pc[p] \in Looking
    /\ MeansUnreachable(p)
    /\ Goto(p, "gave up")
    /\ UNCHANGED <<world, store, asking, serving, history>>

Say(q, p, t) == waiting' = [waiting EXCEPT ![q] = Append(@, [from |-> p, token |-> t])]

\* One of ours is there, and without the token it can be told nothing: it sees
\* a connection opened and closed.
NothingToShow(p) ==
    LET n == Try(p)[nth[p]]
    IN  /\ pc[p] \in Looking
        /\ Meets(n) = "ours" /\ has[p] = NoToken
        /\ Say(holder[n], p, NoToken)
        /\ Goto(p, "gave up")
        /\ UNCHANGED <<world, store, asking, mine, listening, stalled, restoring,
                       recheck, handedOver, history>>

\* connectToInstance, with nothing sent yet.
Connect(p) ==
    LET n == Try(p)[nth[p]]
    IN  /\ pc[p] \in Looking
        /\ Meets(n) = "ours" /\ has[p] # NoToken
        /\ to' = [to EXCEPT ![p] = holder[n]]
        /\ Goto(p, IF pc[p] = "ask" THEN "send" ELSE "send again")
        /\ UNCHANGED <<world, store, own, nth, has, serving, history>>

\* handOverInstanceMessage: the kernel takes the message while the listener is
\* open, and this launch is done.
Taken(p) ==
    /\ pc[p] \in Sending /\ listening[to[p]]
    /\ Say(to[p], p, has[p])
    /\ Goto(p, "told")
    /\ UNCHANGED <<world, store, asking, mine, listening, stalled, restoring,
                   recheck, handedOver, history>>

\* The instance closed before it read: asked again, once.
Refused(p) ==
    /\ pc[p] \in Sending /\ ~listening[to[p]]
    /\ Goto(p, IF pc[p] = "send" THEN "again" ELSE "gave up")
    /\ UNCHANGED <<world, store, asking, serving, history>>

-----------------------------------------------------------------------------
(* A launch becomes the instance.                                          *)

\* removeStaleInstanceServer: only a name that refuses, and that no running
\* instance claims.
Removable(n) == Meets(n) = "refusal" /\ ~RefusedByABusyOne(n)

\* startSingleInstanceServer, to the token: it may not be stored anywhere.
WriteToken(p) ==
    /\ pc[p] = "token"
    /\ holder' = [holder EXCEPT ![own[p]] = IF Removable(own[p]) THEN Nobody ELSE @]
    /\ \/ StoreToken(p) /\ mine' = [mine EXCEPT ![p] = p]
       \/ /\ locked /\ "disk" \in Incidents
          /\ UNCHANGED <<store, mine>>
    /\ Goto(p, "listen")
    /\ UNCHANGED <<loggedIn, claim, asking, listening, waiting, stalled, restoring,
                   recheck, handedOver, history>>

\* listen() renames its socket over whatever this user's file holds the name;
\* another account's file in the sticky /tmp it cannot replace.
Listens(p) ==
    IF HeldByThisUser(own[p])
    THEN /\ holder' = [holder EXCEPT ![own[p]] = p]
         /\ listening' = [listening EXCEPT ![p] = TRUE]
    ELSE UNCHANGED <<holder, listening>>

\* claimInstanceName, and the listener.
Listen(p) ==
    /\ pc[p] = "listen"
    /\ claim' = [claim EXCEPT ![own[p]] =
                    IF BusyIsRefused /\ ~ALiveInstanceClaims(own[p]) THEN p ELSE @]
    /\ Listens(p)
    /\ Goto(p, "loading")
    /\ UNCHANGED <<loggedIn, store, asking, mine, waiting, stalled, restoring, recheck,
                   handedOver, history>>

\* wireInstanceServer, at the end of start.
Wire(p) ==
    /\ pc[p] = "loading" /\ ~stalled[p]
    /\ Goto(p, "up")
    /\ recheck' = [recheck EXCEPT ![p] = TRUE]
    /\ UNCHANGED <<world, store, asking, mine, listening, waiting, stalled, restoring,
                   handedOver, history>>

-----------------------------------------------------------------------------
(* The instance.                                                           *)

IsUp(p) == pc[p] = "up" /\ ~stalled[p]

\* Its thread is free to go on with what a call of the store held up.
Turns(p) == pc[p] \in {"up", "leaving"} /\ ~stalled[p]

\* keepInstanceTokenStored: only while this instance listens.
KeepTokenStored(p) ==
    restoring' = [restoring EXCEPT ![p] =
        IF listening[p] /\ mine[p] # NoToken /\ @ = "no" THEN "look" ELSE @]

\* handleInstanceConnection's deliver.
Deliver(p) ==
    /\ IsUp(p) /\ waiting[p] # <<>>
    /\ waiting' = [waiting EXCEPT ![p] = Tail(@)]
    /\ LET c == Head(waiting[p])
       IN  IF mine[p] # NoToken /\ c.token = mine[p]
           THEN ran' = ran \cup {c.from} /\ UNCHANGED restoring
           ELSE KeepTokenStored(p) /\ UNCHANGED ran
    /\ UNCHANGED <<world, store, pc, asking, mine, listening, stalled, recheck,
                   handedOver, dropped>>

\* The look at its token some seconds after start.
Recheck(p) ==
    /\ IsUp(p) /\ recheck[p]
    /\ recheck' = [recheck EXCEPT ![p] = FALSE]
    /\ KeepTokenStored(p)
    /\ UNCHANGED <<world, store, pc, asking, mine, listening, waiting, stalled,
                   handedOver, history>>

\* restoreInstanceAuthToken, two calls to the store: the event loop turns while
\* each is out, and an instance on its way out waits for both.
RestoreLooks(p) ==
    /\ restoring[p] = "look" /\ Turns(p)
    /\ restoring' = [restoring EXCEPT ![p] =
                        IF StoredToken = mine[p] THEN "no" ELSE "write"]
    /\ UNCHANGED <<world, store, pc, asking, mine, listening, waiting, stalled,
                   recheck, handedOver, history>>

RestoreWrites(p) ==
    /\ restoring[p] = "write" /\ Turns(p)
    /\ restoring' = [restoring EXCEPT ![p] = "no"]
    /\ \/ StoreToken(mine[p])
       \/ locked /\ "disk" \in Incidents /\ UNCHANGED store
    /\ UNCHANGED <<world, pc, asking, mine, listening, waiting, stalled, recheck,
                   handedOver, history>>

\* QLocalServer::close(): the name is unlinked whoever holds it by now, and the
\* connections not accepted yet are dropped.
CloseListener(p) ==
    /\ listening' = [listening EXCEPT ![p] = FALSE]
    /\ waiting' = [waiting EXCEPT ![p] = <<>>]
    /\ dropped' = dropped \cup {waiting[p][i].from : i \in DOMAIN waiting[p]}
    /\ holder' = [holder EXCEPT ![own[p]] = IF listening[p] THEN Nobody ELSE @]

Quit(p) ==
    /\ "quit" \in Incidents /\ IsUp(p)
    /\ Goto(p, "leaving")
    /\ UNCHANGED <<world, store, asking, serving, history>>

\* aboutToQuit: stop listening before the token goes, and leave the token to a
\* new build that has the name.
StopListening(p) ==
    /\ pc[p] = "leaving" /\ restoring[p] = "no"
    /\ CloseListener(p)
    /\ claim' = [n \in Names |-> IF claim[n] = p THEN Nobody ELSE claim[n]]
    /\ Goto(p, IF handedOver[p] THEN "gone" ELSE "compare")
    /\ UNCHANGED <<loggedIn, store, asking, mine, stalled, restoring, recheck,
                   handedOver, ran>>

\* removeInstanceAuthToken: with no token of its own there is none to compare.
Compare(p) ==
    /\ pc[p] = "compare"
    /\ Goto(p, IF mine[p] # NoToken /\ StoredToken # mine[p] THEN "gone" ELSE "delete")
    /\ UNCHANGED <<world, store, asking, serving, history>>

Delete(p) ==
    /\ pc[p] = "delete"
    /\ keyring' = IF locked THEN keyring ELSE NoToken
    /\ file' = NoToken
    /\ Goto(p, "gone")
    /\ UNCHANGED <<world, locked, asking, serving, history>>

\* applyLinuxUpdate: the new file is in place, and the name is given up.
GiveUpTheName(p) ==
    /\ "update" \in Incidents /\ IsUp(p) /\ NoneStarting
    /\ CloseListener(p)
    /\ Goto(p, "swapping")
    /\ UNCHANGED <<loggedIn, claim, store, asking, mine, stalled, restoring, recheck,
                   handedOver, ran>>

\* The new build starts, and this one quits for it.
NewBuildStarts(p, q) ==
    /\ pc[p] = "swapping" /\ pc[q] = "off"
    /\ pc' = [pc EXCEPT ![p] = "leaving", ![q] = "read"]
    /\ own' = [own EXCEPT ![q] = IF loggedIn THEN "runtime" ELSE "temp"]
    /\ handedOver' = [handedOver EXCEPT ![p] = TRUE]
    /\ UNCHANGED <<world, store, nth, has, to, mine, listening, waiting, stalled,
                   restoring, recheck, history>>

\* It does not start: this one is the one later launches reach again.
NewBuildFails(p) ==
    /\ pc[p] = "swapping"
    /\ Listens(p)
    /\ Goto(p, "up")
    /\ UNCHANGED <<loggedIn, claim, store, asking, mine, waiting, stalled, restoring,
                   recheck, handedOver, history>>

-----------------------------------------------------------------------------
(* The environment.                                                        *)

\* A process dies: its socket file stays, with nothing listening behind it.
Crash(p) ==
    /\ "crash" \in Incidents /\ pc[p] \in {"loading", "up", "leaving", "compare"}
    /\ Goto(p, "crashed")
    /\ holder' = [n \in Names |-> IF holder[n] = p THEN Stale ELSE holder[n]]
    /\ listening' = [listening EXCEPT ![p] = FALSE]
    /\ dropped' = dropped \cup {waiting[p][i].from : i \in DOMAIN waiting[p]}
    /\ waiting' = [waiting EXCEPT ![p] = <<>>]
    /\ restoring' = [restoring EXCEPT ![p] = "no"]
    /\ UNCHANGED <<loggedIn, claim, store, asking, mine, stalled, recheck, handedOver, ran>>

\* An instance's event loop is held up long enough to fill its backlog, or free.
Stall(p) ==
    /\ "busy" \in Incidents /\ listening[p] /\ pc[p] \in {"loading", "up"}
    /\ stalled' = [stalled EXCEPT ![p] = ~@]
    /\ UNCHANGED <<world, store, pc, asking, mine, listening, waiting, restoring,
                   recheck, handedOver, history>>

LogIn ==
    /\ "login" \in Incidents /\ ~loggedIn
    /\ loggedIn' = TRUE
    /\ UNCHANGED <<holder, claim, store, pc, asking, serving, history>>

LockOrUnlock ==
    /\ "lock" \in Incidents
    /\ locked' = ~locked
    /\ UNCHANGED <<world, keyring, file, pc, asking, serving, history>>

-----------------------------------------------------------------------------

LaunchInit ==
    /\ loggedIn = ("login" \notin Incidents)
    /\ holder = [n \in Names |-> IF n \in DOMAIN Foreign THEN Foreign[n] ELSE Nobody]
    /\ claim = [n \in Names |-> Nobody]
    /\ keyring = NoToken /\ file = NoToken
    /\ locked \in IF "lock" \in Incidents THEN BOOLEAN ELSE {FALSE}
    /\ pc = [p \in Procs |-> "off"]
    /\ own = [p \in Procs |-> "temp"]
    /\ nth = [p \in Procs |-> 1]
    /\ has = [p \in Procs |-> NoToken]
    /\ to = [p \in Procs |-> p]
    /\ mine = [p \in Procs |-> NoToken]
    /\ listening = [p \in Procs |-> FALSE]
    /\ waiting = [p \in Procs |-> <<>>]
    /\ stalled = [p \in Procs |-> FALSE]
    /\ restoring = [p \in Procs |-> "no"]
    /\ recheck = [p \in Procs |-> FALSE]
    /\ handedOver = [p \in Procs |-> FALSE]
    /\ ran = {} /\ dropped = {}

LaunchStep(p) ==
    \/ Launch(p) \/ ReadToken(p) \/ MoveToken(p)
    \/ NoInstance(p) \/ GiveWay(p) \/ NothingToShow(p)
    \/ Connect(p) \/ Taken(p) \/ Refused(p)
    \/ WriteToken(p) \/ Listen(p) \/ Wire(p)

InstanceStep(p) ==
    \/ Deliver(p) \/ Recheck(p) \/ RestoreLooks(p) \/ RestoreWrites(p)
    \/ Quit(p) \/ StopListening(p) \/ Compare(p) \/ Delete(p)
    \/ GiveUpTheName(p) \/ NewBuildFails(p)
    \/ \E q \in Procs : NewBuildStarts(p, q)

Environment == (\E p \in Procs : Crash(p) \/ Stall(p)) \/ LogIn \/ LockOrUnlock

LaunchNext == (\E p \in Procs : LaunchStep(p) \/ InstanceStep(p)) \/ Environment

LaunchSpec == LaunchInit /\ [][LaunchNext]_launch_vars

-----------------------------------------------------------------------------
(* Properties.                                                             *)

LaunchTypeOK ==
    /\ loggedIn \in BOOLEAN /\ locked \in BOOLEAN
    /\ holder \in [Names -> Procs \cup {Nobody, Stale, "open", "mute"}]
    /\ claim \in [Names -> Procs \cup {Nobody}]
    /\ keyring \in Tokens /\ file \in Tokens
    /\ pc \in [Procs -> {"off"} \cup Asking \cup Instance \cup Leaving \cup Over]
    /\ own \in [Procs -> {"runtime", "temp"}] /\ nth \in [Procs -> 1..3]
    /\ {has, mine} \subseteq [Procs -> Tokens] /\ \A p \in Procs : mine[p] \in {p, NoToken}
    /\ to \in [Procs -> Procs]
    /\ waiting \in [Procs -> Seq([from : Procs, token : Tokens])]
    /\ restoring \in [Procs -> {"no", "look", "write"}]
    /\ {listening, stalled, recheck, handedOver} \subseteq [Procs -> BOOLEAN]
    /\ ran \subseteq Procs /\ dropped \subseteq Procs

\* "Each user runs one FreeTunnel" (USER_GUIDE.md): a launch never becomes an
\* instance beside one that is not on its way out, whether that one is slow to
\* answer, cannot be shown a token, was started before the session or failed to
\* update.
Alone == \A p, q \in Procs : {pc[p], pc[q]} \subseteq Instance => p = q

\* "Launching it again, with a command or without, hands over to the copy
\* already running" (USER_GUIDE.md): a launch that ended as handed over was acted
\* on, waits at an instance, or was dropped by one that closed.
ForwardedIsRun ==
    \A p \in Procs : pc[p] = "told" =>
        \/ p \in ran \cup dropped
        \/ \E q \in Procs : \E i \in DOMAIN waiting[q] : waiting[q][i].from = p

\* A launch that was let in nowhere closes only beside a FreeTunnel of this
\* user's: another account's listener, silent or not, never makes one give way,
\* nor does a file a crash left (heldByThisUser, whatAFailedConnectMeans).
GivesWayToOurs ==
    \A p \in Procs :
          pc[p] \in Looking /\ pc'[p] = "gave up" =>
              \E q \in Procs \ {p} : pc[q] \in Instance \cup Leaving

\* The listener of the one instance is found where a launch looks first: no
\* instance that quits or hands over takes the name of its successor with it.
Findable ==
    \A p \in Procs : listening[p] => holder[own[p]] = p

\* OneInstance.  However instances stall, quit, crash or hand their name to a new build, no
\* launch becomes an instance beside one and later launches find the one there is
\* (forwardToRunningInstance, applyLinuxUpdate, wireBackendLifecycle), while no other account
\* holds the name a launch takes for this user's.
OneInstance ==
    (\A p \in Procs : pc[p] # "off" => HeldByThisUser(own[p])) => Alone /\ Findable
=============================================================================
