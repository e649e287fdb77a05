# FreeTunnel in TLA+

FreeTunnel is a VPN application: a Qt window (the GUI), an elevated helper process that
owns the tunnel, and an Android service of its own.  The tunnel itself is made by an
external core library.  This directory specifies the parts of the program whose
correctness depends on the order of things (threads, timers, processes that come and
go), model-checks them with TLC and proves the central results with TLAPS.

Source paths below are relative to `src/` (so `src/vpn/x.cpp` is `src/src/vpn/x.cpp` in
`PROJECT.json`).

## 1. Inventory

| component | state it keeps | operations | talks to | what is hard | what makes it correct |
|---|---|---|---|---|---|
| **VPN session wrapper** `QtTrustTunnelClient` (`src/vpn/qt_trusttunnel_{client,connect,callbacks,fdwatch}.cpp`) | state, stop flag, config, split routing, client, connect thread, three generations, timers | beginConnect, disconnectVpn, setters, the timers' handlers, the core's state events, adoptAttempt | worker threads, the core's threads, the helper's main thread; all by calls queued to one event loop | native calls that block or never return; results that arrive after a disconnect; cores that outlive their session or the object | no core is lost or held twice; off stays off; a promise of a tunnel has something behind it; the kill switch holds; disconnect always completes |
| **Uplink follower, log tail** (`qt_trusttunnel_uplink.cpp`, `_corelog.cpp`) | the adapter sockets are pinned to, the last look at the routes, a bounded tail of the core's log | probe, two-look change rule, error extraction | core callbacks of other threads, the session | a socket pinned while the adapter moves; an adapter caught between two states | two looks before a reconnect; no socket left on the old adapter |
| **Split routing** (`qt_trusttunnel_callbacks.cpp`, `src/core/{AppRules,ProcessLookup*,BypassRules}.cpp`) | mode, address list, program rules, process cache | route a connection, apply an edit | the core, which routes by address itself | a connection routed in two places during an edit | no connection is routed by half of an edit |
| **Helper server** (`src/vpn/vpn_helper_server.cpp`) | pending connections and their nonces, the one it serves, the session's thread | accept, handshake, promote, commands, leave | the GUI by TCP, the session by queued calls | peers that come, go and stay silent; leaving while a session connects | serves one authenticated GUI; leaves with it; a session goes down first |
| **Helper client** (`src/vpn/vpn_helper_{client,launch,elevation}.cpp`) | the socket, handshake flags, the pending connect, timers, the settings to send, what the session was built from | launch, dial, handshake, connect, disconnect, setters, abort | the helper by TCP, the backend by signals | a password prompt in the middle; a lost connection at every step; a click before, during and after | the config goes to its own helper only; a cancelled connect is never sent; the window does not hang |
| **GUI backend** (`src/app/Backend*.cpp`) | flags connected / connecting / disconnecting / reapplying / pending reconnect, generations of the credential read, configs, profiles | clicks, links, hotkeys, config switch, live reapply | the helper client, credential store, subscriptions | flags and helper state move apart; late reads; switches that disconnect first | every click is answered; the last one wins; no session of a config nobody selected |
| **Configs, text, credentials** (`src/core/Config*.cpp`, `CredentialStore*.cpp`) | TOML files, passwords in the keyring or a file | parse, edit, save, import, migrate | backend | failures between two writes | a password is never lost on the way |
| **Subscriptions** (`SubscriptionController.cpp`, `src/core/Subscription*.cpp`) | records, held updates, one fetch | link, refresh, apply or hold | backend, configs, credentials | an update for a config edited, removed or in use | an update is applied once, to the config it is for |
| **Updates** (`UpdateChecker.cpp`, `UpdateStaging.cpp`, `BackendUpdates.cpp`) | release found, download, staged image | check, download, verify, swap | the running instance | a failure at each step of the swap | a runnable application is always in place |
| **Single instance** (`InstanceControl.cpp`) | the claimed name, the server | claim, forward, hand over | other launches | two launches at once, sockets of the dead | one instance; no command lost |
| **Geo lists** (`GeoList*.cpp`, `GeoRules.cpp`) | cached lists, one refresh | refresh, pick rules | backend | a refresh while one runs | the last answer asked for is the one used |
| **Helper's start, Windows service** (`vpn_helper_elevation.cpp`, `vpn_helper_service_win.cpp`) | token files, launcher, tries; the service's status and stop flag | launch, dial, give up; start and stop of the service | the system's prompts and service manager | a prompt answered after its attempt; a stop before the application exists | no token left for the late; a stop is never lost |
| **Android service** (`FreeTunnelVpnService.kt` and around it) | its own session machine, backoff, kill-switch tunnel | start, stop, retries | the core by JNI | the same as the session's, with Android's lifecycle | the same |
| shell, settings, QML, process and network helpers | - | - | - | I/O and layout | not modelled |

`PROJECT.json` lists the same components with their sources and status, and under
`hazards` the lines where each of them bites.

How they interact: a click in the GUI sets an optimistic flag (*Connecting*,
*Disconnecting*) and calls the helper client, which launches the helper if there is none,
shakes hands and sends commands.  The helper server queues them to the session's thread.
The session starts attempts on worker threads; each builds a core, connects it and posts
the result back.  States travel back the same way: session, server, client, backend flags.

## 2. Modules

| module | models | looked at in |
|---|---|---|
| `TunnelSession` | `QtTrustTunnelClient`: owner thread, workers, cores, timers | section 3 |
| `VpnSession` | the abstract promise to the user | section 3 |
| `TunnelPromise` | `TunnelSession` with the last command remembered; refines `VpnSession` | section 3 |
| `HelperLink` | `VpnHelperClient` against `HelperServer`, driven by the backend's clicks | section 4 |
| `BackendSwitch`, `SubscriptionRefresh`, `SubscriptionFetch` | what the window drives: connect, switch, live reapply, held updates; subscriptions and their fetches | suite `MCWindow` |
| `ConfigVault`, `CredentialStore`, `SplitSettings`, `GeoLists` | what is kept: configurations with their passwords and records, the keyring on Linux, split profiles, geo lists | suite `MCStored` |
| `SplitRouting`, `ProcessLookup`, `SocketTable`, `AppRules`, `UplinkFollower`, `CoreLogTail` | what the wrapper does with the core's connections, sockets and log | suite `MCRouting` |
| `SingleInstance`, `AppUpdate`, `HelperStart`, `HelperService`, `AndroidTunnel` | processes and their ends | suite `MCProcesses` |
| `TunnelProofs`, `HelperLinkProofs`, `SubscriptionFetchProofs`, `AndroidTunnelProofs`, `RoutingProofs`, `StoredProofs`, `AppUpdateProofs`, `SingleInstanceProofs` | theorems about the module each is named for; `TunnelProofs` is about `TunnelSession` and `TunnelPromise`, `RoutingProofs` about `SplitRouting` and `UplinkFollower`, `StoredProofs` about `GeoLists` and `CredentialStore` | section 7 |
| `MCTunnelSession`, `MCTunnelPromise`, `MCHelperLink` | symmetry sets and named model values for TLC | - |

A component module is one component with its constants, variables, actions and
properties.  A *suite* takes several components on small instances, one at a time: the
variable `part` says which component a behaviour is about and never changes.  So one run
checks every component of its group with bounds of its own.  A suite EXTENDS the components
of its group that have theorems (`MCWindow` extends `SubscriptionFetch`, `MCStored`
`CredentialStore` and `GeoLists`, `MCRouting` `SplitRouting` and `UplinkFollower`, `MCProcesses`
`AndroidTunnel`, `AppUpdate` and `SingleInstance`): their constants are those of the
configuration, the run checks their properties under the names the theorems state, and their
variables rest in an initial state while another part is looked at.  The other components are instances, whose
variables hold a constant meanwhile; a property of the suite itself is a conjunction, part
by part, of the properties these modules define and comment.

The operators named "Mutant" in the modules are plausible mistakes in the definition that
follows them.  Each property of each run has one under which TLC finds it violated
(`mutants` in `PROJECT.json`), which shows that the property depends on that code.

## 3. TunnelSession

### State

| variable | code |
|---|---|
| `owner` | the fields of the object: `state` (m_state), `stopRequested`, `everConnected`, `killSwitch`, `config` (m_config has a value), `lastToml`, `routing` (the working set of mode and address list), `sessionRouting`, `client` (m_client with its network monitor), `thread` (m_connectThread), `attemptGen` (guard.attemptGen), `sessionGen`, `timers`, `delayed` (the 150 ms start of beginConnect) |
| `queue` | the posted calls of the owner's event loop, in order: commands of the server, core events, adoptions, the end of an abandoned thread |
| `worker[a]` | where the worker thread of attempt `a` stands: before the native call it is named for |
| `core[a]` | the core client the attempt built: none, live or ended, with the routing and configuration it has |
| `rescued`, `detached` | clients held by the handler on an abandoned thread's end, and by a detached retiring thread |
| `alive` | guard.alive |

An owner step is one handler, run to its end, for one posted call or one timer.  The state
changes of a handler that the outside can only see as signals (*Disconnecting* inside
`disconnectVpn`, *Disconnected* inside `loadConfigFromToml`) are collapsed to the last.
A worker step ends where the code touches shared state.  `HandOver` is the point the whole
design turns on: under the guard's mutex the worker looks whether it is still wanted and
either posts its result or retires its core itself.

Generations are counters that are only bumped and compared.  Each is represented by the
attempt that holds the current value.  `joinOrAbandonConnectThread` waits up to 15 s for
the worker: the handler that waits is a step taken when the worker is done, or, abandoning
it, at any other moment.

Left out: settings other than split routing and the kill switch, the wording of errors,
the lengths of delays and the backoff, the measurements behind the descriptor watchdog
(`FdLeakFound` may find a leak at any time), uplink tracking, log forwarding, statistics.
The privilege check is assumed to pass: the process is the elevated helper.

### Properties and runs

| run | bounds | properties |
|---|---|---|
| `session_promise` | 2 attempts, 1 configuration, kill switch, queue below 2 | `NoLostCore`, `NeverStuck`, `DisconnectedIsOff`, `OffStaysOff`, `KillSwitchHolds`, `KeepsPromise` |
| `session_settings` | 2 configurations and a bad one, 2 routings, the helper may leave | `SessionFollowsSettings`, `NoCallAfterDestruction` |
| `session_disconnect` | fairness of the owner's loop only | `DisconnectCompletes` |
| `session_liveness` | timers fire, native calls return | `LeftoversComeDown`, `KeepsTrying`, `NetworkWaitEnds` |
| `session_quit_lost_core` | the helper may leave | `NoLostCore`, **violated** |

* `NoLostCore`: every core set to connect has somebody bound to disconnect it (the client
  pointer, its worker, the next worker, a posted result, a rescue handler, a detached
  thread).
* `NeverStuck`: *Connecting*, *Connected*, *Reconnecting* and *WaitingForNetwork* have a
  live core, a wanted attempt in flight, the reconnect timer or an unserved end of the
  core behind them.
* `DisconnectedIsOff`, `OffStaysOff`: nothing is left that could bring a session back, and
  nothing does until a connect is served.
* `KillSwitchHolds`: with the kill switch on a live core is given up for a command only.
* `SessionFollowsSettings`: the core in use routes by the settings of now and was built
  from the configuration loaded last.
* `NoCallAfterDestruction`: nothing is posted to the destroyed object.
* `KeepsPromise`: the refinement of `VpnSession` under the mapping of `TunnelPromise`
  (phase from the state, tunnel from the client's core, `late` from the delayed start).
  `asked` changes its name (`Connects`) from one connect to the next: if it only said
  "on", a step that gives a tunnel up by itself would pass for a connect repeated.
* `DisconnectCompletes`: every disconnect is served, whatever the native calls do.
* `LeftoversComeDown`, `KeepsTrying`, `NetworkWaitEnds`: what a stopped session left behind
  comes down, a lost session is attempted again, the wait for a network ends.

Why the bounds are enough: with two attempts one can be abandoned in every one of its
steps while a second runs to its end; a third adds another of the same kind, since an
abandoned attempt shares nothing with its successor but the generation it compares with.
A queue of two has a result and an event or a command in both orders; adoptions and thread
ends are posted above the bound.  `Spare` keeps a slot for every connect queued, so that
the model does not stop on a start it has no slot for.

Fairness: `OwnerFairSpec` assumes that the owner's event loop runs; `DisconnectCompletes`
needs no more, which is the point of abandoning a thread.  `FairSpec` adds that timers
fire and that native calls return.  For `NetworkWaitEnds` the core must not report
WAITING_FOR_NETWORK again for ever; the bound on the queue and weak fairness of the
timer's action say so.

Deadlock is checked in every run of this module but the two in which the helper leaves,
where the system does stop.

## 4. HelperLink

### State

`gui` is `VpnHelperClient` (state, m_helloAcked as `acked`, m_peerProven as `proven`,
m_connectPending as `pending`, m_starting, the retry timer, the handshake deadline with
the launch it was armed in, the socket while connected, the launch m_token was made for,
the settings and m_sessionBuiltWith) with two flags of `Backend` (m_connecting,
m_disconnecting), and `wanted`, a history variable with what the last click asked for.
`conn` holds the connections: both ends, what is under way in each direction, and the
stage the helper has it at.  `helper` holds the helper processes: absent, behind the
prompt, or listening, with the state of their session and the settings it was built from.

A launch stands for its process, its random port and its token.  A proof is represented by
the token it was made with: nonces are fresh for each connection, so a proof for one is no
use on another.  Both sides read in order; when an end closes, what was still under way to
the other may be read or lost.  `Stranger` is whatever else may hold the port: it can say
anything but a valid proof.

All the settings a session takes are one value.  *Reconnecting* and *WaitingForNetwork*
are taken with *Connecting* (the backend treats them alike).  The session behind the
server is cut down to the states it reports, since `TunnelSession` is about it, and it
does not rebuild itself here.  The credential read of a connect takes no time, partial
lines and size limits are left out, and `m_reapplying` belongs to a later module.

### Properties and runs

| run | bounds | properties |
|---|---|---|
| `link_safety` | 2 launches, 2 connections, 2 settings, 2 messages under way before a click waits, helpers may die, a stranger | `ConfigOnlyToHelper`, `LastClickWins`, `WindowTellsTruth`, `SessionBuiltFromSettings` |
| `link_liveness` | as above with one settings value; helpers stay once they serve | `ClicksSettle`, `OrphansLeave` |
| `link_lost_while_serving` | helpers may die | `ClicksSettle`, **violated** |

* `ConfigOnlyToHelper`: settings and config only ever travel to the helper this GUI
  launched.
* `LastClickWins`: after a Disconnect no connect waits for the handshake or is the last
  order under way, and once its orders are read the helper has no session.
* `WindowTellsTruth`: with nothing under way, the window shows what the session is and no
  optimistic flag is left over, and no session is shown over a link that is gone.
* `SessionBuiltFromSettings`: a session is built from what the GUI keeps as
  m_sessionBuiltWith, so every setting reached the helper before the connect.
* `ClicksSettle`: an optimistic *Connecting* or *Disconnecting* ends.
* `OrphansLeave`: a root helper the GUI gave up on leaves.

Two launches give an orphan beside the current helper, two connections one being closed
beside the new one; slots are used again once nothing refers to them.  Fairness: event
loops run, timers (retry budget, handshake deadline, the helper's minute) fire, a closed
end is noticed.  Nobody has to answer the prompt.

## 5. The suites

These runs do not check deadlock: their instances end when their bounded edits, faults and
attempts are used up.  They state no fairness; liveness is only checked for the two core
modules.

### `window` (MCWindow)

| property | parts | what it says |
|---|---|---|
| `RunsTheChosen` | switch, reapply, updates | once nothing is under way the session is that of the configuration chosen, as it is on disk and with the settings in force, and the window says of it what it is; after a Disconnect no read, switch, refusal or lost helper starts one again |
| `NoUpdateForgotten` | updates, servers, moves, held | an update held over a change of the tunnel or behind the editor is written in the end, and none is held for nothing |
| `ServerMovesByConsent` | servers, moves, held | a refresh moves a configuration to another server only when the last answer was yes to that server, and never back to an older document |
| `QueueFlows` | queue, import, fetch | nothing is fetched that nobody wants, nothing twice at a time, no fetch waits beside a free place; one answer comes of a fetch, and a document only of a whole body |
| `SecretsStayHome` (of `SubscriptionFetch`) | fetch | a subscription's credentials reach its own origin only, behind a certificate it trusts |

`BackendSwitch` sees the helper as orders and reports in flight.  `RaceKinds` are the
moments at which the world acts in between; the instances leave out the four that lead to
the disagreements of section 6.  `SubscriptionRefresh` models the event loop inside a
credential call (`c.loop`): everything but the user's own input may be served there.
Bounds: two reads and one message in flight give each race once; three servers are an old
one, the one asked about and another; two configurations are enough for a queue with one
place.

### `stored` (MCStored)

| property | parts | what it says |
|---|---|---|
| `PasswordGoesWithServer` | edits, refreshed, replaced, saves, client | a configuration is connected with the password of the very server its file names, whichever call failed whose answer the code looks at, and never with an older one; where another failed, this holds of every configuration but the one that call was for; a connect none of whose calls failed leaves one copy |
| `NothingLost` | crash, imports, edits, refreshed | at every moment, crashes included, no promised server and no record's address is lost, but for what a failed call that nobody looks at was for; between operations nothing is left of what was removed, with the same exception |
| `ReadsWhatWasSaved` (of `CredentialStore`) | saves, stopped, client, meanwhile | the password read is the one saved last, over copies in two keyrings, an older file and the configuration, with calls that fail, a crash of a connect, or a save while a connect reads |
| `RoutedByItsProfile` | split, upgrade, geo | a session is routed by the profile of its own configuration as it is now, never by a mode that sends nothing through the tunnel; the page shows what the profile holds; the rules of a row were read for its own direction |
| `RestartKeepsRules` | start, upgrade | a restart routes as before it; a save cut short after an upgrade leaves the other profiles their programs |
| `MemoryIsTheCache` (of `GeoLists`) | geo | a list that was read is the one in the cache |

A server with its password is a number, counted up, so that "the password of this server"
is an equation.  The bounds count servers made (5-8) and calls that fail (1-2, in
`CredentialStore` 3-4), in "crash" together with the crashes: an operation has at most two
calls whose failure another failure can follow.

Nobody looks at the answers of the calls that put a password or a file back, that delete
one, and that save the rows or the records.  In `ConfigVault` each of them may fail
("undo", "delete", "unsaved" in `Faults`), the operation goes on as the code does, and the
ghost `amiss` names what the call was for: a path, the server of a file that was not
written back, or the address of a record.  The properties speak of everything else, and of
a path again as soon as the next operation finds it as it should be.  Most of these
failures are the only trace of an error already reported; section 6 has those where the
code's words say otherwise.  A save that changes only the letter case goes through a name
of the moment: the two renames and the way back are steps of their own, each of which may
fail and between any two of which the program may die.  What is left under that name is in
`aside`, and counts as not lost, though no list names it (section 6).

### `routing` (MCRouting)

| property | parts | what it says |
|---|---|---|
| `AnswersTruly` | answers, budget, sockets, windows, shared, linux, mac, bursts | a connection is answered with the program that holds its socket, for no more walks than the budget pays; of several sockets on a port the one that would carry it answers; a rule follows its program to the next version and matches no neighbour; edits that overtake each other end on the last |
| `NoMixedLeak` (of `SplitRouting`) | routing | while settings change a connection leaves the tunnel only where one of the settings in force sends it out |
| `SettledIsLast` (of `SplitRouting`) | routing | once edits and updates are through, the core and the program rules are the settings asked for last |
| `PinnedToTheNewest` (of `UplinkFollower`) | uplink | sockets pinned on several threads end on the newest adapter, which a working session is told of in a look or two |
| `NoNeedlessWork` | uplink, answers | an adapter between two states costs no reconnect; a second walk is made only for a socket that opened after the first |
| `NoSilentGap` | session, reconnects | the lines shown are whole, in order and once, and none is left out without a word |

`ProcessLookup` counts time in ticks: one tick earns one unit of credit.  The paths of
`AppRules` are sequences of names from a set chosen so that every rule has a program it
names, a newer version of it, one in the same directory and one with the same name
elsewhere.  Constants of the code are cut down and named: kFreshFor to 2 ticks,
kMaxFolders to 1-2, kQuietOfflineLooks from 15 to 3, kMaxLinesPerPoll to 1.

### `processes` (MCProcesses)

| property | parts | what it says |
|---|---|---|
| `OneInstance` (of `SingleInstance`) | launches, launches on macOS, new builds, other accounts | no launch becomes an instance beside one, and later launches find it, while no other account holds the name a launch takes for this user's |
| `InstallsWhatWasOffered` (of `AppUpdate`) | update, update on macOS, swap, "swap, unpacked" | one download at a time, only the offered version is installed, and whatever fails or is killed in a swap, the way back included, a whole AppImage is left at its path or beside it, until a way back that failed is followed by a further try; as long as none failed, it is at its path once the swap is over |
| `StopsClean` (of `AndroidTunnel`) | android, android geo | a stop, a revocation and the end of the service leave no core, TUN or retry behind; one core at a time is on the TUN; what waits for a retry gets one; the app shows what is |
| `KillSwitchHolds` (of `AndroidTunnel`) | android, android geo | no failure, network, geo list or new start gives up a TUN that holds traffic back, or stops a core that runs; the service ends only with the last start served |
| `NothingForTheLate` | launches, starts, service, update, other accounts | an answer that comes after its attempt was given up does nothing and no token of it is left; a helper is given up on only when it cannot come; what several crashes leave of token files stays as long as a late prompt may use it, and is removed by the next GUI once it is old; a stop of the service is posted to an application that lives, and none is lost once there is one; a launch gives way to this user's instance only, and a command handed over is acted on |

Three launches are an instance, one that finds it and one that comes in between.  MaxTries
stands for the 240 dials.  A GUI that starts knows of no token file (`tokenPath`), so those
of GUIs that died pile up in `files`, with the prompts that outlived them in `prompts`.
"Swap, unpacked" is an AppImage that runs unpacked and keeps the path it found first, so
that it tries to install even where a failed way back left nothing at that path; a mounted
one finds itself no more and shows the download as a package.  Android: three starts and two reports let each start overtake
the one before at each of its stages.

## 6. Where the code and its words disagree

Two of these are runs that expect a violation:

1. **A live core dropped at the helper's exit** (`session_quit_lost_core`).  `~HelperServer`
   runs `disconnectVpn()` and then destroys the client with what is still posted to it.  An
   attempt that finishes while `disconnectVpn()` waits for its thread is still wanted and
   posts its adoption, which goes down with the object: the core is never disconnected.
2. **A helper lost before its first state** (`link_lost_while_serving`).  The disconnected
   handler reports a change of `m_state` only.  Between *ready* and the first state there
   is none to report, and the deadline is already stopped: the window stays on
   *Connecting...*, or after a click on *Disconnecting...*, where no later connect is let
   through.  `disconnectVpn()` describes and avoids the same trap for its own case.

The others were met while modelling, and no run is spent on them.  The modules contain the
behaviour; the last column names the constant and value that let it happen.

| where | what happens | what the words are | let happen by |
|---|---|---|---|
| `vpn_helper_client.cpp:379` | the handshake deadline outlives its connection and fails the next launch | - | in `HelperLink` as it is (`deadline`) |
| `BackendSplit.cpp:591` | an edit between the click on Disconnect and the last report of it arms a reconnect | `BackendConnect.cpp:190` | `Races` "afterOff" |
| `BackendSplit.cpp:592` | a switch made while connecting reads as off, so that a second connect starts | `BackendConnect.cpp:66` | `Races` "midSwitch" |
| `Backend.cpp:538` | removing the configuration then misses its guard, and the connect comes | `Backend.cpp:533` | `Races` "midSwitch", "midStart" |
| `Backend.cpp:304` | a refused connect leaves a held update held | `BackendConnect.cpp:56` | `Races` "refused" with updates |
| `BackendSubscriptions.cpp:469` | an update that needs no consent waits behind the question about another server | `BackendSubscriptions.cpp:371` | `Happens` "tunnel" with several servers |
| `ConfigPaths.cpp:253` | when the program dies between the two renames, or the way back fails and the save after it too, the configuration is left under a hidden name that no list, search or start looks at | `ConfigPaths.cpp:256` | `Operations` "recase" with "crash", or `Faults` "disk" and "undo" |
| `BackendConfigShared.cpp:137` | the store refuses the old password back: the file is the old one, the password the new one | `BackendConfigShared.cpp:133` | `Faults` "disk" and "undo" |
| `BackendConfigCreate.cpp:178` | the deletion took the new entry too and it is not stored again: the configuration has no password, and the save reports success | `BackendConfigCreate.cpp:168` | `Operations` "recase", `Faults` "undo" |
| `BackendConfigImport.cpp:141` | the file that was replaced is not written back: the link's stays, after an error that says it was not imported | `BackendConfigImport.cpp:136` | `Faults` "store" and "undo" with "replace" |
| `BackendConfigImport.cpp:214` | the old password is not deleted, and a link without one is connected with it | `BackendConfigImport.cpp:206` | `Faults` "delete" with "bare" |
| `ConfigStore.cpp:87` | rows that could not be saved are not reported: a rename has removed the file the rows name, and the new one is in no row | `ConfigStore.cpp:81` | `Faults` "unsaved" with "rename" |
| `CredentialStore.cpp:621` | a failed replace leaves the link's password with the old server | `BackendConfigImport.cpp:136` | `Faults` "disk" with "replace" |
| `Backend.cpp:539` | a document that arrives in the password's removal stores it again | `test_backend_config.cpp:547` | `Happens` "fetch" with "remove" |
| `CredentialStore.cpp:625` | moving a password to the keyring writes back a text that was replaced meanwhile | `CredentialStore.h:57` | `Concurrent` with `Legacy` or "import" |
| `CredentialStore.cpp:496` | two keyring clients file under different attributes; an older item answers | `CredentialStore.cpp:229` | "probe" in `Faults` with both clients and "import" |
| `BackendConfigShared.cpp:122` | a keyring that took a password and fails the lookup keeps it beside the old file | `BackendConfigShared.cpp:132` | "lookup" in `Faults` with "save" |
| `CredentialStore.cpp:311` | a crash between keyring and file leaves the plain copy for good | `CredentialStore.h:68` | `Crashes` |
| `GeoListUpdater.cpp:69` | an oversized list ends the next list's download | `GeoListUpdater.h:11` | `Happens` "oversize" |
| `AppGuiMain.cpp:265` | two launches at once both find no instance and both run | `USER_GUIDE.md:362` | `Incidents` "overlap" |
| `InstanceControl.cpp:685` | a launch of the session starts beside a stalled instance that was started without a runtime directory | `USER_GUIDE.md:362` | `Incidents` "login" with "busy" |
| `InstanceControl.cpp:823` | a command written to an instance with another token is dropped | `InstanceControl.h:96` | `Incidents` "lock", "disk" |
| `AppStartup.cpp:321` | a token put back after the new build stored its own | `AppStartup.cpp:316` | `Incidents` "update", "lock" |
| `BackendUpdates.cpp:369` | the check of the start turns a download back to "available" | the same line | `Happens` "earlyClick" |
| `BackendUpdates.cpp:71` | the rename back fails: nothing is at the path the user starts FreeTunnel from, and the row says it "was left as it was" | `BackendUpdates.cpp:204` | in `AppUpdate` as it is (`stranded` "kept") |
| `BackendUpdates.cpp:82` | the next try then begins by removing the .old, the only whole build left, and copies nothing when its rename finds no file | `BackendUpdates.cpp:76` | `Happens` "unpacked" (`stranded` "retried") |
| `vpn_helper_elevation.cpp:303` | the service is busy with this GUI's own abandoned helper, and UAC is asked for | `vpn_helper_elevation.cpp:213` | `Installed` |
| `ProcessLookupWalk.cpp:426` | descriptors are read before sockets: a socket opened in between is nobody's | `ProcessLookup.cpp:517` | `Happens` "race" |
| `ProcessLookup.cpp:554` | a second walk that fails does not set lookWasSkipped | `ProcessLookup.h:185` | `Happens` "secondFails" |
| `AppRules.cpp:301` | a rule does not match its own path when Update.exe comes or goes between two looks | `AppRules.h:86` | `MaxClock` |
| `qt_trusttunnel_client.cpp:322` | a change of profile can send out a connection that either setting keeps in | `qt_trusttunnel_client.cpp:315` | in `SplitRouting` as it is; `NoMixedLeak` excepts it |
| `qt_trusttunnel_connect.cpp:435` | a connection taken before the adoption is routed by halves of two settings | `qt_trusttunnel_client.cpp:307` | `Happens` "early" |
| `qt_trusttunnel_uplink.cpp:165` | the binding and the DNS servers are read at different times | `qt_trusttunnel_connect.cpp:26` | `UplinkHappens` "rebuild" |
| `qt_trusttunnel_corelog.cpp:148` | a reconnect empties the log without a last look | `qt_trusttunnel_connect.cpp:309` | `Happens` "reconnect" |
| `qt_trusttunnel_corelog.cpp:149` | half a line is glued to the next session's first | `test_vpn_events.cpp:192` | `Happens` "reconnect" |
| `qt_trusttunnel_events.cpp:120` | after a drop the rest of the cut line is shown as a line | `qt_trusttunnel_events.cpp:114` | `MaxCarry` below a line |
| `FreeTunnelVpnService.kt:225` | an Always-on start that comes while the first fails is ignored, and nothing is retried | `FreeTunnelVpnService.kt:216` | `Kinds` "always_on" |
| `FreeTunnelVpnService.kt:257` | an overtaken start whose core fails leaves a TUN that nobody retries if the newer start is refused | `src/android/README.md:767` | `MaxFaults` 2; `ShownTruly` excepts it (`LeftOver`) |
| `FreeTunnelVpnService.kt:288` | Reconnect after a failed start takes another split profile | `FreeTunnelVpnService.kt:84` | `Kinds` "reconnect", `GeoOn` |

## 7. What is proved

TLAPS proves the following for any number of attempts, configurations, routings, launches,
connections, programs, adapters, lists, versions, starts and faults and any bound on the queues,
from the named assumptions on the constants alone: in `TunnelSession`
`AttemptsAssumption`, `ConfigsAssumption`, `CommandsAssumption`, `BoundsAssumption`; in
`TunnelPromise` `ConnectsAssumption`; in `HelperLink` `SlotsAssumption`,
`SettingsAssumption`, `SwitchesAssumption`; `FetchConstants`, `AndroidConstants`,
`UplinkConstants`, `RoutingConstants`, `GeoConstants`, `CredentialConstants`, `UpdateConstants` and `LaunchConstants` in the
modules they are named for.  TLC evaluates each of them in a run.  They say that bounds are numbers, that a value
standing for "none" is not one of the others, and in `GeoLists` that the lists are
finitely many, as a vector of them is.

| theorem | module | statement |
|---|---|---|
| `TypeCorrect` | `TunnelProofs` | `Spec => []TypeOK` |
| `DestroyedIsLeftAlone` | `TunnelProofs` | `Spec => []NoCallAfterDestruction` |
| `DisconnectedHasNothingLeft` | `TunnelProofs` | `Spec => []DisconnectedIsOff` |
| `SettingsReachTheCore` | `TunnelProofs` | `Spec => []SessionFollowsSettings` |
| `CoresAreHeld` | `TunnelProofs` | `Spec => [](alive => NoLostCore)` |
| `SessionNeverHangs` | `TunnelProofs` | `Spec => []NeverStuck` |
| `OnlyCommandsTakeTheCore` | `TunnelProofs` | `Spec => KillSwitchHolds` |
| `NothingRevivesTheSession` | `TunnelProofs` | `AskedSpec => []OffStaysOff` |
| `SessionKeepsPromise` | `TunnelProofs` | `AskedSpec => KeepsPromise` |
| `LinkTypeCorrect` | `HelperLinkProofs` | `Spec => []TypeOK` |
| `OnlyTheHelperIsTold` | `HelperLinkProofs` | `Spec => []ConfigOnlyToHelper` |
| `LastClickIsObeyed` | `HelperLinkProofs` | `Spec => []LastClickWins` |
| `WindowIsTrue` | `HelperLinkProofs` | `Spec => []WindowTellsTruth` |
| `SessionHasTheSettings` | `HelperLinkProofs` | `Spec => []SessionBuiltFromSettings` |
| `SecretsNeverLeave` | `SubscriptionFetchProofs` | `Spec => [](TypeOK /\ SecretsStayHome)` |
| `FetchIsAnsweredOnce` | `SubscriptionFetchProofs` | `Spec => []OneAnswer` |
| `DocumentsAreWhole` | `SubscriptionFetchProofs` | `Spec => []DocumentIsWhole` |
| `AndroidStopsClean` | `AndroidTunnelProofs` | `Spec => [](TypeOK /\ StopsClean)` |
| `AndroidKillSwitch` | `AndroidTunnelProofs` | `Spec => KillSwitchHolds` |
| `UplinkIsPinned` | `RoutingProofs` | `UplinkSpec => [](UplinkTypeOK /\ PinnedToTheNewest)` |
| `UplinkBlipIsNotAMove` | `RoutingProofs` | `UplinkSpec => [][BlipIsNotAMove]_uplink_vars` |
| `RoutingSettles` | `RoutingProofs` | `Spec => [](TypeOK /\ SettledIsLast)` |
| `NoConnectionLeaks` | `RoutingProofs` | `Spec => []NoMixedLeak`, without "burst" and "early" |
| `GeoMemoryIsTheCache` | `StoredProofs` | `Spec => [](TypeOK /\ MemoryIsTheCache /\ OwnDirection)` |
| `ThePasswordSavedIsRead` | `StoredProofs` | `CredentialSpec => [](CredentialTypeOK /\ ReadsWhatWasSaved)`, under `Undisturbed` |
| `AConnectHasTheLatest` | `StoredProofs` | `CredentialSpec => []ConnectsWithTheLatest`, under `Undisturbed`, with one client and no save beside it |
| `UpdateInstallsTheOffer` | `AppUpdateProofs` | `UpdateSpec => [](UpdateTypeOK /\ InstallsWhatWasOffered)`, without "earlyClick" |
| `UpdateRefusedIsOver` | `AppUpdateProofs` | `UpdateSpec => [][RefusedIsNotRetried]_update_vars`, without "earlyClick" |
| `LaunchesAreOneInstance` | `SingleInstanceProofs` | `LaunchSpec => [](LaunchTypeOK /\ OneInstance)`, without "overlap" and "login" |
| `WhatIsHandedOverIsRun` | `SingleInstanceProofs` | `LaunchSpec => []ForwardedIsRun`, without these, "lock" and "update" |
| `LaunchesGiveWayToOurs` | `SingleInstanceProofs` | `LaunchSpec => [][GivesWayToOurs]_launch_vars`, without "overlap" and "login" |

**The session.**  `TypeOK` is inductive by itself: a lemma for each group of handlers says
what record it leaves (`HelpersKeep`, `ReceiveType`, `MessageFields`), and `TypeStep` puts
them together, one step per action.  `DisconnectedIsOff` is inductive with `TypeOK`: only
handlers that tear everything down set the state to *Disconnected*, and every action that
sets a client, a timer or a generation either leaves another state or needs something
that a Disconnected session lacks.

`SessionFollowsSettings` is not inductive.  For its routing half an edit reaches a core
only if it differs from `sessionRouting`: `SessionRoutingRight` adds that the core in use
has the routing in `sessionRouting`, and that this is the working set's.  For its
configuration half `ConfigRight` adds that the core of the attempt under way, too, was
built from the text loaded last: a load ends every attempt before it, so an adoption can
only bring a core of the current text.

`NoLostCore` says somebody holds each core; its induction needs that nobody holds it
twice, since a holder that lets go would otherwise leave the core with a holder that is
about to find it gone.  `Ownership` says, attempt by attempt (`Owned`): the places a core
can be held in exclude each other (`Exclusive`), a result is posted at most once and only
once its worker is done (`QueuedOnce`, `SucceededOnce`), a result that failed carries no
core, and every worker with a core is the thread of the owner or abandoned with a rescue
handler (`Backed`); and of the owner that its client, if any, is of the attempt that holds
the generation (`ClientRight`).  One lemma per handler says what becomes of one attempt's
core (`TeardownOwned`, `AdoptedOwned`, `RescuedOwned`, `HandOverOwned`...); `OwnershipStep`
goes through the actions.  `session_quit_lost_core` shows why the theorem says *while the
object lives*: `~HelperServer` is where it fails.

`NeverStuck` is about what is still to come, so its induction needs the order in which it
comes.  `EventsRight` says of each attempt that its core's last word, or its failure, is
behind every other event of it in the queue, that a core whose end is told is no longer
live, and that an attempt still building has said nothing.  `CurrentRight` says of the
current attempt that nobody but the owner, its worker or its result has its core, that
while the reconnect timer runs nothing more is to come from it, and that, if it came to
nothing or its core ended, the timer runs or the end is still to be served.  Without the
order, an event served after the failure it preceded would bring the state back to
*Connecting* with nothing behind it.  The conjunction is `Recoverable`;
`StatusStep`, `QueueStep` and `EventsStep` say what a step may do to a core, the queue and
the order of events, `Spares` what a worker leaves alone, and one lemma per handler
(`CoreEventRecovers`, `AdoptFailureRecovers`, `ReconnectTimeoutRecovers`...) does the rest.
TLC checked its parts on two attempts, with a bad configuration and a helper that leaves,
before the proof.

`KillSwitchHolds` follows from the same invariant: `CurrentRight` has no live core while
the timer runs, so the timer's start replaces none, and an adoption finds no client.

`OffStaysOff` needs, besides `DisconnectedIsOff`, that no delayed start is left (`OffInv`):
the 150 ms start would be a counterexample to induction.

**The refinement.**  `SessionKeepsPromise` is step by step, from `Promised` (`Recoverable`,
`DisconnectedIsOff`, `OffInv`): a connect is `TurnOn` (`StartTurnsOn`), a disconnect and a
quit `TurnOff`, the event of a core `Reports`, an adoption `ComesUp`, a failure `Reports`
or a stutter, the 150 ms start `LateStart`, the timers `Reports` or `StartsOver`, and the
worker threads are invisible but for the end of the core in use (`TunnelEnds`).  Two facts
of the wrapper had to be in the promise: a connect whose configuration is refused fails
and leaves the tunnel there is, and a late start may meet a session that another start
made meanwhile.  The run keeps `BadConfigs` empty; the theorem covers configurations that
`loadConfigFromToml` refuses as well.

**The link.**  `ConfigOnlyToHelper` says what is on the wire; its induction needs why it
was written.  `LinkInv` adds the order of the handshake (`Ordered`: authenticated implies
proven, proven implies a socket that is up, a socket implies a launch), that a proven peer
is the helper launched, and what each connection may carry (`Sound`): a peer's proofs are
made with its own token, and either only greetings were written or the peer is that
helper.  A step lets go of the connection, makes one, or keeps it while one end writes
or reads (`LetGo`, the first step of `GuiStep`, `Kept`); each action is one of the three.

**The exchange.**  `LastClickWins`, `WindowTellsTruth` and `SessionBuiltFromSettings` speak
of the moment when nothing, or no order, is under way; their induction must say what every
message under way will do when it is read.  `OrdersInv` adds to `LinkInv` that only the
GUI's own socket goes to its helper, what a connection carries at each stage of the
handshake (`Greeting`), and, once it is through (`Talking`), the facts of `Exchange`:
the reports under way lead from the state in the window to that of the session (`Leads`);
a *connecting* or *disconnecting* flag that differs from the window's state will be settled
by a report, an order or an error under way (`StartSettles`, `StopSettles`); the settings
of the helper, overtaken by those under way, end in the GUI's (`InForce`), and the connect
that comes last meets the ones the GUI keeps as `m_sessionBuiltWith` (`BuiltRight`); after
the user's disconnect the last order is a disconnect or the session is at rest (`Obeyed`).
Lemmas on queues (`HasTail`, `HasConcat`, `BuildsTail`...) say what reading the first
message or writing after the last does to each; one lemma for each thing written or read
(`ConnectWritten`, `StateRead`, `ConnectTurnedDown`...) does it for `Exchange`, and
`OrdersStep` goes through the actions.  TLC checked the invariant with two and with three
messages under way before the proof.

**The fetch.**  `SecretsStayHome` needs to know why something was sent: `ReplyRight` says
that a reply belongs to an open fetch, goes to its origin and was asked for only once its
server was trusted.  `OneAnswer` counts, and its induction needs generations: every answer
on the event loop is of this fetch or an older one, at most one is of this fetch, and it
has a reply, an answer under way or an answer given, never two of them (`AnswersRight`).
So an abort, which bumps the generation, leaves an answer under way without effect.
`Unanswered` is what a step may start from, and one lemma (`FinishRight`) says what ending
a fetch does to it, for every error.

**The Android service.**  What the worker owns is changed by tasks that were queued before
it changed, so `AndroidInv` says of every task what it can still do.  `StartsInOrder`:
starts are delivered in order and a task of the last start is of its kind.  `CoreRight`: a
core's state that counts is of the generation the worker holds, and after its end nothing
of it runs.  `BlockedRight`: while traffic is held back without a core, the timer or a
retry in the queue has the newest number, or a revocation waits.  `StateRight`: what the
app shows is right unless a revocation waits.  `StopsRight`: after a stop or the end either
everything is down or the task that takes it down is still in the queue; without it the
state after a stop in the queue would be as good as the state after it.  `JobRight` is the
middle of a start: its TUN has no core yet, and its consent counts only in its epoch.  The
queue is taken as a set of tasks (`AppendWaits`, `TailWaits`), since no fact depends on
their order but the last.  The action property follows from the same invariant: a core
that ended or never started is not alive, so `fail()` stops none, and an overtaken start's
failure gives up no TUN (`StepsAreRight`).

**The uplink.**  Two threads and the owner write the process's binding without a lock, each
reading the adapter before and comparing it after.  The invariant is that once the
session's core has written (`HasWritten`) the binding is the stored adapter or somebody is
about to write it (`Corrects`): the owner, a thread that has read and not yet written, or a
thread that has written and will find its index stale.  For the looks, `LooksRight` says
how many have passed since the network last changed and what the last two found.

**The routing of connections.**  `RoutingSettles` needs `UpdatesRight` (the core has one
update under way and it carries what the session was given last) and `CoreFollows` (the
core applies that, unless the update is still under way, and it is the working set but for
the first step of an edit).  It holds for every choice of `Happens`.  `NoConnectionLeaks`
adds `PathInv`: each connection, asked about or queued, carries the snapshot of one of the
settings it has seen and will be completed by that one's core routing or a later one's
(`Carried`), since the core is given the list before the rules change.  From there
`GoesRight` is a case analysis over two settings and the three answers of a program rule.
It leaves out "burst" and "early", where an edit overtakes the update before it and a
connection comes before the adoption: there the property is false, which is what section
6 says of `qt_trusttunnel_connect.cpp:435`.

**The geo lists.**  The controller is treated as one record and its pump as a function of
it (`Pumped`), the smallest position with a list to act on being a fact of the naturals
(`SmallestOf`): one lemma says that it keeps `Steady` (one list is
read or downloaded at a time, it is the one shown as busy, only a list that was read is
downloaded) and changes no list, and that it ends with a job or an empty queue
(`Finished`).  What an edit queues comes from sets of keys turned into sequences, which is
what the finiteness is for.

**The password.**  `ReadsWhatWasSaved` speaks of the moments between operations; within one,
the password is in up to four places.  `Kept(f, pw)` says when they are right for a
configuration `f`: whoever reads in the order of the code finds `pw`, and an older password
lies only behind the one that is found.  A connect keeps this true at each of its steps
(`Moving`), which is why it may die anywhere.  A save does not, and `Saving` says which of two
things is true of it: no keyring took its password (`NotFiled`), all is as it was and the
read-back finds the old one; or one took it (`Filed`), and the read-back finds that one
exactly if the next connect will, which is what the commit asks.  `Importing` keeps it of
the file that was replaced.  The hypothesis `Undisturbed` leaves out what section 6 has of the
credential store, and no more: for each of its four parts TLC finds `ReadsWhatWasSaved`
violated as soon as that part is dropped.  TLC checked the invariant on seven choices of
the constants before it was proved.  What came of the attempt: a migration within a save's
read-back returned to the read-back's start instead of its end, and cases whose conditions
overlap, which TLC takes in order and the prover must not, are now nested conditions (also
in `AndroidTunnel`, `AppRules` and `ConfigVault`).

**The updates.**  `InstallsWhatWasOffered` speaks of a version on disk and a version in the
row, and what links them is spread over the check, three requests and eight steps of the
swap.  `UpdateInv` says it in five parts.  `CheckRight` and `DownloadRight`: of a check, and
of a download, one request is out at a time, the row offers nothing while a check is out and
shows a download while one is, and an installer is asked for only with a manifest of the
version found.  `OfferRight`: whenever the row offers, retries, fetches or installs, the
release found is the one announced, newer than what runs and not refused, which is also
what `RefusedIsNotRetried` needs.  `DiskRight` says where a whole build is at each step
of the swap and of the way back, any of whose file operations may fail, so that one is left
by a crash at any of them.  What it can say depends on what came before, and the ghost
`stranded` remembers it: "no" way back failed since the program was started, or one did and
the build is "kept" in the .old, or a swap was "retried" after that, which begins by removing
the .old; of that last case it says nothing, since there a whole program may be nowhere.  `EarlyRight` is why
clicks before the application's own check are left out: then a check may answer in the
middle of a download, which is what section 6 says of `BackendUpdates.cpp:369`.  What is
published meanwhile (`PublishedKeeps`) no step relies on.  TLC checked `UpdateInv` before
it was proved, on each platform, with crashes.

**The launches.**  That two launches are not both instances is decided by what each found at
three names, up to four steps before it listens itself.  `LaunchRight` is what makes the
finding last.  `StartsRight`: one launch is at its start at a time.  `NamesRight`: this
user's files are at this user's own name only.  `ListenRight`: that name is the listener's,
and who loads or runs listens, so two of them would hold one name.  `LookRight`: a launch that
went past this user's own name found nobody there, and since nobody else is at its start
nobody has come (`MoveKeeps`, `NobodyThere`).  `ClaimRight`: on macOS, where a full backlog
refuses as a stale file does, the listener has the claim and a claim of a live process is the
listener's.  Steps that give up the name, by a quit, an update or a crash, are one lemma
(`NameLostKeeps`), those that take it another (`NameTakenKeeps`).  Two launches at once are
left out since both find nobody (`AppGuiMain.cpp:265`), and a log-in since an instance that
listens at the name in /tmp is not given way to while it stalls (`InstanceControl.cpp:685`):
section 6 has both.  `ForwardedIsRun` adds `TokensRight`: the listener's token is the one
stored, unless none is, so what a launch read is the token of the listener it is connected
to; and `CommandsRight`: a command that waits has the right token with a listener that
still listens.  A store that locks, and a new build, break the first, as section 6 says.  TLC
checked these invariants on two and three launches before the proof.

**Only model-checked.**  Of the two core modules, liveness (`DisconnectCompletes`,
`LeftoversComeDown`, `KeepsTrying`, `NetworkWaitEnds`, `ClicksSettle`, `OrphansLeave`): the
prover does not treat fairness and ENABLED.  Of the suites, `RunsTheChosen`,
`NoUpdateForgotten`, `ServerMovesByConsent` and `QueueFlows` but for its part "fetch",
`PasswordGoesWithServer`, `NothingLost`, `RestartKeepsRules` and
`RoutedByItsProfile` but for "geo", `AnswersTruly`, `NoSilentGap`, `NoNeedlessWork` but for
its part "uplink", and `NothingForTheLate` but for its parts "update", "launches" and "other
accounts", the last without a log-in.
`AppRules` and `SocketTable` are algorithms on sequences whose result for every input would need
induction over data, which the installed backends cannot instantiate.  The others have
instances that leave out the disagreements of section 6 by their constants, and invariants
of several components' worth of facts; their theorems are left.  The modules with theorems
use no RECURSIVE operator.

## 8. Left

Proofs: the components of the suites that have none yet, `BackendSwitch` first.

Models: fairness and liveness for the components of the suites, above all that a held
update is applied and that an Android retry runs; pure functions against reference
definitions (backoff with jitter, version order, the syntax of config values).

## 9. Not modelled

Pure I/O and layout (desktop shell, QML, notifications), platform calls (routes, DNS,
adapters, elevation beyond its outcomes), the external core, the Android application
beside its service, and the text of configurations and links.  What the core does with two
sessions at once, and whether its destructor takes a tunnel down, is decided outside this
repository; the models allow what the wrapper can cause.

Inside the modelled components:

* `TunnelSession`: see section 3.  `HelperLink`: see section 4; a stranger on the port and
  the launch are taken further in `HelperStart`.
* `BackendSwitch`: closing the application.
* `ConfigVault`: a crash inside a step, between a file and its row; reads of the store that
  fail (`CredentialStore`); updates waiting for the tunnel (`SubscriptionRefresh`); the
  writes of a restart and of an update that comes under another operation's call succeed.
  The instance with crashes has "undo" and "delete" too, but two failures and crashes in all.
* `CredentialStore`: Linux only; the stores of macOS and Windows are a single call.
* `SplitSettings`: the scan for installed applications; a save cut on Windows after the
  first.
* `SubscriptionRefresh`: rebuilding after a write, failed writes of the records, custom SNI.
* `AppUpdate`: signatures and the order of versions are abstracted to a flaw of each kind;
  a program started by hand from the .old.
* `SplitRouting`: without "burst" an edit waits for the update before it; the one-by-one
  setters are left out.
* `ProcessLookup`: a socket that is asked about keeps its holder, a program replaced on
  Linux holds no socket at that moment; tables the system refuses to open and flows without
  an address are left to `SocketTable`.  A process or descriptor the system refuses to read
  is "unreadable": in the part "budget", for the walks it buys; its connections are answered
  as nobody's, so the part "answers" is without.  `SocketTable`: an IPv6-only and a dual wildcard on
  one port.
* `AppRules`: clear(), symbolic links.
* `UplinkFollower`: PPP adapters that stop, the write of an abandoned attempt's monitor.
* `CoreLogTail`: lines the application logs itself and blank lines.
* `HelperStart`: the launcher's end is heard before the next try; a token is read within
  the service's three seconds.
* `HelperService`: failing to register the control handler.
* `AndroidTunnel`: backoff delays, alerts, several instances of the service; failures of
  the validator and of the TUN are one outcome, "rejected"; consent is revoked by onRevoke
  only.
