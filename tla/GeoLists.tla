----------------------------- MODULE GeoLists -----------------------------
(***************************************************************************)
(* The geo lists of the split profiles: GeoListController, which reads     *)
(* each list's cache once and then keeps it up to date, one list at a      *)
(* time, and GeoListUpdater, which downloads one.  A list is known by its  *)
(* source and the direction it is used in; two profiles that name the same *)
(* share what was downloaded, and each keeps its own switch.               *)
(*                                                                         *)
(* Everything runs on the window's thread but the reading of a cache and   *)
(* the parsing and storing of a download, each on a thread of its own      *)
(* whose result is queued back.                                            *)
(*                                                                         *)
(* A list's contents are the key they were read for and one of two         *)
(* numbers, which a download that succeeds changes.  Time is two sets: the *)
(* lists downloaded longer ago than the update interval, and those not     *)
(* tried for an hour.                                                      *)
(***************************************************************************)
EXTENDS Naturals, Sequences, FiniteSets, SequencesExt

CONSTANTS Profiles,    \* split profiles
          Sources,     \* addresses of lists
          Directions,  \* "vpn", "bypass"
          MaxEdits,    \* edits made and refreshes asked for
          Happens      \* "oversize": a download may grow too large with its last bytes

GeoAssumption == /\ MaxEdits \in Nat /\ Profiles # {}
                 /\ IsFiniteSet(Sources) /\ IsFiniteSet(Directions)

ASSUME GeoConstants == GeoAssumption

VARIABLES rows,    \* AppSettings::profile_geo_lists
          hours,   \* m_updateHours: 0 is never
          queue, forced, loading, \* of the controller
          state,   \* GeoListController::m_states
          job,     \* GeoListUpdater: the download under way
          cache,   \* the files in the cache directory
          stale, rested, \* time
          edits    \* bound

ctl  == <<queue, forced, loading, state, job, rested>>
vars == <<rows, hours, ctl, cache, stale, edits>>

NoRow   == [on |-> FALSE]
NoKey   == <<>>
Nothing == [key |-> NoKey, n |-> 0]
NoJob   == [stage |-> "idle"]

\* GeoListController::key().
Key(s, d) == <<s, d>>
Keys == {Key(s, d) : s \in Sources, d \in Directions}

\* m_definitions: what some profile names, and what is on in some profile.
Defined(r) == {k \in Keys : \E p \in Profiles, s \in Sources :
                                r[p][s] # NoRow /\ k = Key(s, r[p][s].dir)}

Enabled(r) == {k \in Keys : \E p \in Profiles, s \in Sources :
                                r[p][s].on /\ k = Key(s, r[p][s].dir)}

TypeOK ==
    /\ \A p \in Profiles, s \in Sources :
          LET row == rows[p][s] IN row = NoRow \/ (row.dir \in Directions /\ row.on \in BOOLEAN)
    /\ hours \in {0, 24} /\ queue \in Seq(Keys) /\ forced \subseteq Keys
    /\ job = NoJob \/ (job.key \in Keys /\ job.stage \in {"request", "store"})
    /\ loading \in Keys \union {NoKey} /\ (loading # NoKey => job = NoJob)
    /\ (loading = NoKey /\ job = NoJob) => queue = <<>>
    /\ \A k \in Keys : /\ {state[k].loaded, state[k].error} \subseteq BOOLEAN
                       /\ state[k].busy = (loading = k \/ (job # NoJob /\ job.key = k))
    /\ stale \subseteq Keys /\ rested \subseteq Keys /\ edits \in 0 .. MaxEdits

-----------------------------------------------------------------------------
(* The controller.  c is its state, w what it reads: the rows, the update  *)
(* interval and which lists are stale.                                     *)

Controller == [queue |-> queue, forced |-> forced, loading |-> loading, state |-> state,
               job |-> job, rested |-> rested]
World      == [rows |-> rows, hours |-> hours, stale |-> stale]
Becomes(c) == /\ queue' = c.queue /\ forced' = c.forced /\ loading' = c.loading
              /\ state' = c.state /\ job' = c.job /\ rested' = c.rested

\* updateDue(), and what pump() asks besides.
Due(k, c, w) == c.state[k].list = Nothing \/ (w.hours > 0 /\ k \in w.stale)
Automatic(k, c, w) == /\ k \in Enabled(w.rows)
                      /\ k \in c.rested
                      /\ Due(k, c, w)

Acts(k, c, w) == /\ k \in Defined(w.rows)
                 /\ ~c.state[k].loaded \/ k \in c.forced \/ Automatic(k, c, w)

LoadOf(k, c) == [c EXCEPT !.loading = k, !.state[k].busy = TRUE]
DownloadOf(k, c) ==
    [c EXCEPT !.job = [stage |-> "request", key |-> k],
              !.forced = @ \ {k}, !.rested = @ \ {k}, !.state[k].busy = TRUE]

\* pump(): what has no reason to run is dropped, up to the first list that is
\* loaded or downloaded.
Pumped(c, w) ==
    LET ready == {i \in 1 .. Len(c.queue) : Acts(c.queue[i], c, w)}
        n == IF ready = {} THEN Len(c.queue) + 1 ELSE CHOOSE i \in ready : \A j \in ready : i <= j
        dropped == {c.queue[i] : i \in 1 .. (n - 1)}
        rest == [c EXCEPT !.queue = SubSeq(@, n + 1, Len(@)),
                          !.forced = @ \ (dropped \ Defined(w.rows))]
        k == c.queue[n]
    IN  IF c.loading # NoKey \/ c.job # NoJob THEN c
        ELSE IF ready = {} THEN [rest EXCEPT !.queue = <<>>]
        ELSE IF c.state[k].loaded THEN DownloadOf(k, rest) ELSE LoadOf(k, rest)

\* enqueue() for each of the keys.
Queued(c, ks) == [c EXCEPT !.queue = @ \o SetToSeq(ks \ ToSet(@))]

-----------------------------------------------------------------------------
(* The user's edits and the timer.                                         *)

Edits == edits < MaxEdits /\ edits' = edits + 1

\* applyProfileEdit(): syncGeoLists(), which is setDefinitions() and schedule().
Edited(r) ==
    /\ Edits
    /\ rows' = r
    /\ Becomes(Pumped(Queued(Controller, Enabled(r)), [World EXCEPT !.rows = r]))
    /\ UNCHANGED <<hours, cache, stale>>

AddGeoList(p, s, d) ==
    /\ rows[p][s] = NoRow
    /\ Edited([rows EXCEPT ![p][s] = [on |-> TRUE, dir |-> d]])

SetGeoListEnabled(p, s) ==
    /\ rows[p][s] # NoRow
    /\ Edited([rows EXCEPT ![p][s].on = ~@])

SetGeoListDirection(p, s, d) ==
    /\ rows[p][s] # NoRow
    /\ Edited([rows EXCEPT ![p][s].dir = d])

RemoveGeoList(p, s) ==
    /\ rows[p][s] # NoRow
    /\ Edited([rows EXCEPT ![p][s] = NoRow])

SetGeoUpdateHours ==
    /\ Edits
    /\ hours' = 24 - hours
    /\ Becomes(Pumped(Queued(Controller, Enabled(rows)), [World EXCEPT !.hours = 24 - hours]))
    /\ UNCHANGED <<rows, cache, stale>>

RefreshGeoList(p, s) ==
    /\ Edits
    /\ rows[p][s] # NoRow
    /\ LET k == Key(s, rows[p][s].dir)
       IN  Becomes(Pumped(Queued([Controller EXCEPT !.forced = @ \union {k}], {k}), World))
    /\ UNCHANGED <<rows, hours, cache, stale>>

\* The five-minute timer, by which time more lists may have become due.
Schedule ==
    /\ stale' \in {stale, stale \union Keys}
    /\ \E r \in {rested, rested \union Keys} :
          Becomes(Pumped(Queued([Controller EXCEPT !.rested = r], Enabled(rows)),
                         [World EXCEPT !.stale = stale']))
    /\ UNCHANGED <<rows, hours, cache, edits>>

\* The thread that reads a cache is done; a file that cannot be read is no list.
Loaded ==
    /\ loading # NoKey
    /\ Becomes(Pumped([Controller EXCEPT
                  !.state[loading] = [list |-> cache[loading], loaded |-> TRUE, busy |-> FALSE,
                                      error |-> state[loading].error],
                  !.loading = NoKey, !.queue = <<loading>> \o @], World))
    /\ UNCHANGED <<rows, hours, cache, stale, edits>>

-----------------------------------------------------------------------------
(* The updater.                                                            *)

\* Mutant: what the download brought, or did not, takes the list's place.
EndedRegardless(c, list) ==
    [c EXCEPT !.state[c.job.key] = [list |-> list, loaded |-> TRUE, busy |-> FALSE,
                                    error |-> list = Nothing],
              !.job = NoJob]

\* finish(): the controller's end of finished(), which keeps the list there was
\* when nothing usable came.
Ended(c, list) ==
    [c EXCEPT !.state[c.job.key] = [list |-> IF list = Nothing THEN @.list ELSE list,
                                    loaded |-> TRUE, busy |-> FALSE, error |-> list = Nothing],
              !.job = NoJob]

At(stage) == job # NoJob /\ job.stage = stage

\* The body of a good answer is handed to the thread that stores it.  Redirects,
\* up to five, are part of the request.
Downloaded ==
    /\ At("request")
    /\ job' = [job EXCEPT !.stage = "store"]
    /\ UNCHANGED <<rows, hours, queue, forced, loading, state, rested, cache, stale, edits>>

\* The address, the answer, a redirect or the size is refused, or the minute the
\* deadline allows is over.
DownloadFails ==
    /\ At("request")
    /\ Becomes(Pumped(Ended(Controller, Nothing), World))
    /\ UNCHANGED <<rows, hours, cache, stale, edits>>

\* The last bytes make it too large: downloaded() reads them, ends the download,
\* and goes on with the next one, which that has started, as if it were its own.
TooLargeAtTheEnd ==
    /\ "oversize" \in Happens
    /\ At("request")
    /\ LET next == Pumped(Ended(Controller, Nothing), World)
       IN  Becomes(IF next.job = NoJob THEN next ELSE Pumped(Ended(next, Nothing), World))
    /\ UNCHANGED <<rows, hours, cache, stale, edits>>

\* The storing thread is done: parsed for its direction, written, and only then
\* the list in memory; or neither.
Stored ==
    /\ At("store")
    /\ LET new == [key |-> job.key, n |-> IF cache[job.key].n = 1 THEN 2 ELSE 1]
       IN  \/ /\ cache' = [cache EXCEPT ![job.key] = new]
              /\ stale' = stale \ {job.key}
              /\ Becomes(Pumped(Ended(Controller, new), [World EXCEPT !.stale = stale']))
           \/ /\ UNCHANGED <<cache, stale>>
              /\ Becomes(Pumped(Ended(Controller, Nothing), World))
    /\ UNCHANGED <<rows, hours, edits>>

-----------------------------------------------------------------------------
\* The program starts with what it had downloaded by then.
Init == /\ rows = [p \in Profiles |-> [s \in Sources |-> NoRow]]
        /\ hours = 24 /\ queue = <<>> /\ forced = {} /\ loading = NoKey /\ job = NoJob
        /\ cache \in [Keys -> {Nothing} \union {[key |-> k, n |-> 1] : k \in Keys}]
        /\ \A k \in Keys : cache[k] # Nothing => cache[k].key = k
        /\ state = [k \in Keys |-> [list |-> Nothing, loaded |-> FALSE, busy |-> FALSE, error |-> FALSE]]
        /\ stale = {} /\ rested = Keys /\ edits = 0

Edit == \E p \in Profiles, s \in Sources :
           \/ \E d \in Directions : AddGeoList(p, s, d) \/ SetGeoListDirection(p, s, d)
           \/ SetGeoListEnabled(p, s) \/ RemoveGeoList(p, s) \/ RefreshGeoList(p, s)

Next == \/ Edit \/ SetGeoUpdateHours \/ Schedule \/ Loaded
        \/ Downloaded \/ DownloadFails \/ TooLargeAtTheEnd \/ Stored

Spec == Init /\ [][Next]_vars

-----------------------------------------------------------------------------
(* What must be right.                                                     *)

\* Once read, the list in memory is the one in the cache, whatever failed since:
\* a download that fails costs nothing, and none is shown that a restart would
\* not show (include/core/GeoListUpdater.h: failed downloads retain the cache).
MemoryIsTheCache == \A k \in Keys : state[k].loaded => state[k].list = cache[k]

\* The rules taken for a row were read for its own direction, in which the wide
\* subnets are refused that may not bypass the tunnel (GeoListCache.h:17-19).
OwnDirection ==
    \A p \in Profiles, s \in Sources :
        LET row == rows[p][s]
            list == state[Key(s, row.dir)].list
        IN  row # NoRow => list = Nothing \/ list.key = <<s, row.dir>>
=============================================================================
