------------------------ MODULE SubscriptionRefresh ------------------------
(***************************************************************************)
(* SubscriptionController and the part of Backend that drives it: when a   *)
(* linked configuration is fetched, the queue of fetches, what a document  *)
(* does to the configuration, the question asked when it names another     *)
(* server, and the one import that waits for the user.                     *)
(*                                                                         *)
(* Reading or writing the credential store runs an event loop: everything  *)
(* but the user's own input may be served meanwhile, and a credential call *)
(* made from there runs straight through (withoutFreezingTheUi).  c.loop   *)
(* is the call under way.  Time passes in checks of the scheduler.         *)
(*                                                                         *)
(* Every subscription follows the same server.  Whether the tunnel is      *)
(* between states is the environment's choice (BackendSwitch has it), the  *)
(* rebuild after a write is left out, and so are failed writes of          *)
(* subscriptions.json (ConfigVault has them).  A custom SNI is left out:   *)
(* it only forbids the automatic fetches.                                  *)
(***************************************************************************)
EXTENDS Naturals, Sequences, FiniteSets, SequencesExt

CONSTANTS
    Paths,       \* the configurations
    Hosts,       \* the servers a document may name
    Unusable,    \* versions of the document that make no usable configuration
    MaxVersion,  \* bound: versions the server publishes
    MaxFetches,  \* kMaxFetches
    Backoff,     \* kBackoffSeconds, in checks
    Interval,    \* subscriptionRefreshInterval(), in checks
    MaxJitter,   \* kMaxJitterSeconds, in checks
    KillSwitch,  \* killswitch_enabled
    MaxImports,  \* bound: imports opened
    Happens,     \* bound: what may happen besides, of "tunnel", "editor", "restart", "links"
    Token,       \* the key of an import's fetch
    Unlinked, NoUpdate, NoHost, NoImport, NoCall, Unread

RefreshAssumption ==
    /\ Paths # {} /\ Token \notin Paths
    /\ MaxFetches \in Nat \ {0} /\ Backoff \in Seq(Nat) /\ Interval \in Nat
    /\ MaxJitter \in Nat /\ MaxVersion \in Nat /\ MaxImports \in Nat

VARIABLES
    c,          \* SubscriptionController, the configurations and the calls Backend makes
    published,  \* the document the server serves
    tunnel,     \* the tunnel of the active configuration
    editor,     \* m_configOpenInEditor
    imports     \* imports opened so far

vars == <<c, published, tunnel, editor, imports>>

(***************************************************************************)
(* Types                                                                   *)
(***************************************************************************)
Docs == [host : Hosts, version : 0..MaxVersion]
Policies == {"Backoff", "ManualOnly"}
MaxWait == Interval + MaxJitter + 1
Records == [auto : BOOLEAN, failures : 0..(Len(Backoff) + 1), wait : 0..MaxWait,
            recent : BOOLEAN,              \* attempted since the last check
            asks : Hosts \cup {NoHost}]    \* heldHostname
Updates == [doc : Docs, manual : BOOLEAN]
Jobs == [key : Paths \cup {Token}, manual : BOOLEAN, got : Docs \cup {Unread}]
Imports == [stage : {"asked", "fetching", "fetched", "failed"}, given : BOOLEAN,
            doc : Docs, expired : BOOLEAN]
Calls == [kind : {"address"}, path : Paths, manual : BOOLEAN, rest : Seq(Paths), then : {"tick"}]
           \cup [kind : {"password", "store"}, path : Paths, update : Updates, rest : Seq(Paths),
                 then : {"flush", "pump"}]

TypeOK ==
    /\ c \in [rec : [Paths -> Records \cup {Unlinked}], held : [Paths -> Updates \cup {NoUpdate}],
              accepted : [Paths -> Hosts \cup {NoHost}],
              active : Paths,              \* m_activePath
              queued : Seq(Jobs), running : SUBSET Jobs,
              import : Imports \cup {NoImport}, flush : BOOLEAN, loop : Calls \cup {NoCall},
              file : [Paths -> Docs],      \* what the file and the password say
              failed : SUBSET Paths,       \* history: the last write failed
              agreed : [Paths -> Hosts \cup {NoHost}]]  \* history: the last answer's server
    /\ published \in Docs
    /\ tunnel \in {"settled", "connecting", "disconnecting"}
    /\ editor \in Paths \cup {NoCall} /\ imports \in 0..MaxImports

Linked(s, p) == s.rec[p] # Unlinked
Waits(s, p) == p = editor \/ (p = s.active /\ tunnel # "settled")

\* isFetching
Fetching(s, k) == \E j \in Range(s.queued) \cup s.running : j.key = k

\* isBusy: being applied, in the credential call under way.
Busy(s, p) == s.loop # NoCall /\ s.loop.kind # "address" /\ s.loop.path = p

Min2(a, b) == IF a <= b THEN a ELSE b

(***************************************************************************)
(* The queue                                                               *)
(***************************************************************************)
\* pump
Pump(s) ==
    LET n == Min2(Len(s.queued), MaxFetches - Cardinality(s.running))
    IN  [s EXCEPT !.running = @ \cup Range(SubSeq(s.queued, 1, n)),
                  !.queued = SubSeq(@, n + 1, Len(@))]

\* fetch
AddFetch(s, key, manual) ==
    IF Fetching(s, key) THEN s
    ELSE Pump([s EXCEPT !.queued = Append(@, [key |-> key, manual |-> manual, got |-> Unread])])

\* Mutant: a fetch let go leaves its place to nobody.
AbortWithoutPump(s, key) ==
    [s EXCEPT !.queued = SelectSeq(@, LAMBDA j : j.key # key),
              !.running = {j \in @ : j.key # key}]

\* abortFetch
AbortFetch(s, key) ==
    Pump([s EXCEPT !.queued = SelectSeq(@, LAMBDA j : j.key # key),
                   !.running = {j \in @ : j.key # key}])

\* Mutant: nothing is asked of the event loop while a credential call runs.
FlushWhenCalm(s) == [s EXCEPT !.flush = @ \/ (s.loop = NoCall /\ \E p \in Paths : s.held[p] # NoUpdate)]

\* flushHeldSubscriptionUpdates, up to the event loop
FlushHeld(s) == [s EXCEPT !.flush = @ \/ \E p \in Paths : s.held[p] # NoUpdate]

(***************************************************************************)
(* Records.  A wait is one check longer than the time it stands for: what  *)
(* is marked between two checks is due at the first check past it.         *)
(***************************************************************************)

\* markDocument
MarkDocument(r, resume, jitter) ==
    [r EXCEPT !.failures = 0, !.recent = TRUE, !.wait = Interval + jitter + 1, !.auto = @ \/ resume]

\* markFailure
MarkFailure(r, policy, jitter) ==
    LET n == Min2(r.failures + 1, Len(Backoff) + 1)
        f == [r EXCEPT !.failures = n, !.recent = TRUE]
    IN  IF policy = "ManualOnly" THEN [f EXCEPT !.auto = FALSE]
        ELSE IF n <= Len(Backoff) THEN [f EXCEPT !.wait = Backoff[n] + 1]
        ELSE [f EXCEPT !.wait = Interval + jitter + 1]

NoteDocument(s, p, resume, j) ==
    IF Linked(s, p) THEN [s EXCEPT !.rec[p] = MarkDocument(@, resume, j)] ELSE s
NoteFailure(s, p, policy, j) ==
    IF Linked(s, p) THEN [s EXCEPT !.rec[p] = MarkFailure(@, policy, j)] ELSE s

\* noteApplied
NoteApplied(s, p, u, j) ==
    LET t == [s EXCEPT !.held[p] = NoUpdate, !.accepted[p] = NoHost, !.failed = @ \ {p},
                       !.rec[p] = IF Linked(s, p) THEN [s.rec[p] EXCEPT !.asks = NoHost] ELSE @]
    IN  NoteDocument(t, p, u.manual, j)

\* refreshSoon
RefreshSoon(s, p) ==
    IF Linked(s, p) /\ s.rec[p].auto THEN [s EXCEPT !.rec[p].wait = 0] ELSE s

(***************************************************************************)
(* Starting a refresh (startSubscriptionRefresh), with the address asked   *)
(* of the keyring: `open` says whether the keyring answers.                *)
(***************************************************************************)
MayStart(s, p) == ~Fetching(s, p) /\ ~Busy(s, p)

\* Past the call.
AddressRead(s, p, manual, open, j) ==
    IF ~Linked(s, p) \/ Fetching(s, p) THEN s
    ELSE IF open THEN AddFetch(s, p, manual) ELSE NoteFailure(s, p, "Backoff", j)

\* tick: which configurations are due.
Due(s, p) == /\ Linked(s, p) /\ s.rec[p].auto /\ s.rec[p].wait = 0 /\ ~s.rec[p].recent
             /\ MayStart(s, p) /\ ~(KillSwitch /\ tunnel = "connecting")

(***************************************************************************)
(* Applying a document (applySubscriptionUpdate)                           *)
(***************************************************************************)
\* Mutant: a yes is a yes to any server.
AcceptedAny(s, p, host) == s.accepted[p] # NoHost

\* hostnameAccepted
Accepted(s, p, host) == s.accepted[p] = host

\* What a document does to a configuration.
Decide(s, p, u, open) ==
    CASE ~Linked(s, p) -> "gone"
      [] Linked(s, p) /\ u.doc.version \in Unusable -> "unusable"
      [] OTHER ->
           IF open /\ s.file[p] = u.doc THEN "same"
           ELSE IF s.file[p].host # u.doc.host /\ ~Accepted(s, p, u.doc.host) THEN "ask"
           ELSE IF Waits(s, p) THEN "wait" ELSE "write"

\* holdForHostname, hold, noteSubscriptionNotApplied: all but the write.
Settle(s, p, u, verdict, j) ==
    CASE verdict = "gone" -> s
      [] verdict = "unusable" -> NoteFailure(s, p, "Backoff", j)
      [] verdict = "same" -> NoteApplied(s, p, u, j)
      [] verdict = "ask" -> NoteDocument([s EXCEPT !.held[p] = u, !.accepted[p] = NoHost,
                                                   !.rec[p].asks = u.doc.host], p, FALSE, j)
      [] verdict = "wait" -> NoteDocument([s EXCEPT !.held[p] = u], p, u.manual, j)

\* Past saveConfigWithPassword, which leaves all as it was when it fails.
Written(s, p, u, open, j) ==
    IF open
    THEN NoteApplied([s EXCEPT !.file[p] = u.doc,
                               !.agreed[p] = IF s.file[p].host = u.doc.host THEN @ ELSE NoHost], p, u, j)
    ELSE NoteFailure([s EXCEPT !.failed = @ \cup {p}], p, "Backoff", j)

\* From within another call: straight through.
ApplyAtOnce(s, p, u, open, j) ==
    LET verdict == Decide(s, p, u, open)
    IN  IF Busy(s, p) THEN RefreshSoon(s, p)
        ELSE IF verdict = "write" THEN Written(s, p, u, open, j) ELSE Settle(s, p, u, verdict, j)

\* What flushHeldSubscriptionUpdates applies.
Ready(s, p) == s.held[p] # NoUpdate /\ Linked(s, p) /\ s.rec[p].asks = NoHost /\ ~Waits(s, p)

(***************************************************************************)
(* Handlers that make several calls: `rest` is what they have still to     *)
(* look at once the call under way returns.                                *)
(***************************************************************************)
Order == SetToSeq(Paths)
Call(s, kind, p, u, rest, then) ==
    [s EXCEPT !.loop = [kind |-> kind, path |-> p, update |-> u, rest |-> rest, then |-> then]]

\* The tick's next fetch, with no call under way.
TickOn(s, rest) ==
    LET n == SelectInSeq(rest, LAMBDA p : Due(s, p))
    IN  [s EXCEPT !.loop = IF n = 0 THEN NoCall
                           ELSE [kind |-> "address", path |-> rest[n], manual |-> FALSE,
                                 rest |-> SubSeq(rest, n + 1, Len(rest)), then |-> "tick"]]

\* The flush's next update, with no call under way.
FlushOn(s, rest) ==
    LET n == SelectInSeq(rest, LAMBDA p : Ready(s, p))
    IN  IF n = 0 THEN [s EXCEPT !.loop = NoCall]
        ELSE Call(s, "password", rest[n], s.held[rest[n]], SubSeq(rest, n + 1, Len(rest)), "flush")

\* Once a document is applied: the rest of the flush, or of onFetched.
Continue(s, call) ==
    LET t == [s EXCEPT !.loop = NoCall]
    IN  IF call.then = "flush" THEN FlushOn(t, call.rest) ELSE Pump(t)

(***************************************************************************)
(* The event loop                                                          *)
(***************************************************************************)
Calm == c.loop = NoCall  \* no credential call under way: the user is heard
Jitters == 0..MaxJitter

\* m_timer and tick: one check passes.
Check ==
    LET Passed(r) == IF r = Unlinked THEN r
                     ELSE [r EXCEPT !.wait = IF @ = 0 THEN 0 ELSE @ - 1, !.recent = FALSE]
        late == [c EXCEPT !.rec = [p \in Paths |-> Passed(@[p])]]
        rest == SelectSeq(Order, LAMBDA p : Linked(c, p) /\ ~c.rec[p].recent)
    IN  /\ IF Calm THEN c' = TickOn(late, rest)
           ELSE \E open \in BOOLEAN, j \in Jitters :
                   c' = FoldLeft(LAMBDA s, p : IF Due(s, p) THEN AddressRead(s, p, FALSE, open, j) ELSE s,
                                 late, rest)
        /\ UNCHANGED <<published, tunnel, editor, imports>>

\* The keyring answers with the address, or does not.
AddressReturns(p, open) ==
    /\ ~Calm /\ c.loop.kind = "address" /\ c.loop.path = p
    /\ \E j \in Jitters : c' = TickOn(AddressRead([c EXCEPT !.loop = NoCall], p, c.loop.manual, open, j),
                                      c.loop.rest)
    /\ UNCHANGED <<published, tunnel, editor, imports>>

PasswordReturns ==
    /\ ~Calm /\ c.loop.kind = "password"
    /\ \E open \in BOOLEAN, j \in Jitters :
          LET verdict == Decide(c, c.loop.path, c.loop.update, open)
          IN  c' = IF verdict = "write" THEN [c EXCEPT !.loop.kind = "store"]
                   ELSE Continue(Settle(c, c.loop.path, c.loop.update, verdict, j), c.loop)
    /\ UNCHANGED <<published, tunnel, editor, imports>>

StoreReturns(p, open) ==
    /\ ~Calm /\ c.loop.kind = "store" /\ c.loop.path = p
    /\ \E j \in Jitters : c' = Continue(Written(c, p, c.loop.update, open, j), c.loop)
    /\ UNCHANGED <<published, tunnel, editor, imports>>

\* flushHeldSubscriptionUpdates, from the event loop.
Flush ==
    /\ c.flush
    /\ LET s == [c EXCEPT !.flush = FALSE]
       IN  IF Calm THEN c' = FlushOn(s, Order)
           ELSE \E open \in BOOLEAN, j \in Jitters :
                   c' = FoldLeft(LAMBDA t, p : IF Ready(t, p) THEN ApplyAtOnce(t, p, t.held[p], open, j)
                                               ELSE t, s, Order)
    /\ UNCHANGED <<published, tunnel, editor, imports>>

(***************************************************************************)
(* Fetches                                                                 *)
(***************************************************************************)
\* The server answers: what it serves now is what the fetch gives.
ServerAnswers(k) ==
    /\ \E job \in c.running :
          /\ job.key = k /\ job.got = Unread
          /\ c' = [c EXCEPT !.running = (@ \ {job}) \cup {[job EXCEPT !.got = published]}]
    /\ UNCHANGED <<published, tunnel, editor, imports>>

\* close
CloseImport(s) == AbortFetch([s EXCEPT !.import = NoImport], Token)

\* onFetched, onSubscriptionImportFetched
ImportFetched(s, doc) ==
    IF s.import = NoImport THEN s
    ELSE IF s.import.expired THEN CloseImport(s)
    ELSE IF doc # Unread /\ doc.version \notin Unusable
         THEN [s EXCEPT !.import.stage = "fetched", !.import.doc = doc]
    ELSE IF s.import.given THEN [s EXCEPT !.import.stage = "failed"] ELSE CloseImport(s)

\* onFetched, onSubscriptionFetched: a document came.
Fetched(k, open) ==
    /\ \E job \in c.running :
          LET s == [c EXCEPT !.running = @ \ {job}]
              u == [doc |-> job.got, manual |-> job.manual]
          IN  /\ job.key = k /\ job.got # Unread
              /\ IF k = Token THEN c' = Pump(ImportFetched(s, job.got))
                 ELSE IF ~Linked(s, k) THEN c' = Pump(s)
                 ELSE IF Calm THEN c' = Call(s, "password", k, u, <<>>, "pump")
                 ELSE \E j \in Jitters : c' = Pump(ApplyAtOnce(s, k, u, open, j))
    /\ UNCHANGED <<published, tunnel, editor, imports>>

\* The same for a fetch that failed.
FetchFailed(k) ==
    /\ \E job \in c.running, policy \in Policies, j \in Jitters :
          LET s == [c EXCEPT !.running = @ \ {job}]
          IN  /\ job.key = k
              /\ c' = Pump(IF k = Token THEN ImportFetched(s, Unread) ELSE NoteFailure(s, k, policy, j))
    /\ UNCHANGED <<published, tunnel, editor, imports>>

(***************************************************************************)
(* The user                                                                *)
(***************************************************************************)
\* refreshSubscription
Refresh(p) ==
    /\ Calm /\ Linked(c, p) /\ MayStart(c, p)
    /\ c' = [c EXCEPT !.loop = [kind |-> "address", path |-> p, manual |-> TRUE,
                                rest |-> <<>>, then |-> "tick"]]
    /\ UNCHANGED <<published, tunnel, editor, imports>>

\* answerHostnameChange, answerHostname
Answer(p, accept) ==
    /\ Calm /\ Linked(c, p) /\ c.rec[p].asks # NoHost
    /\ LET host == c.rec[p].asks
           s == [c EXCEPT !.rec[p].asks = NoHost,
                          !.rec[p].auto = @ /\ accept,
                          !.accepted[p] = IF accept THEN host ELSE @,
                          !.held[p] = IF accept THEN @ ELSE NoUpdate,
                          !.agreed[p] = IF accept THEN host ELSE NoHost]
       IN  c' = IF ~accept THEN s
                ELSE IF s.held[p] # NoUpdate THEN [s EXCEPT !.flush = TRUE]
                ELSE IF ~MayStart(s, p) THEN s
                ELSE [s EXCEPT !.loop = [kind |-> "address", path |-> p, manual |-> TRUE,
                                         rest |-> <<>>, then |-> "tick"]]
    /\ UNCHANGED <<published, tunnel, editor, imports>>

\* forget
Forgotten(s, p) ==
    [AbortFetch(s, p) EXCEPT !.held[p] = NoUpdate, !.accepted[p] = NoHost, !.rec[p] = Unlinked,
                             !.failed = @ \ {p}, !.agreed[p] = NoHost]

\* detachSubscription, and what a removal does.
Forget(p) ==
    /\ Calm /\ Linked(c, p)
    /\ c' = Forgotten(c, p)
    /\ UNCHANGED <<published, tunnel, editor, imports>>

\* rename, of the configuration with all it has.
Rename(p, q) ==
    /\ "links" \in Happens
    /\ Calm /\ Linked(c, p) /\ ~Linked(c, q) /\ p # q /\ q # c.active
    /\ LET Moved(f, none) == [f EXCEPT ![q] = f[p], ![p] = none]
       IN  c' = [AbortFetch(c, p) EXCEPT !.rec = Moved(@, Unlinked), !.held = Moved(@, NoUpdate),
                                         !.accepted = Moved(@, NoHost), !.agreed = Moved(@, NoHost),
                                         !.file[q] = c.file[p], !.active = IF @ = p THEN q ELSE @,
                                         !.failed = IF p \in @ THEN (@ \ {p}) \cup {q} ELSE @]
    /\ UNCHANGED <<published, tunnel, editor, imports>>

\* setConfigOpenInEditor
OpenEditor ==
    /\ "editor" \in Happens /\ Calm
    /\ editor' \in (Paths \cup {NoCall}) \ {editor}
    /\ c' = FlushHeld(c)
    /\ UNCHANGED <<published, tunnel, imports>>

\* offerSubscription, open: a link, from the user or from a second launch.
OpenImport ==
    /\ imports < MaxImports /\ imports' = imports + 1
    /\ \E given \in BOOLEAN :
          c' = [(IF c.import = NoImport THEN c ELSE CloseImport(c))
                  EXCEPT !.import = [stage |-> "asked", given |-> given, doc |-> published,
                                     expired |-> FALSE]]
    /\ UNCHANGED <<published, tunnel, editor>>

\* fetchSubscriptionForImport
AgreeToFetch ==
    /\ Calm /\ c.import # NoImport /\ c.import.stage \in {"asked", "failed"}
    /\ c' = IF c.import.expired THEN CloseImport(c)
            ELSE AddFetch([c EXCEPT !.import.stage = "fetching"], Token, TRUE)
    /\ UNCHANGED <<published, tunnel, editor, imports>>

\* cancelSubscriptionImport
CancelImport ==
    /\ Calm /\ c.import # NoImport
    /\ c' = CloseImport(c)
    /\ UNCHANGED <<published, tunnel, editor, imports>>

\* confirmSubscriptionImport, of a new configuration or in place of one linked to
\* the same subscription.  Storing the address, writing the configuration or
\* saving the link may fail.
ConfirmImport(p) ==
    /\ Calm /\ c.import # NoImport /\ c.import.stage \in {"fetched", "failed"}
    /\ LET given == c.import.stage = "failed"
           closed == CloseImport(c)
           new == [auto |-> TRUE, failures |-> 0, wait |-> 0, recent |-> TRUE, asks |-> NoHost]
       IN  \E host \in Hosts, j \in Jitters, policy \in Policies, failing \in {"no", "store", "link"} :
             c' = IF c.import.expired \/ failing = "store" THEN closed
                  ELSE [Forgotten(closed, p) EXCEPT
                          !.file[p] = IF given THEN [host |-> host, version |-> 0] ELSE c.import.doc,
                          !.rec[p] = IF failing = "link" THEN Unlinked
                                     ELSE IF given THEN MarkFailure(new, policy, j)
                                     ELSE MarkDocument(new, TRUE, j)]
    /\ UNCHANGED <<published, tunnel, editor, imports>>

(***************************************************************************)
(* The rest of the world                                                   *)
(***************************************************************************)
\* Ten minutes pass without an answer.
ImportExpires ==
    /\ c.import # NoImport /\ ~c.import.expired
    /\ c' = [c EXCEPT !.import.expired = TRUE]
    /\ UNCHANGED <<published, tunnel, editor, imports>>

Publish ==
    /\ published.version < MaxVersion
    /\ \E host \in Hosts : published' = [host |-> host, version |-> published.version + 1]
    /\ UNCHANGED <<c, tunnel, editor, imports>>

\* onVpnClientStateChanged: a tunnel that settles lets what was held go on.
TunnelMoves ==
    /\ "tunnel" \in Happens
    /\ tunnel' \in {"settled", "connecting", "disconnecting"} \ {tunnel}
    /\ c' = IF tunnel' = "settled" THEN FlushHeld(c) ELSE c
    /\ UNCHANGED <<published, editor, imports>>

\* The application ends, however it does, and starts again: the records last.
Restart ==
    /\ "restart" \in Happens
    /\ c' = [c EXCEPT !.held = [p \in Paths |-> NoUpdate], !.accepted = [p \in Paths |-> NoHost],
                      !.queued = <<>>, !.running = {}, !.import = NoImport, !.flush = FALSE,
                      !.loop = NoCall, !.failed = {}]
    /\ tunnel' = "settled" /\ editor' = NoCall
    /\ UNCHANGED <<published, imports>>

Init ==
    /\ \E linked \in SUBSET Paths, host \in Hosts, active \in Paths :
          LET first == [host |-> host, version |-> 0]
          IN  /\ c = [active |-> active, rec |-> [p \in Paths |-> IF p \in linked
                                 THEN [auto |-> TRUE, failures |-> 0, wait |-> 0, recent |-> FALSE,
                                       asks |-> NoHost] ELSE Unlinked],
                      held |-> [p \in Paths |-> NoUpdate], accepted |-> [p \in Paths |-> NoHost],
                      queued |-> <<>>, running |-> {}, import |-> NoImport, flush |-> FALSE,
                      loop |-> NoCall, file |-> [p \in Paths |-> first], failed |-> {},
                      agreed |-> [p \in Paths |-> NoHost]]
              /\ published = first
    /\ tunnel = "settled" /\ editor = NoCall /\ imports = 0

Handlers == \/ Check \/ PasswordReturns \/ Flush
            \/ \E p \in Paths, open \in BOOLEAN : AddressReturns(p, open) \/ StoreReturns(p, open)
            \/ \E k \in Paths \cup {Token}, open \in BOOLEAN : Fetched(k, open)
            \/ \E k \in Paths \cup {Token} : ServerAnswers(k) \/ FetchFailed(k)
User == \/ OpenEditor \/ OpenImport \/ AgreeToFetch \/ CancelImport
        \/ \E p \in Paths : \/ Refresh(p) \/ Forget(p) \/ ConfirmImport(p)
                            \/ \E accept \in BOOLEAN : Answer(p, accept)
                            \/ \E q \in Paths : Rename(p, q)
World == ImportExpires \/ Publish \/ TunnelMoves \/ Restart

Next == Handlers \/ User \/ World

Spec == Init /\ [][Next]_vars

(***************************************************************************)
(* Properties                                                              *)
(***************************************************************************)
\* FetchIsWanted.  Nothing is fetched for a configuration no longer linked, nor for
\* an import before the user agreed to it or after it was closed, and nothing twice
\* at a time (fetch, abortFetch, close).
FetchIsWanted ==
    LET jobs == Range(c.queued) \cup c.running
    IN  /\ \A job \in jobs : IF job.key = Token THEN c.import # NoImport /\ c.import.stage = "fetching"
                             ELSE Linked(c, job.key)
        /\ \A k \in {job.key : job \in jobs} :
              Cardinality({i \in DOMAIN c.queued : c.queued[i].key = k})
                + Cardinality({job \in c.running : job.key = k}) = 1

\* QueueFlows.  A fetch waits only while others take every place, or while the
\* handler that gave one up is not done (pump).
QueueFlows ==
    /\ Cardinality(c.running) <= MaxFetches
    /\ (c.queued # <<>> => \/ Cardinality(c.running) = MaxFetches
                           \/ (c.loop # NoCall /\ c.loop.then = "pump"))

Refreshed(p) == Linked(c, p) /\ Linked(c', p) /\ c'.import = c.import

\* ServerMovesByConsent.  No step of a refresh moves a configuration to another server unless
\* the user's last answer was yes to that server (applySubscriptionUpdate).
ServerMovesByConsent ==
    \A p \in Paths : Refreshed(p) /\ c'.file[p].host # c.file[p].host
        => c.agreed[p] = c'.file[p].host

\* NeverGoesBack.  A refresh never writes an older document over a newer one, whatever
\* was held, fetched or being applied meanwhile.
NeverGoesBack ==
    \A p \in Paths : Refreshed(p) => c'.file[p].version >= c.file[p].version

\* HeldForAReason.  An update stays held while the tunnel or the editor has the
\* configuration, while a question about its server waits for the user, or because its
\* last write failed (applySubscriptionUpdate, flushHeldSubscriptionUpdates).
HeldForAReason ==
    \A p \in Paths : Linked(c, p) /\ c.held[p] # NoUpdate /\ ~c.flush /\ Calm
        => Waits(c, p) \/ editor # NoCall \/ p \in c.failed \/ c.rec[p].asks # NoHost
=============================================================================
