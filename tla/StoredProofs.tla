---------------------------- MODULE StoredProofs ----------------------------
(***************************************************************************)
(* Theorems about what the application keeps: GeoLists, for any profiles,  *)
(* lists and directions and any number of edits, and CredentialStore, for  *)
(* any number of passwords, any number of failing calls, and the           *)
(* operations, the faults and the keyring clients it says.                 *)
(***************************************************************************)
EXTENDS GeoLists, CredentialStore, FiniteSetTheorems, WellFoundedInduction, TLAPS

(***************************************************************************)
(* The controller, and what is right about it in every state.              *)
(***************************************************************************)
Lists  == [key : Keys \cup {NoKey}, n : {0, 1, 2}]
States == [list : Lists, loaded : BOOLEAN, busy : BOOLEAN, error : BOOLEAN]
Jobs   == {NoJob} \cup [stage : {"request", "store"}, key : Keys]
Ctls   == [queue : Seq(Keys), forced : SUBSET Keys, loading : Keys \cup {NoKey},
           state : [Keys -> States], job : Jobs, rested : SUBSET Keys]
RowSet == {NoRow} \cup [on : BOOLEAN, dir : Directions]

\* One list is read or downloaded at a time, it is the one shown as busy, and only a
\* list that was read is downloaded.
Steady(c) ==
    /\ c.loading # NoKey => c.job = NoJob
    /\ c.job # NoJob => c.state[c.job.key].loaded
    /\ \A k \in Keys : c.state[k].busy <=> (c.loading = k \/ (c.job # NoJob /\ c.job.key = k))
    /\ \A k \in Keys : ~c.state[k].loaded => c.state[k].list = Nothing

\* An idle controller has nothing left to look at.
Finished(c) == c.loading = NoKey /\ c.job = NoJob => c.queue = <<>>

SameLists(c, d) == \A k \in Keys : /\ d.state[k].list = c.state[k].list
                                   /\ d.state[k].loaded <=> c.state[k].loaded

CacheRight == /\ cache \in [Keys -> Lists]
              /\ \A k \in Keys : cache[k] # Nothing => cache[k].key = k

GeoInv ==
    /\ rows \in [Profiles -> [Sources -> RowSet]] /\ hours \in {0, 24}
    /\ stale \subseteq Keys /\ edits \in 0..MaxEdits
    /\ Controller \in Ctls /\ Steady(Controller) /\ Finished(Controller)
    /\ CacheRight /\ MemoryIsTheCache

(***************************************************************************)
(* Lists and their keys.                                                   *)
(***************************************************************************)
LEMMA KeysAre ==
    /\ Keys = Sources \X Directions /\ NoKey \notin Keys
    /\ \A s \in Sources, d \in Directions : Key(s, d) \in Keys /\ Key(s, d) = <<s, d>>
<1>1. Keys = Sources \X Directions
    BY DEF Keys, Key
<1>2. NoKey \notin Sources \X Directions
    BY DEF NoKey
<1> QED  BY <1>1, <1>2 DEF Key

LEMMA NothingIsAList == Nothing \in Lists /\ \A k : [key |-> k, n |-> 1] # Nothing
                                            /\ [key |-> k, n |-> 2] # Nothing
BY DEF Nothing, Lists

LEMMA JobsAre ==
    ASSUME NEW j \in Jobs, j # NoJob
    PROVE  j.key \in Keys /\ j.stage \in {"request", "store"}
BY DEF Jobs

LEMMA RequestIsAJob ==
    ASSUME NEW k \in Keys
    PROVE  LET j == [stage |-> "request", key |-> k]
           IN  j \in Jobs /\ j # NoJob /\ j.key = k
BY DEF Jobs, NoJob

LEMMA SmallestOf ==
    ASSUME NEW S \in SUBSET Nat, S # {}
    PROVE  \E i \in S : \A j \in S : i <= j
<1> DEFINE R == OpToRel(<, Nat)
<1>1. IsWellFoundedOn(R, Nat)
    BY NatLessThanWellFounded
<1>2. \A i, j \in Nat : <<i, j>> \in R <=> i < j
    BY DEF OpToRel
<1> HIDE DEF R
<1>3. PICK i \in S : \A j \in S : ~(<<j, i>> \in R)
    BY <1>1, WFMin
<1>4. \A j \in S : ~(j < i)
    BY <1>2, <1>3
<1> QED  BY <1>4

\* A finite set becomes a sequence of its members.
LEMMA SequenceOf ==
    ASSUME NEW S, IsFiniteSet(S)
    PROVE  SetToSeq(S) \in Seq(S)
<1>1. Cardinality(S) \in Nat /\ ExistsBijection(1..Cardinality(S), S)
    BY FS_CardinalityType
<1>2. PICK f \in [1..Cardinality(S) -> S] : IsInjective(f)
    BY <1>1 DEF ExistsBijection, Bijection, Injection
<1>3. SetToSeq(S) \in [1..Cardinality(S) -> S]
    BY <1>2 DEF SetToSeq
<1> QED  BY <1>1, <1>3

LEMMA QueuedAre ==
    ASSUME GeoAssumption, NEW c \in Ctls, NEW ks \in SUBSET Keys
    PROVE  /\ Queued(c, ks) \in Ctls /\ SameLists(c, Queued(c, ks))
           /\ Steady(c) => Steady(Queued(c, ks))
<1>1. IsFiniteSet(Keys)
    BY KeysAre, FS_Product DEF GeoAssumption
<1> DEFINE more == SetToSeq(ks \ ToSet(c.queue))
<1>2. more \in Seq(Keys)
    <2>1. ks \ ToSet(c.queue) \in SUBSET Keys
        OBVIOUS
    <2>2. IsFiniteSet(ks \ ToSet(c.queue))
        BY <1>1, <2>1, FS_Subset
    <2>3. more \in Seq(ks \ ToSet(c.queue))
        BY <2>2, SequenceOf
    <2> HIDE DEF more
    <2>4. \A i \in 1..Len(more) : more[i] \in Keys
        BY <2>1, <2>3
    <2> QED  BY <2>3, <2>4
<1> HIDE DEF more
<1>3. Queued(c, ks) = [c EXCEPT !.queue = c.queue \o more]
    BY DEF Queued, more
<1>4. c.queue \o more \in Seq(Keys)
    BY <1>2 DEF Ctls
<1>5. /\ Queued(c, ks) \in Ctls
      /\ Queued(c, ks).state = c.state /\ Queued(c, ks).job = c.job
      /\ Queued(c, ks).loading = c.loading
    BY <1>3, <1>4 DEF Ctls
<1> QED  BY <1>5 DEF SameLists, Steady

(***************************************************************************)
(* What the controller does.                                               *)
(***************************************************************************)
LEMMA BusyOne ==
    ASSUME NEW st \in [Keys -> States], NEW k \in Keys
    PROVE  LET t == [st EXCEPT ![k].busy = TRUE]
           IN  /\ t \in [Keys -> States] /\ t[k].busy
               /\ \A j \in Keys : /\ t[j].list = st[j].list
                                  /\ t[j].loaded <=> st[j].loaded
                                  /\ j # k => t[j] = st[j]
<1> DEFINE one == [st[k] EXCEPT !.busy = TRUE]
           t == [st EXCEPT ![k] = one]
<1>1. st[k] \in States
    OBVIOUS
<1>2. one \in States /\ one.list = st[k].list /\ one.loaded = st[k].loaded /\ one.busy = TRUE
    BY <1>1 DEF States
<1> HIDE DEF one
<1>3. /\ t \in [Keys -> States] /\ t[k] = one
      /\ \A j \in Keys : j # k => t[j] = st[j]
    BY <1>2
<1>4. t = [st EXCEPT ![k].busy = TRUE]
    BY DEF one
<1> HIDE DEF t
<1>5. \A j \in Keys : t[j].list = st[j].list /\ t[j].loaded = st[j].loaded
    BY <1>2, <1>3
<1>6. t[k].busy
    BY <1>2, <1>3
<1> QED  BY <1>3, <1>4, <1>5, <1>6

LEMMA LoadOfRight ==
    ASSUME NEW c \in Ctls, NEW k \in Keys, Steady(c), c.loading = NoKey, c.job = NoJob
    PROVE  /\ LoadOf(k, c) \in Ctls /\ Steady(LoadOf(k, c)) /\ Finished(LoadOf(k, c))
           /\ SameLists(c, LoadOf(k, c))
<1> DEFINE d == LoadOf(k, c)
           t == [c.state EXCEPT ![k].busy = TRUE]
<1>1. c.state \in [Keys -> States]
    BY DEF Ctls
<1>2. d.state = t /\ d.loading = k /\ d.job = c.job /\ d.queue = c.queue
      /\ d = [c EXCEPT !.loading = k, !.state = t]
    BY DEF LoadOf, Ctls
<1>3. /\ t \in [Keys -> States] /\ t[k].busy
      /\ \A j \in Keys : /\ t[j].list = c.state[j].list
                         /\ t[j].loaded <=> c.state[j].loaded
                         /\ j # k => t[j] = c.state[j]
    BY <1>1, BusyOne
<1> HIDE DEF d, t
<1>4. d \in Ctls
    BY <1>2, <1>3 DEF Ctls
<1>5. SameLists(c, d)
    BY <1>2, <1>3 DEF SameLists
<1>6. k # NoKey
    BY KeysAre
<1>7. \A j \in Keys : ~c.state[j].busy
    <2>1. \A j \in Keys : c.loading # j
        BY KeysAre
    <2> QED  BY <2>1 DEF Steady
<1>8. \A j \in Keys : d.state[j].busy <=> (d.loading = j \/ (d.job # NoJob /\ d.job.key = j))
    <2>1. TAKE j \in Keys
    <2>2. CASE j = k
        BY <1>2, <1>3, <2>2
    <2>3. CASE j # k
        <3>1. ~d.state[j].busy
            BY <1>2, <1>3, <1>7, <2>3
        <3> QED  BY <1>2, <2>3, <3>1
    <2> QED  BY <2>2, <2>3
<1>9. Steady(d)
    <2>1. \A j \in Keys : ~d.state[j].loaded => d.state[j].list = Nothing
        BY <1>2, <1>3 DEF Steady
    <2> QED  BY <1>2, <1>8, <2>1 DEF Steady
<1> QED  BY <1>2, <1>4, <1>5, <1>6, <1>9 DEF d, Finished

LEMMA DownloadOfRight ==
    ASSUME NEW c \in Ctls, NEW k \in Keys, Steady(c), c.loading = NoKey, c.job = NoJob,
           c.state[k].loaded
    PROVE  /\ DownloadOf(k, c) \in Ctls /\ Steady(DownloadOf(k, c))
           /\ Finished(DownloadOf(k, c)) /\ SameLists(c, DownloadOf(k, c))
<1> DEFINE d == DownloadOf(k, c)
           t == [c.state EXCEPT ![k].busy = TRUE]
           j1 == [stage |-> "request", key |-> k]
           f == c.forced \ {k}
           r == c.rested \ {k}
<1>1. c.state \in [Keys -> States] /\ f \in SUBSET Keys /\ r \in SUBSET Keys
    BY DEF Ctls
<1>2. d = [c EXCEPT !.job = j1, !.forced = f, !.rested = r, !.state = t]
    BY DEF DownloadOf, Ctls
<1>3. j1 \in Jobs /\ j1 # NoJob /\ j1.key = k
    BY RequestIsAJob
<1>4. /\ t \in [Keys -> States] /\ t[k].busy
      /\ \A j \in Keys : /\ t[j].list = c.state[j].list
                         /\ t[j].loaded <=> c.state[j].loaded
                         /\ j # k => t[j] = c.state[j]
    BY <1>1, BusyOne
<1> HIDE DEF t, j1, f, r
<1>5. d.state = t /\ d.job = j1 /\ d.loading = c.loading
    BY <1>2 DEF Ctls
<1>6. d \in Ctls
    BY <1>1, <1>2, <1>3, <1>4 DEF Ctls
<1> HIDE DEF d
<1>7. SameLists(c, d)
    BY <1>4, <1>5 DEF SameLists
<1>8. \A j \in Keys : ~c.state[j].busy
    <2>1. \A j \in Keys : c.loading # j
        BY KeysAre
    <2> QED  BY <2>1 DEF Steady
<1>9. \A j \in Keys : d.state[j].busy <=> (d.loading = j \/ (d.job # NoJob /\ d.job.key = j))
    <2>1. TAKE j \in Keys
    <2>2. d.loading # j
        BY <1>5, KeysAre
    <2>3. CASE j = k
        BY <1>3, <1>4, <1>5, <2>3
    <2>4. CASE j # k
        <3>1. ~d.state[j].busy
            BY <1>4, <1>5, <1>8, <2>4
        <3> QED  BY <1>3, <1>5, <2>2, <2>4, <3>1
    <2> QED  BY <2>3, <2>4
<1>10. Steady(d)
    <2>1. \A j \in Keys : ~d.state[j].loaded => d.state[j].list = Nothing
        BY <1>4, <1>5 DEF Steady
    <2>2. d.state[d.job.key].loaded
        BY <1>3, <1>4, <1>5
    <2> QED  BY <1>5, <1>9, <2>1, <2>2 DEF Steady
<1> QED  BY <1>3, <1>5, <1>6, <1>7, <1>10 DEF d, Finished

LEMMA PumpedRight ==
    ASSUME NEW c \in Ctls, NEW w, Steady(c)
    PROVE  /\ Pumped(c, w) \in Ctls /\ Steady(Pumped(c, w)) /\ Finished(Pumped(c, w))
           /\ SameLists(c, Pumped(c, w))
<1> DEFINE ready == {i \in 1 .. Len(c.queue) : Acts(c.queue[i], c, w)}
           n == IF ready = {} THEN Len(c.queue) + 1
                ELSE CHOOSE i \in ready : \A j \in ready : i <= j
           dropped == {c.queue[i] : i \in 1 .. (n - 1)}
           rest == [c EXCEPT !.queue = SubSeq(@, n + 1, Len(@)),
                             !.forced = @ \ (dropped \ Defined(w.rows))]
           k == c.queue[n]
<1>1. Pumped(c, w) = IF c.loading # NoKey \/ c.job # NoJob THEN c
                     ELSE IF ready = {} THEN [rest EXCEPT !.queue = <<>>]
                     ELSE IF c.state[k].loaded THEN DownloadOf(k, rest) ELSE LoadOf(k, rest)
    BY DEF Pumped
<1>2. c.queue \in Seq(Keys) /\ Len(c.queue) \in Nat
    BY DEF Ctls
<1>3. n \in 1 .. (Len(c.queue) + 1) /\ (ready # {} => n \in 1 .. Len(c.queue))
    <2>1. CASE ready = {}
        BY <1>2, <2>1
    <2>2. CASE ready # {}
        <3>1. ready \in SUBSET Nat
            OBVIOUS
        <3> HIDE DEF ready
        <3>2. \E i \in ready : \A j \in ready : i <= j
            BY <2>2, <3>1, SmallestOf
        <3>3. n \in ready
            BY <2>2, <3>2
        <3>4. n \in 1 .. Len(c.queue)
            BY <3>3 DEF ready
        <3> QED  BY <1>2, <3>4
    <2> QED  BY <2>1, <2>2
<1> HIDE DEF n
<1> DEFINE q == SubSeq(c.queue, n + 1, Len(c.queue))
           f == c.forced \ (dropped \ Defined(w.rows))
<1>4. q \in Seq(Keys) /\ f \in SUBSET Keys
    <2>1. q \in Seq(Keys)
        BY <1>2, <1>3
    <2>2. f \in SUBSET Keys
        BY DEF Ctls
    <2> QED  BY <2>1, <2>2
<1>5. rest = [c EXCEPT !.queue = q, !.forced = f]
    BY DEF Ctls
<1> HIDE DEF q, f, rest, ready
<1>6. /\ rest \in Ctls /\ rest.state = c.state /\ rest.job = c.job
      /\ rest.loading = c.loading
    BY <1>4, <1>5 DEF Ctls
<1>7. Steady(rest) /\ SameLists(c, rest)
    BY <1>6 DEF Steady, SameLists
<1>8. CASE c.loading # NoKey \/ c.job # NoJob
    BY <1>1, <1>8 DEF Finished, SameLists
<1>9. CASE c.loading = NoKey /\ c.job = NoJob /\ ready = {}
    <2> DEFINE e == [rest EXCEPT !.queue = <<>>]
    <2>1. /\ e \in Ctls /\ e.state = rest.state /\ e.job = rest.job
          /\ e.loading = rest.loading /\ e.queue = <<>>
        <3>1. <<>> \in Seq(Keys)
            OBVIOUS
        <3> QED  BY <1>6, <3>1 DEF Ctls
    <2>2. Pumped(c, w) = e
        BY <1>1, <1>9
    <2> HIDE DEF e
    <2>3. Steady(e) /\ SameLists(c, e) /\ Finished(e)
        BY <1>7, <2>1 DEF Steady, SameLists, Finished
    <2> QED  BY <2>1, <2>2, <2>3
<1>10. CASE c.loading = NoKey /\ c.job = NoJob /\ ready # {}
    <2>1. k \in Keys
        BY <1>2, <1>3, <1>10
    <2> HIDE DEF k
    <2>2. CASE c.state[k].loaded
        <3>1. Pumped(c, w) = DownloadOf(k, rest)
            BY <1>1, <1>10, <2>2
        <3>2. /\ DownloadOf(k, rest) \in Ctls /\ Steady(DownloadOf(k, rest))
              /\ Finished(DownloadOf(k, rest)) /\ SameLists(rest, DownloadOf(k, rest))
            BY <1>6, <1>7, <1>10, <2>1, <2>2, DownloadOfRight
        <3> QED  BY <1>6, <3>1, <3>2 DEF SameLists
    <2>3. CASE ~c.state[k].loaded
        <3>1. Pumped(c, w) = LoadOf(k, rest)
            BY <1>1, <1>10, <2>3
        <3>2. /\ LoadOf(k, rest) \in Ctls /\ Steady(LoadOf(k, rest))
              /\ Finished(LoadOf(k, rest)) /\ SameLists(rest, LoadOf(k, rest))
            BY <1>6, <1>7, <1>10, <2>1, LoadOfRight
        <3> QED  BY <1>6, <3>1, <3>2 DEF SameLists
    <2> QED  BY <2>2, <2>3
<1> QED  BY <1>8, <1>9, <1>10

\* A list is set: it was read, or the updater is done with it.
LEMMA SetOne ==
    ASSUME NEW st \in [Keys -> States], NEW k \in Keys, NEW l \in Lists, NEW e \in BOOLEAN
    PROVE  LET x == [list |-> l, loaded |-> TRUE, busy |-> FALSE, error |-> e]
               t == [st EXCEPT ![k] = x]
           IN  /\ t \in [Keys -> States]
               /\ t[k].list = l /\ t[k].loaded /\ ~t[k].busy
               /\ \A j \in Keys : j # k => t[j] = st[j]
<1> DEFINE x == [list |-> l, loaded |-> TRUE, busy |-> FALSE, error |-> e]
<1>1. x \in States /\ x.list = l /\ x.loaded = TRUE /\ x.busy = FALSE
    BY DEF States
<1> HIDE DEF x
<1>2. LET t == [st EXCEPT ![k] = x]
      IN  /\ t \in [Keys -> States] /\ t[k] = x
          /\ \A j \in Keys : j # k => t[j] = st[j]
    BY <1>1
<1>3. LET t == [st EXCEPT ![k] = x]
      IN  t[k].list = l /\ t[k].loaded /\ ~t[k].busy
    BY <1>1, <1>2
<1> QED  BY <1>2, <1>3 DEF x

LEMMA EndedRight ==
    ASSUME NEW c \in Ctls, Steady(c), c.job # NoJob, NEW l \in Lists
    PROVE  LET d == Ended(c, l)
               k == c.job.key
           IN  /\ d \in Ctls /\ Steady(d) /\ k \in Keys
               /\ d.state[k].loaded
               /\ d.state[k].list = IF l = Nothing THEN c.state[k].list ELSE l
               /\ \A j \in Keys : j # k => d.state[j] = c.state[j]
<1> DEFINE d == Ended(c, l)
           k == c.job.key
           m == IF l = Nothing THEN c.state[k].list ELSE l
           none == l = Nothing
           x == [list |-> m, loaded |-> TRUE, busy |-> FALSE, error |-> none]
           t == [c.state EXCEPT ![k] = x]
<1>1. c.job \in Jobs /\ c.state \in [Keys -> States]
    BY DEF Ctls
<1>2. k \in Keys
    BY <1>1, JobsAre
<1>3. m \in Lists
    BY <1>1, <1>2 DEF States
<1>4. none \in BOOLEAN
    OBVIOUS
<1>5. d = [c EXCEPT !.state = t, !.job = NoJob]
    BY <1>2 DEF Ended, Ctls
<1> HIDE DEF m, k, none
<1>6. /\ t \in [Keys -> States]
      /\ t[k].list = m /\ t[k].loaded /\ ~t[k].busy
      /\ \A j \in Keys : j # k => t[j] = c.state[j]
    BY <1>1, <1>2, <1>3, <1>4, SetOne
<1> HIDE DEF t, d, x
<1>7. d \in Ctls /\ d.state = t /\ d.job = NoJob /\ d.loading = c.loading
    BY <1>5, <1>6 DEF Ctls, Jobs
<1>8. c.loading = NoKey /\ \A j \in Keys : c.loading # j
    BY KeysAre DEF Steady
<1>9. \A j \in Keys : j # k => ~c.state[j].busy
    BY <1>8 DEF Steady, k
<1>10. \A j \in Keys : d.state[j].busy <=> (d.loading = j \/ (d.job # NoJob /\ d.job.key = j))
    <2>1. TAKE j \in Keys
    <2>2. ~d.state[j].busy
        <3>1. CASE j = k
            BY <1>6, <1>7, <3>1
        <3>2. CASE j # k
            BY <1>6, <1>7, <1>9, <3>2
        <3> QED  BY <3>1, <3>2
    <2> QED  BY <1>7, <1>8, <2>2
<1>11. \A j \in Keys : ~d.state[j].loaded => d.state[j].list = Nothing
    BY <1>6, <1>7 DEF Steady
<1>12. Steady(d)
    BY <1>7, <1>10, <1>11 DEF Steady
<1> QED  BY <1>2, <1>6, <1>7, <1>12 DEF d, k, m

(***************************************************************************)
(* Every action keeps the invariant.                                       *)
(***************************************************************************)
ControllerRight ==
    Controller \in Ctls /\ Steady(Controller) /\ Finished(Controller) /\ MemoryIsTheCache

LEMMA PumpedMoves ==
    ASSUME NEW c \in Ctls, NEW w, Steady(c), Becomes(Pumped(c, w)),
           \A k \in Keys : c.state[k].loaded => c.state[k].list = cache'[k]
    PROVE  ControllerRight'
<1> DEFINE d == Pumped(c, w)
<1>1. d \in Ctls /\ Steady(d) /\ Finished(d) /\ SameLists(c, d)
    BY PumpedRight
<1> HIDE DEF d
<1>2. Becomes(d)
    BY DEF d
<1>3. Controller' = d
    BY <1>1, <1>2 DEF Becomes, Controller, Ctls
<1>4. state' = d.state
    BY <1>2 DEF Becomes
<1>5. \A k \in Keys : d.state[k].loaded => d.state[k].list = cache'[k]
    BY <1>1 DEF SameLists
<1>6. MemoryIsTheCache'
    BY <1>4, <1>5 DEF MemoryIsTheCache
<1>7. Steady(Controller)' /\ Finished(Controller)'
    BY <1>1, <1>3 DEF Steady, Finished
<1> QED  BY <1>1, <1>3, <1>6, <1>7 DEF ControllerRight

LEMMA ControllerIs ==
    ASSUME GeoInv
    PROVE  /\ Controller.queue = queue /\ Controller.forced = forced
           /\ Controller.loading = loading /\ Controller.state = state
           /\ Controller.job = job /\ Controller.rested = rested
           /\ queue \in Seq(Keys) /\ forced \in SUBSET Keys /\ loading \in Keys \cup {NoKey}
           /\ state \in [Keys -> States] /\ job \in Jobs /\ rested \in SUBSET Keys
<1>1. Controller.queue = queue /\ Controller.forced = forced
      /\ Controller.loading = loading /\ Controller.state = state
      /\ Controller.job = job /\ Controller.rested = rested
    BY DEF Controller
<1>2. Controller \in Ctls
    BY DEF GeoInv
<1> QED  BY <1>1, <1>2 DEF Ctls

\* The controller goes over the lists that are on.
LEMMA SweepMoves ==
    ASSUME GeoAssumption, GeoInv, NEW c \in Ctls, Steady(c), c.state = state,
           NEW ks \in SUBSET Keys, NEW w, Becomes(Pumped(Queued(c, ks), w)), cache' = cache
    PROVE  ControllerRight'
<1>1. /\ Queued(c, ks) \in Ctls /\ SameLists(c, Queued(c, ks)) /\ Steady(Queued(c, ks))
    BY QueuedAre
<1>2. \A k \in Keys : Queued(c, ks).state[k].loaded => Queued(c, ks).state[k].list = cache'[k]
    BY <1>1 DEF SameLists, GeoInv, MemoryIsTheCache
<1> QED  BY <1>1, <1>2, PumpedMoves

LEMMA EditedKeeps ==
    ASSUME GeoAssumption, GeoInv, NEW r \in [Profiles -> [Sources -> RowSet]], Edited(r)
    PROVE  GeoInv'
<1>1. /\ edits < MaxEdits /\ edits' = edits + 1 /\ rows' = r
      /\ Becomes(Pumped(Queued(Controller, Enabled(r)), [World EXCEPT !.rows = r]))
      /\ UNCHANGED <<hours, cache, stale>>
    BY DEF Edited, Edits
<1>2. edits' \in 0..MaxEdits
    BY <1>1 DEF GeoInv, GeoAssumption
<1>3. Enabled(r) \in SUBSET Keys /\ Controller \in Ctls /\ Steady(Controller)
      /\ Controller.state = state
    BY ControllerIs DEF Enabled, GeoInv
<1>4. ControllerRight'
    BY <1>1, <1>3, SweepMoves
<1>5. CacheRight'
    BY <1>1 DEF GeoInv, CacheRight
<1> QED  BY <1>1, <1>2, <1>4, <1>5 DEF GeoInv, ControllerRight

\* One row is put in, changed or taken out.
LEMMA RowChanged ==
    ASSUME NEW r \in [Profiles -> [Sources -> RowSet]], NEW p \in Profiles, NEW s \in Sources,
           NEW x \in RowSet
    PROVE  [r EXCEPT ![p][s] = x] \in [Profiles -> [Sources -> RowSet]]
<1>1. r[p] \in [Sources -> RowSet]
    OBVIOUS
<1>2. [r[p] EXCEPT ![s] = x] \in [Sources -> RowSet]
    BY <1>1
<1> QED  BY <1>2

LEMMA EditKeeps ==
    ASSUME GeoAssumption, GeoInv, NEW p \in Profiles, NEW s \in Sources,
           \/ \E d \in Directions : AddGeoList(p, s, d) \/ SetGeoListDirection(p, s, d)
           \/ SetGeoListEnabled(p, s) \/ RemoveGeoList(p, s) \/ RefreshGeoList(p, s)
    PROVE  GeoInv'
<1>1. rows \in [Profiles -> [Sources -> RowSet]] /\ rows[p][s] \in RowSet
    BY DEF GeoInv
<1>2. ASSUME NEW d \in Directions, AddGeoList(p, s, d)
      PROVE  GeoInv'
    <2>1. [on |-> TRUE, dir |-> d] \in RowSet
        BY DEF RowSet
    <2>2. [rows EXCEPT ![p][s] = [on |-> TRUE, dir |-> d]]
              \in [Profiles -> [Sources -> RowSet]]
        BY <1>1, <2>1, RowChanged
    <2> QED  BY <1>2, <2>2, EditedKeeps DEF AddGeoList
<1>3. ASSUME NEW d \in Directions, SetGeoListDirection(p, s, d)
      PROVE  GeoInv'
    <2> DEFINE x == [rows[p][s] EXCEPT !.dir = d]
    <2>1. x \in RowSet
        BY <1>1, <1>3 DEF RowSet, SetGeoListDirection
    <2>2. [rows EXCEPT ![p][s].dir = d] = [rows EXCEPT ![p][s] = x]
        OBVIOUS
    <2> HIDE DEF x
    <2>3. [rows EXCEPT ![p][s] = x] \in [Profiles -> [Sources -> RowSet]]
        BY <1>1, <2>1, RowChanged
    <2> QED  BY <1>3, <2>2, <2>3, EditedKeeps DEF SetGeoListDirection
<1>4. ASSUME SetGeoListEnabled(p, s)
      PROVE  GeoInv'
    <2> DEFINE x == [rows[p][s] EXCEPT !.on = ~@]
    <2>1. x \in RowSet
        <3>1. rows[p][s] \in [on : BOOLEAN, dir : Directions]
            BY <1>1, <1>4 DEF RowSet, SetGeoListEnabled
        <3>2. (~rows[p][s].on) \in BOOLEAN
            OBVIOUS
        <3> QED  BY <3>1, <3>2 DEF RowSet
    <2>2. [rows EXCEPT ![p][s].on = ~@] = [rows EXCEPT ![p][s] = x]
        OBVIOUS
    <2> HIDE DEF x
    <2>3. [rows EXCEPT ![p][s] = x] \in [Profiles -> [Sources -> RowSet]]
        BY <1>1, <2>1, RowChanged
    <2> QED  BY <1>4, <2>2, <2>3, EditedKeeps DEF SetGeoListEnabled
<1>5. ASSUME RemoveGeoList(p, s)
      PROVE  GeoInv'
    <2>1. [rows EXCEPT ![p][s] = NoRow] \in [Profiles -> [Sources -> RowSet]]
        BY <1>1, RowChanged DEF RowSet
    <2> QED  BY <1>5, <2>1, EditedKeeps DEF RemoveGeoList
<1>6. ASSUME RefreshGeoList(p, s)
      PROVE  GeoInv'
    <2> DEFINE k == Key(s, rows[p][s].dir)
               f == Controller.forced \union {k}
               c == [Controller EXCEPT !.forced = f]
    <2>1. /\ edits < MaxEdits /\ edits' = edits + 1 /\ rows[p][s] # NoRow
          /\ Becomes(Pumped(Queued(c, {k}), World))
          /\ UNCHANGED <<rows, hours, cache, stale>>
        BY <1>6 DEF RefreshGeoList, Edits
    <2>2. k \in Keys
        <3>1. rows[p][s].dir \in Directions
            BY <1>1, <2>1 DEF RowSet
        <3> QED  BY <3>1, KeysAre
    <2> HIDE DEF k
    <2>3. f \in SUBSET Keys
        BY <2>2, ControllerIs
    <2> HIDE DEF f
    <2>4. /\ c \in Ctls /\ c.state = state /\ c.job = Controller.job
          /\ c.loading = Controller.loading
        BY <2>3, ControllerIs DEF GeoInv, Ctls
    <2>5. Steady(c)
        BY <2>4, ControllerIs DEF GeoInv, Steady
    <2> HIDE DEF c
    <2>6. ControllerRight'
        BY <2>1, <2>2, <2>4, <2>5, SweepMoves
    <2>7. edits' \in 0..MaxEdits
        BY <2>1 DEF GeoInv, GeoAssumption
    <2>8. CacheRight'
        BY <2>1 DEF GeoInv, CacheRight
    <2> QED  BY <2>1, <2>6, <2>7, <2>8 DEF GeoInv, ControllerRight
<1> QED  BY <1>2, <1>3, <1>4, <1>5, <1>6

LEMMA SetGeoUpdateHoursKeeps ==
    ASSUME GeoAssumption, GeoInv, SetGeoUpdateHours
    PROVE  GeoInv'
<1>1. /\ edits < MaxEdits /\ edits' = edits + 1 /\ hours' = 24 - hours
      /\ Becomes(Pumped(Queued(Controller, Enabled(rows)), [World EXCEPT !.hours = 24 - hours]))
      /\ UNCHANGED <<rows, cache, stale>>
    BY DEF SetGeoUpdateHours, Edits
<1>2. edits' \in 0..MaxEdits /\ hours' \in {0, 24}
    <2>1. hours \in {0, 24} /\ edits \in 0..MaxEdits
        BY DEF GeoInv
    <2>2. hours' \in {0, 24}
        BY <1>1, <2>1
    <2> QED  BY <1>1, <2>1, <2>2 DEF GeoAssumption
<1>3. Enabled(rows) \in SUBSET Keys /\ Controller \in Ctls /\ Steady(Controller)
      /\ Controller.state = state
    BY ControllerIs DEF Enabled, GeoInv
<1>4. ControllerRight'
    BY <1>1, <1>3, SweepMoves
<1>5. CacheRight'
    BY <1>1 DEF GeoInv, CacheRight
<1> QED  BY <1>1, <1>2, <1>4, <1>5 DEF GeoInv, ControllerRight

LEMMA ScheduleKeeps ==
    ASSUME GeoAssumption, GeoInv, Schedule
    PROVE  GeoInv'
<1>1. /\ stale' \in {stale, stale \union Keys} /\ UNCHANGED <<rows, hours, cache, edits>>
    BY DEF Schedule
<1>2. PICK r \in {rested, rested \union Keys} :
          Becomes(Pumped(Queued([Controller EXCEPT !.rested = r], Enabled(rows)),
                         [World EXCEPT !.stale = stale']))
    BY DEF Schedule
<1> DEFINE c == [Controller EXCEPT !.rested = r]
<1>3. r \in SUBSET Keys
    BY ControllerIs
<1>4. /\ c \in Ctls /\ c.state = state /\ c.job = Controller.job
      /\ c.loading = Controller.loading
    BY <1>3, ControllerIs DEF GeoInv, Ctls
<1>5. Steady(c)
    BY <1>4, ControllerIs DEF GeoInv, Steady
<1>6. Becomes(Pumped(Queued(c, Enabled(rows)), [World EXCEPT !.stale = stale']))
    BY <1>2
<1> HIDE DEF c
<1>7. Enabled(rows) \in SUBSET Keys
    BY DEF Enabled
<1>8. ControllerRight'
    BY <1>1, <1>4, <1>5, <1>6, <1>7, SweepMoves
<1>9. stale' \subseteq Keys
    BY <1>1 DEF GeoInv
<1>10. CacheRight'
    BY <1>1 DEF GeoInv, CacheRight
<1> QED  BY <1>1, <1>8, <1>9, <1>10 DEF GeoInv, ControllerRight

LEMMA LoadedKeeps ==
    ASSUME GeoAssumption, GeoInv, Loaded
    PROVE  GeoInv'
<1> DEFINE x == [list |-> cache[loading], loaded |-> TRUE, busy |-> FALSE,
                 error |-> state[loading].error]
           t == [state EXCEPT ![loading] = x]
           q == <<loading>> \o queue
           c == [Controller EXCEPT !.state[loading] = x, !.loading = NoKey,
                                   !.queue = <<loading>> \o @]
<1>1. /\ loading # NoKey /\ Becomes(Pumped(c, World))
      /\ UNCHANGED <<rows, hours, cache, stale, edits>>
    BY DEF Loaded
<1>2. loading \in Keys /\ state \in [Keys -> States] /\ queue \in Seq(Keys)
      /\ cache[loading] \in Lists
    BY <1>1, ControllerIs DEF GeoInv, CacheRight
<1>3. state[loading].error \in BOOLEAN
    BY <1>2 DEF States
<1>4. /\ t \in [Keys -> States]
      /\ t[loading].list = cache[loading] /\ t[loading].loaded /\ ~t[loading].busy
      /\ \A j \in Keys : j # loading => t[j] = state[j]
    BY <1>2, <1>3, SetOne
<1>5. q \in Seq(Keys)
    BY <1>2
<1>6. c = [Controller EXCEPT !.state = t, !.loading = NoKey, !.queue = q]
    BY ControllerIs DEF GeoInv, Ctls
<1> HIDE DEF t, q, c, x
<1>7. c \in Ctls /\ c.state = t /\ c.loading = NoKey /\ c.job = Controller.job
    BY <1>4, <1>5, <1>6 DEF GeoInv, Ctls
<1>8. job = NoJob /\ \A j \in Keys : j # loading => ~state[j].busy
    BY <1>1, ControllerIs DEF GeoInv, Steady
<1>9. Steady(c)
    <2>1. c.job = NoJob
        BY <1>7, <1>8, ControllerIs
    <2>2. \A j \in Keys : ~t[j].busy
        <3>1. TAKE j \in Keys
        <3>2. CASE j = loading
            BY <1>4, <3>2
        <3>3. CASE j # loading
            BY <1>4, <1>8, <3>3
        <3> QED  BY <3>2, <3>3
    <2>3. \A j \in Keys : c.loading # j
        BY <1>7, KeysAre
    <2>4. \A j \in Keys : ~state[j].loaded => state[j].list = Nothing
        BY ControllerIs DEF GeoInv, Steady
    <2>5. \A j \in Keys : ~t[j].loaded => t[j].list = Nothing
        BY <1>4, <2>4
    <2> QED  BY <1>7, <2>1, <2>2, <2>3, <2>5 DEF Steady
<1>10. \A j \in Keys : c.state[j].loaded => c.state[j].list = cache'[j]
    BY <1>1, <1>4, <1>7 DEF GeoInv, MemoryIsTheCache
<1>11. ControllerRight'
    BY <1>1, <1>7, <1>9, <1>10, PumpedMoves
<1>12. CacheRight'
    BY <1>1 DEF GeoInv, CacheRight
<1> QED  BY <1>1, <1>11, <1>12 DEF GeoInv, ControllerRight

LEMMA DownloadedKeeps ==
    ASSUME GeoInv, Downloaded
    PROVE  GeoInv'
<1>1. /\ job # NoJob /\ job.stage = "request" /\ job' = [job EXCEPT !.stage = "store"]
      /\ UNCHANGED <<rows, hours, queue, forced, loading, state, rested, cache, stale, edits>>
    BY DEF Downloaded, At
<1>2. job' \in Jobs /\ job'.key = job.key /\ job' # NoJob /\ job'.stage = "store"
    <2>1. job \in [stage : {"request", "store"}, key : Keys]
        BY <1>1, ControllerIs DEF Jobs
    <2>2. job' \in [stage : {"request", "store"}, key : Keys] /\ job'.key = job.key
          /\ job'.stage = "store"
        BY <1>1, <2>1
    <2> QED  BY <2>2 DEF Jobs, NoJob
<1>3. Controller' = [Controller EXCEPT !.job = job']
    BY <1>1 DEF Controller
<1>4. Controller' \in Ctls
    BY <1>2, <1>3 DEF GeoInv, Ctls
<1>5. /\ Controller'.queue = queue /\ Controller'.loading = loading
      /\ Controller'.state = state /\ Controller'.job = job'
    BY <1>1 DEF Controller
<1>6. Steady(Controller)'
    BY <1>1, <1>2, <1>5, ControllerIs DEF GeoInv, Steady
<1>7. Finished(Controller)'
    BY <1>2, <1>5 DEF Finished
<1>8. CacheRight' /\ MemoryIsTheCache'
    BY <1>1 DEF GeoInv, CacheRight, MemoryIsTheCache
<1> QED  BY <1>1, <1>4, <1>6, <1>7, <1>8 DEF GeoInv

\* A download ends with nothing: the list there was stays.
LEMMA EndedWithNothing ==
    ASSUME NEW c \in Ctls, Steady(c), c.job # NoJob,
           \A k \in Keys : c.state[k].loaded => c.state[k].list = cache[k]
    PROVE  /\ Ended(c, Nothing) \in Ctls /\ Steady(Ended(c, Nothing))
           /\ \A k \in Keys : Ended(c, Nothing).state[k].loaded =>
                                  Ended(c, Nothing).state[k].list = cache[k]
<1> DEFINE d == Ended(c, Nothing)
           key == c.job.key
<1>1. /\ d \in Ctls /\ Steady(d) /\ key \in Keys
      /\ d.state[key].list = c.state[key].list
      /\ \A j \in Keys : j # key => d.state[j] = c.state[j]
    BY EndedRight, NothingIsAList
<1>2. c.state[key].loaded
    BY DEF Steady
<1> HIDE DEF d, key
<1>3. \A k \in Keys : d.state[k].loaded => d.state[k].list = cache[k]
    BY <1>1, <1>2
<1> QED  BY <1>1, <1>3 DEF d

LEMMA FailureKeeps ==
    ASSUME GeoAssumption, GeoInv, DownloadFails \/ TooLargeAtTheEnd
    PROVE  GeoInv'
<1> DEFINE e == Ended(Controller, Nothing)
<1>1. /\ job # NoJob /\ UNCHANGED <<rows, hours, cache, stale, edits>>
    BY DEF DownloadFails, TooLargeAtTheEnd, At
<1>2. /\ e \in Ctls /\ Steady(e)
      /\ \A k \in Keys : e.state[k].loaded => e.state[k].list = cache[k]
    BY <1>1, ControllerIs, EndedWithNothing DEF GeoInv, MemoryIsTheCache
<1>3. ControllerRight'
    <2>1. CASE Becomes(Pumped(e, World))
        BY <1>1, <1>2, <2>1, PumpedMoves
    <2>2. CASE /\ Pumped(e, World).job # NoJob
               /\ Becomes(Pumped(Ended(Pumped(e, World), Nothing), World))
        <3> DEFINE n == Pumped(e, World)
        <3>1. n \in Ctls /\ Steady(n) /\ SameLists(e, n)
            BY <1>2, PumpedRight
        <3> HIDE DEF e
        <3>2. \A k \in Keys : n.state[k].loaded => n.state[k].list = cache[k]
            BY <1>2, <3>1 DEF SameLists
        <3>3. n.job # NoJob /\ Becomes(Pumped(Ended(n, Nothing), World))
            BY <2>2
        <3> HIDE DEF n
        <3>4. /\ Ended(n, Nothing) \in Ctls /\ Steady(Ended(n, Nothing))
              /\ \A k \in Keys : Ended(n, Nothing).state[k].loaded =>
                                     Ended(n, Nothing).state[k].list = cache[k]
            BY <3>1, <3>2, <3>3, EndedWithNothing
        <3> QED  BY <1>1, <3>3, <3>4, PumpedMoves
    <2> QED  BY <2>1, <2>2 DEF DownloadFails, TooLargeAtTheEnd
<1>4. CacheRight'
    BY <1>1 DEF GeoInv, CacheRight
<1> QED  BY <1>1, <1>3, <1>4 DEF GeoInv, ControllerRight

LEMMA StoredKeeps ==
    ASSUME GeoAssumption, GeoInv, Stored
    PROVE  GeoInv'
<1> DEFINE key == job.key
           new == [key |-> key, n |-> IF cache[key].n = 1 THEN 2 ELSE 1]
<1>1. job # NoJob /\ UNCHANGED <<rows, hours, edits>>
    BY DEF Stored, At
<1>2. key \in Keys /\ Controller.job = job /\ Controller \in Ctls /\ Steady(Controller)
      /\ Controller.state = state
    BY <1>1, ControllerIs, JobsAre DEF GeoInv
<1>3. CASE /\ cache' = [cache EXCEPT ![key] = new]
           /\ stale' = stale \ {key}
           /\ Becomes(Pumped(Ended(Controller, new), [World EXCEPT !.stale = stale']))
    <2>1. new \in Lists /\ new.key = key /\ new # Nothing
        BY <1>2 DEF Lists, Nothing
    <2> HIDE DEF new, key
    <2>2. /\ cache' \in [Keys -> Lists] /\ cache'[key] = new
          /\ \A k \in Keys : k # key => cache'[k] = cache[k]
        BY <1>2, <1>3, <2>1 DEF GeoInv, CacheRight
    <2>3. CacheRight'
        BY <2>1, <2>2 DEF GeoInv, CacheRight
    <2>4. /\ Ended(Controller, new) \in Ctls /\ Steady(Ended(Controller, new))
          /\ Ended(Controller, new).state[key].list = new
          /\ \A k \in Keys : k # key => Ended(Controller, new).state[k] = state[k]
        BY <1>1, <1>2, <2>1, EndedRight DEF key
    <2>5. \A k \in Keys : Ended(Controller, new).state[k].loaded =>
                              Ended(Controller, new).state[k].list = cache'[k]
        BY <2>2, <2>4 DEF GeoInv, MemoryIsTheCache
    <2>6. ControllerRight'
        BY <1>3, <2>4, <2>5, PumpedMoves
    <2>7. stale' \subseteq Keys
        BY <1>3 DEF GeoInv
    <2> QED  BY <1>1, <2>3, <2>6, <2>7 DEF GeoInv, ControllerRight
<1>4. CASE UNCHANGED <<cache, stale>> /\ Becomes(Pumped(Ended(Controller, Nothing), World))
    <2> DEFINE e == Ended(Controller, Nothing)
    <2>1. /\ e \in Ctls /\ Steady(e)
          /\ \A k \in Keys : e.state[k].loaded => e.state[k].list = cache[k]
        BY <1>1, ControllerIs, EndedWithNothing DEF GeoInv, MemoryIsTheCache
    <2>2. ControllerRight'
        BY <1>4, <2>1, PumpedMoves
    <2>3. CacheRight'
        BY <1>4 DEF GeoInv, CacheRight
    <2> QED  BY <1>1, <1>4, <2>2, <2>3 DEF GeoInv, ControllerRight
<1> QED  BY <1>3, <1>4 DEF Stored

LEMMA GeoInvHolds ==
    Spec => []GeoInv
<1>0. GeoAssumption
    BY GeoConstants
<1>1. Init => GeoInv
    <2> SUFFICES ASSUME Init PROVE GeoInv
        OBVIOUS
    <2>1. rows \in [Profiles -> [Sources -> RowSet]]
        BY DEF Init, RowSet
    <2>2. CacheRight
        <3>1. {Nothing} \union {[key |-> k, n |-> 1] : k \in Keys} \subseteq Lists
            BY DEF Lists, Nothing
        <3> QED  BY <3>1 DEF Init, CacheRight
    <2>3. \A k \in Keys : state[k] = [list |-> Nothing, loaded |-> FALSE, busy |-> FALSE,
                                      error |-> FALSE]
        BY DEF Init
    <2>4. [list |-> Nothing, loaded |-> FALSE, busy |-> FALSE, error |-> FALSE] \in States
        BY NothingIsAList DEF States
    <2>5. state \in [Keys -> States]
        BY <2>4 DEF Init
    <2>6. /\ queue \in Seq(Keys) /\ forced \in SUBSET Keys /\ loading \in Keys \cup {NoKey}
          /\ job \in Jobs /\ rested \in SUBSET Keys
        BY DEF Init, Jobs
    <2>7. Controller \in Ctls
        BY <2>5, <2>6 DEF Controller, Ctls
    <2>8. Steady(Controller)
        <3>1. /\ Controller.state = state /\ Controller.job = NoJob
              /\ Controller.loading = NoKey /\ Controller.queue = <<>>
            BY DEF Init, Controller
        <3>2. \A k \in Keys : ~state[k].busy /\ state[k].list = Nothing
            BY <2>3
        <3>3. \A k \in Keys : Controller.loading # k
            BY <3>1, KeysAre
        <3> QED  BY <3>1, <3>2, <3>3 DEF Steady
    <2>9. Finished(Controller) /\ MemoryIsTheCache
        BY <2>3 DEF Init, Controller, Finished, MemoryIsTheCache
    <2>10. hours \in {0, 24} /\ stale \subseteq Keys /\ edits \in 0..MaxEdits
        BY <1>0 DEF Init, GeoAssumption
    <2> QED  BY <2>1, <2>2, <2>7, <2>8, <2>9, <2>10 DEF GeoInv
<1>2. GeoInv /\ [Next]_vars => GeoInv'
    <2> SUFFICES ASSUME GeoInv, [Next]_vars PROVE GeoInv'
        OBVIOUS
    <2>1. CASE UNCHANGED vars
        <3>1. UNCHANGED <<rows, hours, stale, edits, cache, state, Controller>>
            BY <2>1 DEF vars, ctl, Controller
        <3> QED  BY <3>1 DEF GeoInv, CacheRight, MemoryIsTheCache, Steady, Finished
    <2>2. CASE Edit
        BY <1>0, <2>2, EditKeeps DEF Edit
    <2>3. CASE SetGeoUpdateHours \/ Schedule \/ Loaded
        BY <1>0, <2>3, SetGeoUpdateHoursKeeps, ScheduleKeeps, LoadedKeeps
    <2>4. CASE Downloaded \/ DownloadFails \/ TooLargeAtTheEnd \/ Stored
        BY <1>0, <2>4, DownloadedKeeps, FailureKeeps, StoredKeeps
    <2> QED  BY <2>1, <2>2, <2>3, <2>4 DEF Next
<1> QED  BY <1>1, <1>2, PTL DEF Spec

(***************************************************************************)
(* The theorem.                                                            *)
(***************************************************************************)

(* Whatever downloads fail, grow too large or overtake an edit, a list     *)
(* that was read is the one in the cache, its rules were read for the      *)
(* direction of its row, and an idle controller has looked at every list   *)
(* (pump(), finished()).                                                   *)
THEOREM GeoMemoryIsTheCache ==
    Spec => [](TypeOK /\ MemoryIsTheCache /\ OwnDirection)
<1>1. ASSUME GeoInv
      PROVE  TypeOK
    <2>1. \A p \in Profiles, s \in Sources :
              LET row == rows[p][s]
              IN  row = NoRow \/ (row.dir \in Directions /\ row.on \in BOOLEAN)
        BY <1>1 DEF GeoInv, RowSet
    <2>2. /\ queue \in Seq(Keys) /\ forced \in SUBSET Keys /\ loading \in Keys \cup {NoKey}
          /\ state \in [Keys -> States] /\ job \in Jobs /\ rested \in SUBSET Keys
        BY <1>1, ControllerIs
    <2>3. job = NoJob \/ (job.key \in Keys /\ job.stage \in {"request", "store"})
        BY <2>2, JobsAre
    <2>4. /\ loading # NoKey => job = NoJob
          /\ loading = NoKey /\ job = NoJob => queue = <<>>
          /\ \A k \in Keys : state[k].busy <=> (loading = k \/ (job # NoJob /\ job.key = k))
        BY <1>1, ControllerIs DEF GeoInv, Steady, Finished
    <2>5. \A k \in Keys : /\ {state[k].loaded, state[k].error} \subseteq BOOLEAN
                          /\ state[k].busy \in BOOLEAN
        BY <2>2 DEF States
    <2>6. \A k \in Keys :
              state[k].busy = (loading = k \/ (job # NoJob /\ job.key = k))
        BY <2>4, <2>5
    <2>7. rested \subseteq Keys /\ forced \subseteq Keys
        BY <2>2
    <2> QED  BY <1>1, <2>1, <2>2, <2>3, <2>4, <2>5, <2>6, <2>7 DEF TypeOK, GeoInv
<1>2. ASSUME GeoInv
      PROVE  OwnDirection
    <2>1. SUFFICES ASSUME NEW p \in Profiles, NEW s \in Sources, rows[p][s] # NoRow
                   PROVE  LET list == state[Key(s, rows[p][s].dir)].list
                          IN  list = Nothing \/ list.key = <<s, rows[p][s].dir>>
        BY DEF OwnDirection
    <2> DEFINE k == Key(s, rows[p][s].dir)
    <2>2. rows[p][s].dir \in Directions
        BY <1>2, <2>1 DEF GeoInv, RowSet
    <2>3. k \in Keys /\ k = <<s, rows[p][s].dir>>
        BY <2>2, KeysAre
    <2> HIDE DEF k
    <2>4. CASE state[k].loaded
        BY <1>2, <2>3, <2>4 DEF GeoInv, MemoryIsTheCache, CacheRight, k
    <2>5. CASE ~state[k].loaded
        <3>1. state[k].list = Nothing
            BY <1>2, <2>3, <2>5, ControllerIs DEF GeoInv, Steady
        <3> QED  BY <3>1 DEF k
    <2> QED  BY <2>4, <2>5
<1>3. GeoInv => MemoryIsTheCache
    BY DEF GeoInv
<1> QED  BY <1>1, <1>2, <1>3, GeoInvHolds, PTL

-----------------------------------------------------------------------------
(***************************************************************************)
(* The credential store: where the password saved last is, and what each   *)
(* call under way keeps true of it.                                        *)
(***************************************************************************)
Lib == item["libsecret"]
Tool == item["tool"]
InKeyring == Lib # None \/ Tool # None

Worker == call["worker"]
Gui == call["gui"]

\* What is kept where the configuration is f and the password saved last is pw: whoever
\* reads it finds that one, and an older one lies only where nobody looks.
Kept(f, pw) ==
    /\ f.version = pw /\ f.inline \in {None, pw}
    /\ Lib \in {None, pw} /\ plain \in {None, pw}
    /\ Lib = None \/ plain # None => Tool \in {None, pw}
    /\ f.inline = None => Lib # None \/ Tool # None \/ plain # None

\* What the theorems ask of the constants: the disagreements of the code with itself are
\* left out, a save beside a connect that moves a password, a read-back with a call that
\* may fail, a crash within a save or an import, and an import that is not read back where
\* an older client's item may answer.
Undisturbed ==
    /\ Concurrent => ~Legacy /\ "import" \notin Operations
    /\ "save" \in Operations => "lookup" \notin Faults
    /\ Crashes => Operations \subseteq {"connect"}
    /\ "import" \in Operations => "write" \notin Faults /\ Clients # {"libsecret", "tool"}

OneClient == Clients # {"libsecret", "tool"}

ConnectPcs == {"read", "storeLibsecret", "storeTool", "removePlain", "strip", "readAgain",
               "loadLibsecret", "loadTool", "loadPlain", "probe", "done"}
ReadPcs == {"read", "readAgain", "loadLibsecret", "loadTool", "loadPlain", "done"}
SavePcs == {"storeLibsecret", "storeTool", "removePlain", "verify", "loadLibsecret",
            "loadTool", "loadPlain", "probe", "commit", "done"}
ImportPcs == {"read", "storeLibsecret", "storeTool", "removePlain", "strip", "write",
              "putBack", "done"}

\* A call that keeps the password saved last: a connect, or the read-back of a save that
\* filed nothing.
Moving(k) ==
    /\ k.pc \in {"storeLibsecret", "storeTool", "removePlain", "probe"} => k.pw = owed
    /\ k.pc \in {"removePlain", "strip"} => InKeyring
    /\ k.pc \in {"storeLibsecret", "storeTool", "removePlain", "strip"}
        /\ k.then = "strip" => k.text = file
    /\ k.pc = "done" /\ OneClient => k.pw \in {None, owed}

Connecting(k) ==
    /\ k.op = "connect" /\ k.pc \in ConnectPcs
    /\ k.pc \in {"read", "strip"} => k.then = "strip"
    /\ k.pc \in {"storeLibsecret", "storeTool", "removePlain"} => k.then \in {"strip", "done"}

\* A save stores its own password, before it reads back.
Storing(k) == k.pc \in {"storeLibsecret", "storeTool", "removePlain"} /\ k.then = "verify"

\* A save whose password no keyring has taken.
NotFiled(k) ==
    /\ Kept(file, owed)
    /\ Storing(k) => k.pc # "removePlain" /\ k.pw = k.new
    /\ ~Storing(k) => Moving(k)
    /\ k.pc \in {"storeLibsecret", "storeTool", "removePlain"} =>
            k.then \in {"verify", "commit"}
    /\ k.pc \in {"loadPlain", "probe"} => ~InKeyring
    /\ k.pc = "loadTool" => Lib = None
    /\ k.pc = "commit" => k.pw \in {None, owed}

\* A save whose password one keyring has taken: if the other client's item hides it, the
\* read-back finds that one, and the configuration stays as it was.
Filed(k) ==
    /\ file.version = owed /\ file.inline \in {None, owed} /\ plain \in {None, owed}
    /\ Lib = k.new \/ (Tool = k.new /\ Lib \in {None, owed})
    /\ k.pc \in {"removePlain", "verify", "loadLibsecret", "loadTool", "commit"}
    /\ k.pc = "removePlain" => k.then = "verify"
    /\ k.pc # "removePlain" => plain = None
    /\ k.pc = "loadTool" => Lib = None
    /\ k.pc = "commit" => k.pw = IF Lib # None THEN Lib ELSE Tool

Saving(k) ==
    /\ k.op = "save" /\ k.pc \in SavePcs
    /\ k.new # None /\ (k.pc # "done" => k.new # owed)
    /\ IF k.pc = "done" THEN Kept(file, owed) ELSE NotFiled(k) \/ Filed(k)

\* An import: what was kept is kept of the file it replaced, until the new one is done.
Importing(k) ==
    /\ k.op = "import" /\ k.pc \in ImportPcs /\ k.new # None
    /\ k.then = "strip"
    /\ k.pc = "write" => k.was = file /\ Kept(file, owed)
    /\ k.pc \in {"read", "storeLibsecret", "storeTool", "putBack"} => Kept(k.was, owed)
    /\ k.pc \in {"storeLibsecret", "storeTool", "removePlain", "strip"} =>
            k.pw = k.new /\ k.text = file
    /\ k.pc \notin {"write", "done", "putBack"} => file = [version |-> k.new, inline |-> k.new]
    /\ k.pc \in {"removePlain", "strip"} => k.new \in {Lib, Tool}
    /\ k.pc = "strip" => plain = None
    /\ k.pc = "done" => Kept(file, owed)

KeepInv ==
    /\ CredentialTypeOK /\ owed # None /\ owed <= made
    /\ Gui # Idle => Gui.new <= made
    /\ Concurrent \/ Worker = Idle \/ Gui = Idle
    /\ Concurrent => plain = None /\ file.inline = None /\ (Worker # Idle => Worker.pc \in ReadPcs)
    /\ Worker # Idle => Connecting(Worker)
    /\ Worker # Idle /\ ~Concurrent => Moving(Worker)
    /\ IF Gui = Idle THEN Kept(file, owed) ELSE Saving(Gui) \/ Importing(Gui)
    /\ Gui # Idle => Gui.op \in Operations

(***************************************************************************)
(* Calls, and where an action leaves its own.                              *)
(***************************************************************************)
LEMMA CallsAre ==
    /\ \A k \in Calls : k # Idle
    /\ \A k \in {Idle} \cup Calls : k.pc # "idle" => k \in Calls
    /\ Idle.pc = "idle" /\ "idle" \notin Pcs
BY DEF Calls, Idle, Pcs

LEMMA AtCall ==
    ASSUME CredentialTypeOK, NEW c \in Callers, NEW pc \in Pcs, AtStep(c, pc)
    PROVE  call[c] \in Calls
BY CallsAre DEF CredentialTypeOK, AtStep

LEMMA Gone ==
    ASSUME CredentialTypeOK, NEW c \in Callers, call[c] \in Calls, NEW pc \in Pcs,
           Goto(c, pc)
    PROVE  /\ call' \in [Callers -> {Idle} \cup Calls] /\ call'[c] \in Calls
           /\ call'[c].pc = pc /\ call'[c].op = call[c].op /\ call'[c].then = call[c].then
           /\ call'[c].pw = call[c].pw /\ call'[c].new = call[c].new
           /\ call'[c].text = call[c].text /\ call'[c].was = call[c].was
           /\ \A d \in Callers : d # c => call'[d] = call[d]
BY DEF CredentialTypeOK, Goto, Calls, Idle

LEMMA HeldAt ==
    ASSUME CredentialTypeOK, NEW c \in Callers, call[c] \in Calls, NEW pc \in Pcs,
           NEW pw \in Numbers, Holding(c, pw, pc)
    PROVE  /\ call' \in [Callers -> {Idle} \cup Calls] /\ call'[c] \in Calls
           /\ call'[c].pc = pc /\ call'[c].op = call[c].op /\ call'[c].then = call[c].then
           /\ call'[c].pw = pw /\ call'[c].new = call[c].new
           /\ call'[c].text = call[c].text /\ call'[c].was = call[c].was
           /\ \A d \in Callers : d # c => call'[d] = call[d]
BY DEF CredentialTypeOK, Holding, Calls, Idle

LEMMA Begun ==
    ASSUME CredentialAssumption, CredentialTypeOK, NEW c \in Callers, NEW pc \in Pcs, NEW pw \in Numbers,
           NEW then \in Pcs, NEW op \in {"connect", "save", "import"},
           Begin(c, op, pc, pw, then)
    PROVE  /\ call' \in [Callers -> {Idle} \cup Calls] /\ call'[c] \in Calls
           /\ call'[c].pc = pc /\ call'[c].op = op /\ call'[c].then = then
           /\ call'[c].pw = pw /\ call'[c].new = pw
           /\ call'[c].text = file /\ call'[c].was = file
           /\ \A d \in Callers : d # c => call'[d] = call[d]
           /\ op \in Operations /\ call[c] = Idle
           /\ Concurrent \/ \A d \in Callers : call[d] = Idle
BY DEF CredentialTypeOK, Begin, Calls, Idle, CredentialAssumption

(***************************************************************************)
(* A step of one of the two callers, and the type invariant.               *)
(***************************************************************************)
LEMMA WorkerMoves ==
    ASSUME KeepInv, CredentialTypeOK', Worker # Idle, Gui' = Gui, made' = made, owed' = owed,
           Worker' # Idle => Connecting(Worker)',
           Concurrent => /\ UNCHANGED <<item, plain, file>>
                         /\ Worker' # Idle => Worker'.pc \in ReadPcs,
           ~Concurrent => Kept(file, owed)' /\ (Worker' # Idle => Moving(Worker)')
    PROVE  KeepInv'
<1>1. CASE Concurrent
  <2>1. (Kept(file, owed) <=> Kept(file, owed)') /\ (Saving(Gui) <=> Saving(Gui)')
        /\ (Importing(Gui) <=> Importing(Gui)')
    BY <1>1 DEF Kept, Saving, Importing, NotFiled, Filed, Moving, Storing, Lib, Tool, InKeyring
  <2> QED  BY <1>1, <2>1 DEF KeepInv
<1>2. CASE ~Concurrent
  <2>1. Gui = Idle
    BY <1>2 DEF KeepInv
  <2> QED  BY <1>2, <2>1 DEF KeepInv
<1> QED  BY <1>1, <1>2

LEMMA GuiMoves ==
    ASSUME KeepInv, CredentialTypeOK', Gui # Idle, Worker' = Worker, made' = made,
           owed' # None, owed' <= made,
           IF Gui' = Idle THEN Kept(file, owed)' ELSE Saving(Gui)' \/ Importing(Gui)',
           Gui' # Idle => Gui'.op = Gui.op /\ Gui'.new = Gui.new,
           Concurrent => plain' = None /\ file'.inline = None
    PROVE  KeepInv'
<1>1. Concurrent \/ Worker = Idle
    BY DEF KeepInv
<1>2. Worker' # Idle => Connecting(Worker)'
    BY DEF KeepInv, Connecting
<1> QED  BY <1>1, <1>2 DEF KeepInv

USE DEF AtStep
LEMMA TypeOfStore ==
    ASSUME CredentialAssumption, CredentialTypeOK, NEW c \in Callers,
           NEW client \in {"libsecret", "tool"}, NEW pc \in Pcs, NEW next \in Pcs, StoreBy(c, client, pc, next)
    PROVE  CredentialTypeOK'
<1>1. call[c] \in Calls
    BY AtCall DEF StoreBy
<1>2. call' \in [Callers -> {Idle} \cup Calls]
  <2>1. call[c].then \in Pcs /\ "removePlain" \in Pcs
    BY <1>1 DEF Calls, Pcs
  <2> QED  BY <1>1, <2>1, Gone DEF StoreBy
<1>3. item' \in [{"libsecret", "tool"} -> Numbers] /\ \A k \in DOMAIN item' : item'[k] # None => k \in Clients
    BY <1>1 DEF StoreBy, Has, CredentialTypeOK, Calls
<1>4. faults' \in 0..MaxFaults
    BY DEF StoreBy, CredentialTypeOK, Fails, Works, CredentialAssumption
<1> QED  BY <1>2, <1>3, <1>4 DEF StoreBy, CredentialTypeOK

LEMMA PcsHold ==
    /\ {"read", "storeLibsecret", "storeTool", "removePlain", "strip", "readAgain",
        "loadLibsecret", "loadTool", "loadPlain", "probe", "verify", "commit", "write",
        "putBack", "done"} \subseteq Pcs
    /\ \A k \in Calls : k.then \in Pcs
    /\ \A c \in Callers : AfterLoad(c) \in {"commit", "done"} /\ Ends(c) \in {"done", "readAgain"}
    /\ \A c \in Callers : call[c] \in Calls => Refused(c) \in Pcs
BY DEF Pcs, Calls, AfterLoad, Ends, Refused, NotMoved

LEMMA TypeOfLoad ==
    ASSUME CredentialAssumption, CredentialTypeOK, NEW c \in Callers,
           NEW client \in {"libsecret", "tool"}, NEW pc \in Pcs, NEW next \in Pcs,
           LoadBy(c, client, pc, next)
    PROVE  CredentialTypeOK'
<1>1. call[c] \in Calls
    BY AtCall DEF LoadBy
<1>2. call' \in [Callers -> {Idle} \cup Calls]
  <2>1. CASE Holding(c, item[client], AfterLoad(c))
    <3>1. item[client] \in Numbers /\ AfterLoad(c) \in Pcs
        BY PcsHold DEF CredentialTypeOK
    <3> QED  BY <1>1, <2>1, <3>1, HeldAt
  <2>2. CASE Goto(c, next)
    BY <1>1, <2>2, Gone
  <2> QED  BY <2>1, <2>2 DEF LoadBy, Found
<1>3. faults' \in 0..MaxFaults
    BY DEF LoadBy, CredentialTypeOK, Fails, Works, CredentialAssumption
<1> QED  BY <1>2, <1>3 DEF LoadBy, CredentialTypeOK

LEMMA CredentialTypeStep ==
    ASSUME CredentialAssumption, CredentialTypeOK, CredentialNext
    PROVE  CredentialTypeOK'
<1> USE DEF CredentialAssumption
<1>0. None \in Numbers /\ MaxMade \in Nat /\ MaxFaults \in Nat
    BY DEF Numbers, None
<1>1. CASE BeginConnect
  <2>1. call' \in [Callers -> {Idle} \cup Calls]
    BY <1>0, <1>1, Begun, PcsHold DEF BeginConnect, Callers
  <2> QED  BY <1>1, <2>1 DEF BeginConnect, CredentialTypeOK
<1>2. CASE BeginSave
  <2>0. made + 1 \in Numbers
    BY <1>0, <1>2 DEF BeginSave, CredentialTypeOK, Numbers
  <2>1. call' \in [Callers -> {Idle} \cup Calls]
    BY <1>0, <1>2, <2>0, Begun, PcsHold DEF BeginSave, Callers
  <2> QED  BY <1>2, <2>0, <2>1 DEF BeginSave, CredentialTypeOK, Numbers
<1>3. CASE BeginImport
  <2>0. made + 1 \in Numbers
    BY <1>0, <1>3 DEF BeginImport, CredentialTypeOK, Numbers
  <2>1. call' \in [Callers -> {Idle} \cup Calls]
    BY <1>0, <1>3, <2>0, Begun, PcsHold DEF BeginImport, Callers
  <2> QED  BY <1>3, <2>0, <2>1 DEF BeginImport, CredentialTypeOK, Numbers
<1>4. CASE Crash
    BY <1>4 DEF Crash, CredentialTypeOK
<1>5. ASSUME NEW c \in Callers,
             \/ StoreLibsecret(c) \/ StoreTool(c) \/ RemovePlain(c)
             \/ LoadLibsecret(c) \/ LoadTool(c) \/ LoadPlain(c) \/ Probe(c)
             \/ ReadConfig(c) \/ Strip(c) \/ ReadAgain(c)
             \/ Verify(c) \/ Commit(c) \/ WriteImport(c) \/ PutBack(c) \/ Return(c)
      PROVE  CredentialTypeOK'
  <2>0. call[c] \in Calls
    BY <1>5, AtCall, PcsHold DEF StoreLibsecret, StoreTool, StoreBy, RemovePlain, LoadLibsecret, LoadTool,
       LoadBy, LoadPlain, Probe, ReadConfig, Strip, ReadAgain, Verify, Commit, WriteImport, PutBack,
       Return
  <2>00. /\ call[c].pw \in Numbers /\ call[c].new \in Numbers /\ call[c].then \in Pcs
         /\ call[c].text \in Configs /\ call[c].was \in Configs
         /\ file \in Configs /\ file.inline \in Numbers /\ file.version \in Numbers /\ plain \in Numbers
    BY <2>0 DEF Calls, CredentialTypeOK, Configs
  <2>1. CASE StoreLibsecret(c)
    BY <2>1, TypeOfStore, PcsHold DEF StoreLibsecret
  <2>2. CASE StoreTool(c)
    BY <2>0, <2>2, TypeOfStore, PcsHold DEF StoreTool
  <2>3. CASE RemovePlain(c)
    <3>1. call' \in [Callers -> {Idle} \cup Calls]
        BY <2>0, <2>00, <2>3, Gone DEF RemovePlain
    <3> QED  BY <1>0, <2>3, <3>1 DEF RemovePlain, DeletePasswordFile, CredentialTypeOK
  <2>4. CASE LoadLibsecret(c)
    BY <2>4, TypeOfLoad, PcsHold DEF LoadLibsecret
  <2>5. CASE LoadTool(c)
    BY <2>5, TypeOfLoad, PcsHold DEF LoadTool
  <2>6. CASE LoadPlain(c)
    <3>1. AfterLoad(c) \in Pcs /\ "probe" \in Pcs
        BY PcsHold
    <3>2. call' \in [Callers -> {Idle} \cup Calls]
        BY <1>0, <2>0, <2>00, <2>6, <3>1, HeldAt DEF LoadPlain, Found
    <3> QED  BY <2>6, <3>2 DEF LoadPlain, CredentialTypeOK
  <2>7. CASE Probe(c)
    <3>1. AfterLoad(c) \in Pcs /\ "storeLibsecret" \in Pcs
        BY PcsHold
    <3>2. CASE call' = [call EXCEPT ![c].pc = "storeLibsecret", ![c].then = AfterLoad(c)]
      <4>1. call' \in [Callers -> {Idle} \cup Calls]
        BY <2>0, <3>1, <3>2 DEF CredentialTypeOK, Calls
      <4>2. faults' \in 0..MaxFaults /\ plain' \in Numbers
        BY <1>0, <2>00, <2>7 DEF Probe, Works, Fails, KeepsUntilStored, CredentialTypeOK
      <4> QED  BY <2>7, <4>1, <4>2 DEF Probe, CredentialTypeOK
    <3>3. CASE Goto(c, AfterLoad(c)) /\ UNCHANGED plain
      <4>1. call' \in [Callers -> {Idle} \cup Calls]
        BY <2>0, <3>1, <3>3, Gone
      <4>2. faults' \in 0..MaxFaults
        BY <2>7 DEF Probe, Works, Fails, CredentialTypeOK
      <4> QED  BY <2>7, <3>3, <4>1, <4>2 DEF Probe, CredentialTypeOK
    <3> QED  BY <2>7, <3>2, <3>3 DEF Probe
  <2>8. CASE ReadConfig(c)
    <3>1. Moves(c) \in Pcs
        BY PcsHold DEF Moves
    <3>2. call' \in [Callers -> {Idle} \cup Calls]
        BY <2>0, <2>00, <2>8, <3>1 DEF ReadConfig, CredentialTypeOK, Calls
    <3>3. owed' \in 0..MaxMade
        BY <2>00, <2>8 DEF ReadConfig, CredentialTypeOK, Numbers
    <3> QED  BY <2>8, <3>2, <3>3 DEF ReadConfig, CredentialTypeOK
  <2>9. CASE Strip(c)
    <3>1. PICK pc \in Pcs : Goto(c, pc)
        BY <2>9, PcsHold DEF Strip, NotMoved
    <3>2. call' \in [Callers -> {Idle} \cup Calls]
        BY <2>0, <3>1, Gone
    <3>3. faults' \in 0..MaxFaults /\ file' \in Configs
        BY <1>0, <2>00, <2>9 DEF Strip, Works, Fails, CredentialTypeOK, Configs
    <3>4. owed' \in 0..MaxMade
        BY <2>00, <2>9 DEF Strip, CredentialTypeOK, Numbers
    <3> QED  BY <2>9, <3>2, <3>3, <3>4 DEF Strip, CredentialTypeOK
  <2>10. CASE ReadAgain(c)
    <3>1. call' \in [Callers -> {Idle} \cup Calls]
        BY <1>0, <2>0, <2>00, <2>10, HeldAt, PcsHold DEF ReadAgain
    <3> QED  BY <2>10, <3>1 DEF ReadAgain, CredentialTypeOK
  <2>11. CASE Verify(c)
    <3>1. call' \in [Callers -> {Idle} \cup Calls]
        BY <2>0, <2>11, Gone, PcsHold DEF Verify
    <3> QED  BY <2>11, <3>1 DEF Verify, CredentialTypeOK
  <2>12. CASE Commit(c)
    <3>1. call' \in [Callers -> {Idle} \cup Calls]
        BY <2>0, <2>12, Gone, PcsHold DEF Commit
    <3>2. file' \in Configs /\ owed' \in 0..MaxMade
        BY <1>0, <2>00, <2>12 DEF Commit, Configs, CredentialTypeOK, Numbers
    <3> QED  BY <2>12, <3>1, <3>2 DEF Commit, CredentialTypeOK
  <2>13. CASE WriteImport(c)
    <3>1. call' \in [Callers -> {Idle} \cup Calls]
        BY <2>0, <2>13, Gone, PcsHold DEF WriteImport
    <3>2. file' \in Configs
        BY <2>00, <2>13 DEF WriteImport, Configs
    <3> QED  BY <2>13, <3>1, <3>2 DEF WriteImport, CredentialTypeOK
  <2>14. CASE PutBack(c)
    <3>1. call' \in [Callers -> {Idle} \cup Calls]
        BY <2>0, <2>14, Gone, PcsHold DEF PutBack
    <3> QED  BY <2>00, <2>14, <3>1 DEF PutBack, CredentialTypeOK
  <2>15. CASE Return(c)
    BY <2>15 DEF Return, CredentialTypeOK
  <2> QED  BY <1>5, <2>1, <2>2, <2>3, <2>4, <2>5, <2>6, <2>7, <2>8, <2>9, <2>10, <2>11, <2>12,
              <2>13, <2>14, <2>15
<1> QED  BY <1>1, <1>2, <1>3, <1>4, <1>5 DEF CredentialNext

(***************************************************************************)
(* One lemma for each action.                                              *)
(***************************************************************************)
LEMMA Shapes ==
    ASSUME KeepInv, NEW c \in Callers, call[c] \in Calls
    PROVE  /\ call[c] # Idle
           /\ c = "worker" =>
                /\ Connecting(call[c]) /\ Worker = call[c]
                /\ Concurrent => call[c].pc \in ReadPcs
                /\ ~Concurrent => Gui = Idle /\ Kept(file, owed) /\ Moving(call[c])
           /\ c = "gui" => (Saving(call[c]) \/ Importing(call[c])) /\ Gui = call[c]
           /\ c = "gui" /\ Concurrent => plain = None /\ file.inline = None
           /\ c = "worker" \/ c = "gui"
BY CallsAre DEF KeepInv, Worker, Gui, Callers

LEMMA KeptStored ==
    ASSUME CredentialTypeOK, Kept(file, owed), NEW client \in {"libsecret", "tool"},
           item' = [item EXCEPT ![client] = owed], UNCHANGED <<file, plain, owed>>, owed # None
    PROVE  Kept(file, owed)' /\ InKeyring'
BY DEF Kept, InKeyring, Lib, Tool, CredentialTypeOK

LEMMA KeptUnplain ==
    ASSUME Kept(file, owed), InKeyring, plain' = None, UNCHANGED <<item, file, owed>>
    PROVE  Kept(file, owed)' /\ InKeyring'
BY DEF Kept, InKeyring, Lib, Tool

LEMMA KeptStripped ==
    ASSUME CredentialTypeOK, Kept(file, owed), InKeyring, UNCHANGED <<item, plain, owed>>,
           file' = [file EXCEPT !.inline = None]
    PROVE  Kept(file, owed)'
BY DEF Kept, InKeyring, Lib, Tool, CredentialTypeOK, Configs

LEMMA Same ==
    ASSUME UNCHANGED <<item, plain, file, owed>>
    PROVE  /\ (Kept(file, owed)' <=> Kept(file, owed)) /\ (InKeyring' <=> InKeyring)
           /\ Lib' = Lib /\ Tool' = Tool
BY DEF Kept, InKeyring, Lib, Tool

LEMMA StoreKeeps ==
    ASSUME CredentialAssumption, KeepInv, CredentialTypeOK', NEW c \in Callers,
           NEW client \in {"libsecret", "tool"}, NEW pc \in {"storeLibsecret", "storeTool"},
           NEW next \in Pcs, StoreBy(c, client, pc, next),
           next \in {"storeTool", Refused(c)}
    PROVE  KeepInv'
<1>0. CredentialTypeOK /\ owed # None /\ pc \in Pcs /\ "removePlain" \in Pcs
    BY PcsHold DEF KeepInv
<1>1. call[c] \in Calls /\ call[c].pc = pc
    BY <1>0, AtCall DEF StoreBy
<1>2. Refused(c) \in Pcs
    BY <1>1, PcsHold
<1>3. /\ UNCHANGED <<plain, file, owed, made>>
      /\ \/ Has(client) /\ item' = [item EXCEPT ![client] = call[c].pw] /\ Goto(c, "removePlain")
         \/ Goto(c, next) /\ item' = item
    BY DEF StoreBy
<1>4. ASSUME NEW q \in Pcs, Goto(c, q)
      PROVE  /\ call'[c] \in Calls /\ call'[c].pc = q /\ call'[c].op = call[c].op
             /\ call'[c].then = call[c].then /\ call'[c].pw = call[c].pw
             /\ call'[c].new = call[c].new /\ call'[c].text = call[c].text
             /\ call'[c].was = call[c].was /\ call'[c] # Idle
             /\ \A d \in Callers : d # c => call'[d] = call[d]
    BY <1>0, <1>1, <1>4, Gone, CallsAre
<1>5. CASE c = "worker"
  <2>1. /\ Connecting(call[c]) /\ ~Concurrent /\ Kept(file, owed) /\ Moving(call[c])
        /\ Worker # Idle /\ Worker = call[c] /\ Gui' = Gui /\ Worker' = call'[c]
    BY <1>0, <1>1, <1>3, <1>4, <1>5, Shapes DEF ReadPcs, Worker, Gui, Callers
  <2>2. CASE Has(client) /\ item' = [item EXCEPT ![client] = call[c].pw] /\ Goto(c, "removePlain")
    <3>1. Kept(file, owed)' /\ InKeyring'
        BY <1>0, <1>1, <1>3, <2>1, <2>2, KeptStored DEF Moving
    <3>2. Connecting(Worker)' /\ Moving(Worker)'
        BY <1>0, <1>1, <1>3, <1>4, <2>1, <2>2, <3>1 DEF Connecting, ConnectPcs, Moving
    <3> QED  BY <1>3, <2>1, <3>1, <3>2, WorkerMoves
  <2>3. CASE Goto(c, next) /\ item' = item
    <3>1. next \in {"storeTool", "readAgain", "done"}
        BY <1>0, <1>1, <2>1 DEF Refused, NotMoved, Connecting
    <3>2. Kept(file, owed)' /\ (InKeyring' <=> InKeyring)
        BY <1>3, <2>1, <2>3, Same
    <3>3. Connecting(Worker)' /\ Moving(Worker)'
        BY <1>0, <1>1, <1>3, <1>4, <2>1, <2>3, <3>1, <3>2 DEF Connecting, ConnectPcs, Moving
    <3> QED  BY <1>3, <2>1, <3>2, <3>3, WorkerMoves
  <2> QED  BY <1>3, <2>2, <2>3
<1>6. CASE c = "gui"
  <2>1. /\ Gui = call[c] /\ Gui # Idle /\ Gui' = call'[c] /\ Worker' = Worker /\ Gui' # Idle
        /\ Gui'.op = Gui.op /\ Gui'.new = Gui.new /\ owed <= made
        /\ Concurrent => plain = None /\ file.inline = None
        /\ Saving(call[c]) \/ Importing(call[c])
    BY <1>0, <1>1, <1>3, <1>4, <1>6, Shapes DEF Worker, Gui, Callers, KeepInv
  <2>2. SUFFICES Saving(Gui)' \/ Importing(Gui)'
    BY <1>0, <1>3, <2>1, <2>2, GuiMoves
  <2>3. CASE Saving(call[c])
    <3>1. NotFiled(call[c]) /\ call[c].op = "save" /\ call[c].new # None /\ call[c].new # owed
        BY <1>1, <2>3 DEF Saving, Filed
    <3>2. CASE call[c].then = "verify"
      <4>1. CASE Has(client) /\ item' = [item EXCEPT ![client] = call[c].new]
                 /\ Goto(c, "removePlain")
        <5>1. Filed(Gui)'
            BY <1>0, <1>1, <1>3, <1>4, <2>1, <3>1, <3>2, <4>1
               DEF NotFiled, Filed, Kept, Lib, Tool, CredentialTypeOK
        <5> QED  BY <1>0, <1>3, <1>4, <2>1, <3>1, <4>1, <5>1 DEF Saving, SavePcs
      <4>2. CASE Goto(c, next) /\ item' = item
        <5>1. next \in {"storeTool", "verify"}
            BY <3>1, <3>2 DEF Refused
        <5>2. NotFiled(Gui)'
            BY <1>0, <1>1, <1>3, <1>4, <2>1, <3>1, <3>2, <4>2, <5>1, Same
               DEF NotFiled, Storing, Moving
        <5> QED  BY <1>0, <1>3, <1>4, <2>1, <3>1, <4>2, <5>1, <5>2 DEF Saving, SavePcs
      <4> QED  BY <1>1, <1>3, <3>1, <3>2, <4>1, <4>2 DEF NotFiled, Storing
    <3>3. CASE call[c].then # "verify"
      <4>1. call[c].then = "commit" /\ Moving(call[c]) /\ call[c].pw = owed /\ Kept(file, owed)
        BY <1>1, <3>1, <3>3 DEF NotFiled, Storing, Moving
      <4>2. CASE Has(client) /\ item' = [item EXCEPT ![client] = owed]
                 /\ Goto(c, "removePlain")
        <5>1. Kept(file, owed)' /\ InKeyring'
            BY <1>0, <1>3, <4>1, <4>2, KeptStored
        <5>2. NotFiled(Gui)'
            BY <1>0, <1>1, <1>3, <1>4, <2>1, <3>1, <4>1, <4>2, <5>1 DEF NotFiled, Storing, Moving
        <5> QED  BY <1>0, <1>3, <1>4, <2>1, <3>1, <4>2, <5>2 DEF Saving, SavePcs
      <4>3. CASE Goto(c, next) /\ item' = item
        <5>1. next \in {"storeTool", "commit"}
            BY <3>1, <4>1 DEF Refused
        <5>2. NotFiled(Gui)'
            BY <1>0, <1>1, <1>3, <1>4, <2>1, <3>1, <4>1, <4>3, <5>1, Same
               DEF NotFiled, Storing, Moving
        <5> QED  BY <1>0, <1>3, <1>4, <2>1, <3>1, <4>3, <5>1, <5>2 DEF Saving, SavePcs
      <4> QED  BY <1>3, <4>1, <4>2, <4>3
    <3> QED  BY <3>2, <3>3
  <2>4. CASE Importing(call[c])
    <3>1. CASE Has(client) /\ item' = [item EXCEPT ![client] = call[c].pw] /\ Goto(c, "removePlain")
      <4>1. call[c].new \in {Lib', Tool'}
        BY <1>0, <1>1, <2>4, <3>1 DEF Importing, Lib, Tool, CredentialTypeOK
      <4> QED  BY <1>0, <1>1, <1>3, <1>4, <2>1, <2>4, <3>1, <4>1 DEF Importing, ImportPcs
    <3>2. CASE Goto(c, next) /\ item' = item
      <4>1. next \in {"storeTool", "putBack"}
        BY <2>4 DEF Refused, NotMoved, Importing
      <4>2. Kept(call[c].was, owed)'
        BY <1>1, <1>3, <1>4, <2>4, <3>2 DEF Importing, Kept, Lib, Tool
      <4>3. Kept(Gui.was, owed)'
        BY <1>0, <1>4, <2>1, <3>2, <4>1, <4>2 DEF Kept, Lib, Tool
      <4> QED  BY <1>0, <1>1, <1>3, <1>4, <2>1, <2>4, <3>2, <4>1, <4>3 DEF Importing, ImportPcs
    <3> QED  BY <1>3, <3>1, <3>2
  <2> QED  BY <2>1, <2>3, <2>4
<1> QED  BY <1>5, <1>6 DEF Callers

LEMMA RemoveKeeps ==
    ASSUME KeepInv, CredentialTypeOK', NEW c \in Callers, RemovePlain(c)
    PROVE  KeepInv'
<1>0. CredentialTypeOK /\ owed # None /\ "removePlain" \in Pcs
    BY PcsHold DEF KeepInv
<1>1. call[c] \in Calls /\ call[c].pc = "removePlain" /\ call[c].then \in Pcs
    BY <1>0, AtCall, PcsHold DEF RemovePlain
<1>2. Goto(c, call[c].then) /\ plain' = None /\ UNCHANGED <<item, file, owed, made>>
    BY DEF RemovePlain, DeletePasswordFile
<1>3. /\ call'[c] \in Calls /\ call'[c].pc = call[c].then /\ call'[c].op = call[c].op
      /\ call'[c].then = call[c].then /\ call'[c].pw = call[c].pw
      /\ call'[c].new = call[c].new /\ call'[c].text = call[c].text
      /\ call'[c].was = call[c].was /\ call'[c] # Idle
      /\ \A d \in Callers : d # c => call'[d] = call[d]
    BY <1>0, <1>1, <1>2, Gone, CallsAre
<1>4. CASE c = "worker"
  <2>1. /\ Connecting(call[c]) /\ ~Concurrent /\ Kept(file, owed) /\ Moving(call[c])
        /\ Worker # Idle /\ Worker = call[c] /\ Gui' = Gui /\ Worker' = call'[c]
    BY <1>0, <1>1, <1>3, <1>4, Shapes DEF ReadPcs, Worker, Gui, Callers
  <2>2. Kept(file, owed)' /\ InKeyring'
    BY <1>1, <1>2, <2>1, KeptUnplain DEF Moving
  <2>3. Connecting(Worker)' /\ Moving(Worker)'
    BY <1>0, <1>1, <1>2, <1>3, <2>1, <2>2 DEF Connecting, ConnectPcs, Moving
  <2> QED  BY <1>2, <2>1, <2>2, <2>3, WorkerMoves
<1>5. CASE c = "gui"
  <2>1. /\ Gui = call[c] /\ Gui # Idle /\ Gui' = call'[c] /\ Worker' = Worker /\ Gui' # Idle
        /\ Gui'.op = Gui.op /\ Gui'.new = Gui.new /\ owed <= made
        /\ Concurrent => plain = None /\ file.inline = None
        /\ Saving(call[c]) \/ Importing(call[c])
    BY <1>0, <1>1, <1>3, <1>5, Shapes DEF Worker, Gui, Callers, KeepInv
  <2>2. SUFFICES Saving(Gui)' \/ Importing(Gui)'
    BY <1>0, <1>2, <2>1, <2>2, GuiMoves
  <2>3. CASE Saving(call[c]) /\ NotFiled(call[c])
    <3>1. call[c].then = "commit" /\ Moving(call[c]) /\ Kept(file, owed) /\ call[c].pw = owed
        BY <1>1, <2>3 DEF NotFiled, Storing, Moving
    <3>2. Kept(file, owed)' /\ InKeyring'
        BY <1>1, <1>2, <3>1, KeptUnplain DEF Moving
    <3>3. NotFiled(Gui)'
        BY <1>0, <1>1, <1>2, <1>3, <2>1, <2>3, <3>1, <3>2 DEF NotFiled, Storing, Moving
    <3> QED  BY <1>0, <1>1, <1>2, <1>3, <2>1, <2>3, <3>1, <3>3 DEF Saving, SavePcs
  <2>4. CASE Saving(call[c]) /\ Filed(call[c])
    <3>1. Filed(Gui)' /\ call[c].then = "verify"
        BY <1>0, <1>1, <1>2, <1>3, <2>1, <2>4 DEF Filed, Lib, Tool
    <3> QED  BY <1>0, <1>1, <1>2, <1>3, <2>1, <2>4, <3>1 DEF Saving, SavePcs
  <2>5. CASE Importing(call[c])
    <3>1. Importing(Gui)'
        BY <1>0, <1>1, <1>2, <1>3, <2>1, <2>5 DEF Importing, ImportPcs, Lib, Tool
    <3> QED  BY <3>1
  <2> QED  BY <1>1, <2>1, <2>3, <2>4, <2>5 DEF Saving
<1> QED  BY <1>4, <1>5 DEF Callers

LEMMA LoadKeeps ==
    ASSUME CredentialAssumption, Undisturbed, KeepInv, CredentialTypeOK', NEW c \in Callers,
           LoadLibsecret(c) \/ LoadTool(c)
    PROVE  KeepInv'
<1> DEFINE client == IF call[c].pc = "loadLibsecret" THEN "libsecret" ELSE "tool"
           next == IF call[c].pc = "loadLibsecret" THEN "loadTool" ELSE "loadPlain"
<1>0. CredentialTypeOK /\ owed # None
      /\ {"loadLibsecret", "loadTool", "loadPlain", "commit", "done"} \subseteq Pcs
      /\ item[client] \in Numbers /\ AfterLoad(c) \in {"commit", "done"} /\ next \in Pcs
      /\ (item[client] # None => Has(client))
    BY PcsHold DEF KeepInv, CredentialTypeOK, Has
<1>1. call[c] \in Calls /\ call[c].pc \in {"loadLibsecret", "loadTool"}
    BY <1>0, AtCall DEF LoadLibsecret, LoadTool, LoadBy
<1>2. /\ UNCHANGED <<item, plain, file, owed, made>>
      /\ \/ item[client] # None /\ Holding(c, item[client], AfterLoad(c))
         \/ Goto(c, next) /\ (item[client] = None \/ "lookup" \in Faults)
    BY <1>0, <1>1 DEF LoadLibsecret, LoadTool, LoadBy, Found, Fails
<1>3. PICK pw \in Numbers, q \in {"commit", "done", "loadTool", "loadPlain"} :
            /\ call'[c] \in Calls /\ call'[c].pc = q /\ call'[c].op = call[c].op
            /\ call'[c].then = call[c].then /\ call'[c].pw = pw
            /\ call'[c].new = call[c].new /\ call'[c].text = call[c].text
            /\ call'[c].was = call[c].was /\ call'[c] # Idle
            /\ \A d \in Callers : d # c => call'[d] = call[d]
            /\ \/ item[client] # None /\ pw = item[client] /\ q = AfterLoad(c)
               \/ q = next /\ (item[client] = None \/ "lookup" \in Faults)
  <2>1. call[c].pw \in Numbers
    BY <1>1 DEF Calls
  <2> QED  BY <1>0, <1>1, <1>2, <2>1, Gone, HeldAt, CallsAre
<1>4. CASE c = "worker"
  <2>1. /\ Connecting(call[c]) /\ Worker # Idle /\ Worker = call[c] /\ Gui' = Gui /\ Worker' = call'[c]
        /\ ~Concurrent => Kept(file, owed) /\ Moving(call[c])
        /\ q \in {"done", "loadTool", "loadPlain"}
    BY <1>0, <1>1, <1>3, <1>4, Shapes DEF Worker, Gui, Callers, AfterLoad, Connecting
  <2>2. Connecting(Worker)' /\ Worker'.pc \in ReadPcs
    BY <1>0, <1>1, <1>3, <2>1 DEF Connecting, ConnectPcs, ReadPcs
  <2>3. ~Concurrent /\ OneClient => item[client] \in {None, owed}
    BY <1>0, <2>1 DEF OneClient, Kept, Lib, Tool, CredentialTypeOK, CredentialAssumption
  <2>4. ~Concurrent => Moving(Worker)'
    BY <1>0, <1>1, <1>2, <1>3, <2>1, <2>3 DEF Moving
  <2> QED  BY <1>2, <2>1, <2>2, <2>4, Same, WorkerMoves
<1>5. CASE c = "gui"
  <2>1. /\ Gui = call[c] /\ Gui # Idle /\ Gui' = call'[c] /\ Worker' = Worker /\ Gui' # Idle
        /\ Gui'.op = Gui.op /\ Gui'.new = Gui.new /\ owed <= made
        /\ Concurrent => plain = None /\ file.inline = None
        /\ (Saving(call[c]) \/ Importing(call[c])) /\ call[c].op \in Operations
    BY <1>0, <1>1, <1>3, <1>5, Shapes DEF Worker, Gui, Callers, KeepInv
  <2>2. SUFFICES Saving(Gui)' \/ Importing(Gui)'
    BY <1>0, <1>2, <2>1, <2>2, GuiMoves
  <2>3. call[c].op = "save" /\ Saving(call[c]) /\ "lookup" \notin Faults /\ AfterLoad(c) = "commit"
    BY <1>1, <2>1 DEF Saving, Importing, ImportPcs, Undisturbed, AfterLoad
  <2>4. CASE NotFiled(call[c])
    <3>1. NotFiled(Gui)'
        BY <1>0, <1>1, <1>2, <1>3, <2>1, <2>3, <2>4, Same
           DEF NotFiled, Storing, Moving, Kept, Lib, Tool, InKeyring
    <3> QED  BY <1>0, <1>1, <1>2, <1>3, <2>1, <2>3, <3>1 DEF Saving, SavePcs
  <2>5. CASE Filed(call[c])
    <3>1. Filed(Gui)'
        BY <1>0, <1>1, <1>2, <1>3, <2>1, <2>3, <2>5 DEF Saving, Filed, Lib, Tool
    <3> QED  BY <1>0, <1>1, <1>2, <1>3, <2>1, <2>3, <3>1 DEF Saving, SavePcs
  <2> QED  BY <1>1, <2>3, <2>4, <2>5 DEF Saving
<1> QED  BY <1>4, <1>5 DEF Callers

LEMMA LoadPlainKeeps ==
    ASSUME Undisturbed, KeepInv, CredentialTypeOK', NEW c \in Callers, LoadPlain(c)
    PROVE  KeepInv'
<1>0. CredentialTypeOK /\ owed # None
      /\ {"loadPlain", "probe", "commit", "done"} \subseteq Pcs
      /\ plain \in Numbers /\ AfterLoad(c) \in {"commit", "done"}
    BY PcsHold DEF KeepInv, CredentialTypeOK
<1>1. call[c] \in Calls /\ call[c].pc = "loadPlain"
    BY <1>0, AtCall DEF LoadPlain
<1>2. /\ UNCHANGED <<item, plain, file, owed, made>>
      /\ Holding(c, plain, IF plain = None THEN AfterLoad(c) ELSE "probe")
    BY <1>0 DEF LoadPlain, Found
<1>3. PICK q \in {"commit", "done", "probe"} :
      /\ q = IF plain = None THEN AfterLoad(c) ELSE "probe"
      /\ call'[c] \in Calls /\ call'[c].pc = q /\ call'[c].op = call[c].op
      /\ call'[c].then = call[c].then /\ call'[c].pw = plain
      /\ call'[c].new = call[c].new /\ call'[c].text = call[c].text
      /\ call'[c].was = call[c].was /\ call'[c] # Idle
      /\ \A d \in Callers : d # c => call'[d] = call[d]
    BY <1>0, <1>1, <1>2, HeldAt, CallsAre
<1>4. CASE c = "worker"
  <2>1. /\ Connecting(call[c]) /\ Worker # Idle /\ Worker = call[c] /\ Gui' = Gui /\ Worker' = call'[c]
        /\ ~Concurrent => Kept(file, owed) /\ Moving(call[c])
        /\ Concurrent => call[c].pc \in ReadPcs
    BY <1>0, <1>1, <1>3, <1>4, Shapes DEF Worker, Gui, Callers
  <2>2. Connecting(Worker)' /\ Worker'.pc \in ReadPcs \cup {"probe"} /\ (Concurrent => Worker'.pc \in ReadPcs)
    BY <1>0, <1>1, <1>3, <1>4, <2>1 DEF Connecting, ConnectPcs, ReadPcs, AfterLoad, KeepInv
  <2>3. ~Concurrent => Moving(Worker)'
    BY <1>0, <1>1, <1>2, <1>3, <2>1, <2>2 DEF Moving, Kept, AfterLoad, Connecting
  <2> QED  BY <1>2, <2>1, <2>2, <2>3, Same, WorkerMoves
<1>5. CASE c = "gui"
  <2>1. /\ Gui = call[c] /\ Gui # Idle /\ Gui' = call'[c] /\ Worker' = Worker /\ Gui' # Idle
        /\ Gui'.op = Gui.op /\ Gui'.new = Gui.new /\ owed <= made
        /\ Concurrent => plain = None /\ file.inline = None
        /\ (Saving(call[c]) \/ Importing(call[c])) /\ call[c].op \in Operations
        /\ Concurrent => call[c].op # "import"
    BY <1>0, <1>1, <1>3, <1>5, Shapes DEF Worker, Gui, Callers, KeepInv, Undisturbed
  <2>2. SUFFICES Saving(Gui)' \/ Importing(Gui)'
    BY <1>0, <1>2, <2>1, <2>2, GuiMoves
  <2>3. call[c].op = "save" /\ NotFiled(call[c]) /\ Saving(call[c]) /\ AfterLoad(c) = "commit"
    BY <1>1, <2>1 DEF Saving, Importing, ImportPcs, AfterLoad, Filed
  <2>4. NotFiled(Gui)'
    BY <1>0, <1>1, <1>2, <1>3, <2>1, <2>3, Same DEF NotFiled, Storing, Moving, Kept
  <2> QED  BY <1>0, <1>1, <1>2, <1>3, <2>1, <2>3, <2>4 DEF Saving, SavePcs
<1> QED  BY <1>4, <1>5 DEF Callers

LEMMA ProbeKeeps ==
    ASSUME Undisturbed, KeepInv, CredentialTypeOK', NEW c \in Callers, Probe(c)
    PROVE  KeepInv'
<1>0. CredentialTypeOK /\ owed # None
      /\ {"storeLibsecret", "probe", "commit", "done"} \subseteq Pcs
      /\ AfterLoad(c) \in {"commit", "done"} /\ AfterLoad(c) \in Pcs
    BY PcsHold DEF KeepInv, CredentialTypeOK
<1>1. call[c] \in Calls /\ call[c].pc = "probe"
    BY <1>0, AtCall DEF Probe
<1>2. /\ UNCHANGED <<item, plain, file, owed, made>>
      /\ \/ call' = [call EXCEPT ![c].pc = "storeLibsecret", ![c].then = AfterLoad(c)]
         \/ Goto(c, AfterLoad(c))
    BY DEF Probe, KeepsUntilStored
<1>3. PICK q \in {"storeLibsecret", "commit", "done"}, then \in Pcs :
      /\ \/ q = "storeLibsecret" /\ then = AfterLoad(c)
         \/ q = AfterLoad(c)
      /\ call'[c] \in Calls /\ call'[c].pc = q /\ call'[c].op = call[c].op
      /\ call'[c].then = then /\ call'[c].pw = call[c].pw
      /\ call'[c].new = call[c].new /\ call'[c].text = call[c].text
      /\ call'[c].was = call[c].was /\ call'[c] # Idle
      /\ \A d \in Callers : d # c => call'[d] = call[d]
  <2>1. CASE call' = [call EXCEPT ![c].pc = "storeLibsecret", ![c].then = AfterLoad(c)]
    <3>1. call' = [call EXCEPT ![c] = [@ EXCEPT !.pc = "storeLibsecret", !.then = AfterLoad(c)]]
        BY <2>1
    <3>2. [call[c] EXCEPT !.pc = "storeLibsecret", !.then = AfterLoad(c)] \in Calls
        BY <1>0, <1>1 DEF Calls
    <3>3. /\ call'[c] = [call[c] EXCEPT !.pc = "storeLibsecret", !.then = AfterLoad(c)]
          /\ \A d \in Callers : d # c => call'[d] = call[d]
        BY <1>0, <3>1 DEF CredentialTypeOK
    <3> QED  BY <1>0, <1>1, <3>2, <3>3, CallsAre DEF Calls
  <2>2. CASE Goto(c, AfterLoad(c))
    <3>1. call[c].then \in Pcs
        BY <1>1, PcsHold
    <3> QED  BY <1>0, <1>1, <2>2, <3>1, Gone, CallsAre
  <2> QED  BY <1>2, <2>1, <2>2
<1>4. CASE c = "worker"
  <2>1. /\ Connecting(call[c]) /\ Worker # Idle /\ Worker = call[c] /\ Gui' = Gui /\ Worker' = call'[c]
        /\ ~Concurrent => Kept(file, owed) /\ Moving(call[c])
        /\ Concurrent => call[c].pc \in ReadPcs
    BY <1>0, <1>1, <1>3, <1>4, Shapes DEF Worker, Gui, Callers
  <2>2. Connecting(Worker)' /\ Moving(Worker)' /\ ~Concurrent
    BY <1>0, <1>1, <1>2, <1>3, <2>1 DEF Connecting, ConnectPcs, ReadPcs, AfterLoad, Moving
  <2> QED  BY <1>2, <2>1, <2>2, Same, WorkerMoves
<1>5. CASE c = "gui"
  <2>1. /\ Gui = call[c] /\ Gui # Idle /\ Gui' = call'[c] /\ Worker' = Worker /\ Gui' # Idle
        /\ Gui'.op = Gui.op /\ Gui'.new = Gui.new /\ owed <= made
        /\ Concurrent => plain = None /\ file.inline = None
        /\ (Saving(call[c]) \/ Importing(call[c])) /\ call[c].op \in Operations
        /\ Concurrent => call[c].op # "import"
    BY <1>0, <1>1, <1>3, <1>5, Shapes DEF Worker, Gui, Callers, KeepInv, Undisturbed
  <2>2. SUFFICES Saving(Gui)' \/ Importing(Gui)'
    BY <1>0, <1>2, <2>1, <2>2, GuiMoves
  <2>3. call[c].op = "save" /\ NotFiled(call[c]) /\ Saving(call[c]) /\ AfterLoad(c) = "commit"
    BY <1>1, <2>1 DEF Saving, Importing, ImportPcs, AfterLoad, Filed
  <2>4. NotFiled(Gui)'
    BY <1>0, <1>1, <1>2, <1>3, <2>1, <2>3, Same DEF NotFiled, Storing, Moving
  <2> QED  BY <1>0, <1>1, <1>2, <1>3, <2>1, <2>3, <2>4 DEF Saving, SavePcs
<1> QED  BY <1>4, <1>5 DEF Callers

LEMMA ReadConfigKeeps ==
    ASSUME Undisturbed, KeepInv, CredentialTypeOK', NEW c \in Callers, ReadConfig(c)
    PROVE  KeepInv'
<1>0. CredentialTypeOK /\ owed # None /\ {"read", "done", "readAgain", "storeLibsecret"} \subseteq Pcs
      /\ file \in Configs /\ file.inline \in Numbers
    BY PcsHold DEF KeepInv, CredentialTypeOK, Configs
<1>1. call[c] \in Calls /\ call[c].pc = "read"
    BY <1>0, AtCall DEF ReadConfig
<1>2. /\ UNCHANGED <<item, plain, file, made>>
      /\ Moves(c) \in {"done", "readAgain", "storeLibsecret"}
      /\ owed' = owed
  <2>1. Moves(c) # "done"
    BY <1>0, <1>1, Shapes DEF Moves, Ends, Connecting, Saving, SavePcs, Importing
  <2> QED  BY <2>1 DEF ReadConfig, Moves, Ends
<1>3. PICK q \in {"done", "readAgain", "storeLibsecret"} :
      /\ q = Moves(c)
      /\ call'[c] \in Calls /\ call'[c].pc = q /\ call'[c].op = call[c].op
      /\ call'[c].then = call[c].then /\ call'[c].pw = file.inline
      /\ call'[c].new = call[c].new /\ call'[c].text = file
      /\ call'[c].was = call[c].was /\ call'[c] # Idle
      /\ \A d \in Callers : d # c => call'[d] = call[d]
  <2>1. [call[c] EXCEPT !.text = file, !.pw = file.inline, !.pc = Moves(c)] \in Calls
    BY <1>0, <1>1, <1>2 DEF Calls
  <2>2. /\ call'[c] = [call[c] EXCEPT !.text = file, !.pw = file.inline, !.pc = Moves(c)]
        /\ \A d \in Callers : d # c => call'[d] = call[d]
    BY <1>0 DEF ReadConfig, CredentialTypeOK
  <2> QED  BY <1>1, <1>2, <2>1, <2>2, CallsAre DEF Calls
<1>4. CASE c = "worker"
  <2>1. /\ Connecting(call[c]) /\ Worker # Idle /\ Worker = call[c] /\ Gui' = Gui /\ Worker' = call'[c]
        /\ ~Concurrent => Kept(file, owed) /\ Moving(call[c])
        /\ Concurrent => call[c].pc \in ReadPcs
    BY <1>0, <1>1, <1>3, <1>4, Shapes DEF Worker, Gui, Callers
  <2>3. Connecting(Worker)' /\ Worker'.pc \in ReadPcs \cup {"storeLibsecret"}
        /\ (Concurrent => Worker'.pc \in ReadPcs)
    BY <1>0, <1>1, <1>2, <1>3, <1>4, <2>1 DEF Connecting, ConnectPcs, ReadPcs, Moves, Ends, KeepInv
  <2>4. ~Concurrent => Moving(Worker)'
    BY <1>0, <1>1, <1>2, <1>3, <2>1, <2>3 DEF Moving, Kept, Moves, Ends, Connecting
  <2> QED  BY <1>2, <2>1, <2>3, <2>4, Same, WorkerMoves
<1>5. CASE c = "gui"
  <2>1. /\ Gui = call[c] /\ Gui # Idle /\ Gui' = call'[c] /\ Worker' = Worker /\ Gui' # Idle
        /\ Gui'.op = Gui.op /\ Gui'.new = Gui.new /\ owed <= made
        /\ Concurrent => plain = None /\ file.inline = None
        /\ (Saving(call[c]) \/ Importing(call[c])) /\ call[c].op \in Operations
        /\ Concurrent => call[c].op # "import"
    BY <1>0, <1>1, <1>3, <1>5, Shapes DEF Worker, Gui, Callers, KeepInv, Undisturbed
  <2>2. SUFFICES Saving(Gui)' \/ Importing(Gui)'
    BY <1>0, <1>2, <2>1, <2>2, GuiMoves
  <2>3. Importing(call[c])
    BY <1>1, <2>1 DEF Saving, SavePcs
  <2>4. Kept(Gui.was, owed)'
    BY <1>1, <1>2, <1>3, <2>1, <2>3 DEF Importing, Kept, Lib, Tool
  <2>5. Importing(Gui)'
    BY <1>0, <1>1, <1>2, <1>3, <2>1, <2>3, <2>4 DEF Importing, ImportPcs, Moves
  <2> QED  BY <2>5
<1> QED  BY <1>4, <1>5 DEF Callers

LEMMA StripKeeps ==
    ASSUME CredentialAssumption, Undisturbed, KeepInv, CredentialTypeOK', NEW c \in Callers, Strip(c)
    PROVE  KeepInv'
<1>0. CredentialTypeOK /\ owed # None /\ {"strip", "done", "readAgain", "putBack"} \subseteq Pcs
      /\ owed <= made
    BY PcsHold DEF KeepInv
<1>1. call[c] \in Calls /\ call[c].pc = "strip"
    BY <1>0, AtCall DEF Strip
<1>2. UNCHANGED <<item, plain, made>>
    BY DEF Strip
<1>3. PICK q \in {"done", "readAgain", "putBack"} :
      /\ \/ /\ file' = [call[c].text EXCEPT !.inline = None] /\ q = Ends(c)
            /\ owed' = IF call[c].op = "import" THEN call[c].new ELSE owed
         \/ UNCHANGED <<file, owed>> /\ q = NotMoved(c) /\ "write" \in Faults
      /\ call'[c] \in Calls /\ call'[c].pc = q /\ call'[c].op = call[c].op
      /\ call'[c].then = call[c].then /\ call'[c].pw = call[c].pw
      /\ call'[c].new = call[c].new /\ call'[c].text = call[c].text
      /\ call'[c].was = call[c].was /\ call'[c] # Idle
      /\ \A d \in Callers : d # c => call'[d] = call[d]
    BY <1>0, <1>1, Gone, CallsAre DEF Strip, Ends, NotMoved, Fails
<1>4. CASE c = "worker"
  <2>1. /\ Connecting(call[c]) /\ Worker # Idle /\ Worker = call[c] /\ Gui' = Gui /\ Worker' = call'[c]
        /\ ~Concurrent => Kept(file, owed) /\ Moving(call[c])
        /\ Concurrent => call[c].pc \in ReadPcs
    BY <1>0, <1>1, <1>3, <1>4, Shapes DEF Worker, Gui, Callers
  <2>2. ~Concurrent /\ call[c].op = "connect" /\ InKeyring /\ q = "readAgain" /\ owed' = owed
    BY <1>1, <1>3, <2>1 DEF ReadPcs, Moving, Connecting, Ends, NotMoved
  <2>3. Kept(file, owed)'
    <3>1. call[c].text = file \/ call[c].then # "strip"
        BY <1>1, <2>1, <2>2 DEF Moving
    <3>2. CASE UNCHANGED file
        BY <1>2, <2>1, <2>2, <3>2, Same
    <3>3. CASE file' = [file EXCEPT !.inline = None]
        BY <1>0, <1>2, <2>1, <2>2, <3>3, KeptStripped
    <3>4. call[c].then = "strip"
        BY <1>1, <2>1 DEF Connecting
    <3> QED  BY <1>3, <2>2, <3>1, <3>2, <3>3, <3>4
  <2>4. Connecting(Worker)' /\ Moving(Worker)'
    BY <1>0, <1>1, <1>3, <2>1, <2>2 DEF Connecting, ConnectPcs, Moving
  <2> QED  BY <1>2, <2>1, <2>2, <2>3, <2>4, WorkerMoves
<1>5. CASE c = "gui"
  <2>1. /\ Gui = call[c] /\ Gui # Idle /\ Gui' = call'[c] /\ Worker' = Worker /\ Gui' # Idle
        /\ Gui'.op = Gui.op /\ Gui'.new = Gui.new /\ owed <= made
        /\ Concurrent => plain = None /\ file.inline = None
        /\ (Saving(call[c]) \/ Importing(call[c])) /\ call[c].op \in Operations
        /\ Concurrent => call[c].op # "import"
    BY <1>0, <1>1, <1>3, <1>5, Shapes DEF Worker, Gui, Callers, KeepInv, Undisturbed
  <2>3. Importing(call[c]) /\ call[c].op = "import" /\ "write" \notin Faults /\ ~Concurrent
        /\ Clients # {"libsecret", "tool"}
    BY <1>1, <2>1 DEF Saving, SavePcs, Importing, Undisturbed
  <2>4. file' = [version |-> call[c].new, inline |-> None] /\ q = "done" /\ owed' = call[c].new
        /\ owed' # None /\ owed' <= made
    BY <1>0, <1>1, <1>3, <2>1, <2>3 DEF Importing, Ends, KeepInv
  <2>5. Kept(file, owed)'
    <3>1. Lib = None \/ Tool = None
        BY <1>0, <2>3 DEF CredentialTypeOK, Lib, Tool, CredentialAssumption
    <3>2. plain = None /\ call[c].new \in {Lib, Tool} /\ call[c].new # None
        BY <1>1, <2>3 DEF Importing
    <3> QED  BY <1>2, <2>4, <3>1, <3>2 DEF Kept, Lib, Tool
  <2>6. Importing(Gui)'
    BY <1>0, <1>1, <1>3, <2>1, <2>3, <2>4, <2>5 DEF Importing, ImportPcs
  <2> QED  BY <1>2, <2>1, <2>3, <2>4, <2>6, GuiMoves
<1> QED  BY <1>4, <1>5 DEF Callers

LEMMA ReadAgainKeeps ==
    ASSUME CredentialAssumption, Undisturbed, KeepInv, CredentialTypeOK', NEW c \in Callers, ReadAgain(c)
    PROVE  KeepInv'
<1>0. CredentialTypeOK /\ owed # None /\ {"done", "readAgain", "loadLibsecret"} \subseteq Pcs
      /\ file.inline \in Numbers /\ None \in Numbers
    BY PcsHold DEF KeepInv, CredentialTypeOK, Configs, CredentialAssumption, Numbers, None
<1>1. call[c] \in Calls /\ call[c].pc = "readAgain"
    BY <1>0, AtCall DEF ReadAgain
<1>2. UNCHANGED <<item, plain, file, owed, made>>
    BY DEF ReadAgain
<1>3. PICK q \in {"done", "loadLibsecret"}, pw \in Numbers :
      /\ q = "done" => pw = file.inline
      /\ call'[c] \in Calls /\ call'[c].pc = q /\ call'[c].op = call[c].op
      /\ call'[c].then = call[c].then /\ call'[c].pw = pw
      /\ call'[c].new = call[c].new /\ call'[c].text = call[c].text
      /\ call'[c].was = call[c].was /\ call'[c] # Idle
      /\ \A d \in Callers : d # c => call'[d] = call[d]
    BY <1>0, <1>1, HeldAt, CallsAre DEF ReadAgain
<1>4. CASE c = "worker"
  <2>1. /\ Connecting(call[c]) /\ Worker # Idle /\ Worker = call[c] /\ Gui' = Gui /\ Worker' = call'[c]
        /\ ~Concurrent => Kept(file, owed) /\ Moving(call[c])
        /\ Concurrent => call[c].pc \in ReadPcs
    BY <1>0, <1>1, <1>3, <1>4, Shapes DEF Worker, Gui, Callers
  <2>2. Connecting(Worker)' /\ Worker'.pc \in ReadPcs
    BY <1>0, <1>1, <1>3, <2>1 DEF Connecting, ConnectPcs, ReadPcs
  <2>3. ~Concurrent => Moving(Worker)'
    BY <1>0, <1>1, <1>2, <1>3, <2>1 DEF Moving, Kept
  <2> QED  BY <1>2, <2>1, <2>2, <2>3, Same, WorkerMoves
<1>5. CASE c = "gui"
  <2>1. /\ Gui = call[c] /\ Gui # Idle /\ Gui' = call'[c] /\ Worker' = Worker /\ Gui' # Idle
        /\ Gui'.op = Gui.op /\ Gui'.new = Gui.new /\ owed <= made
        /\ Concurrent => plain = None /\ file.inline = None
        /\ (Saving(call[c]) \/ Importing(call[c])) /\ call[c].op \in Operations
        /\ Concurrent => call[c].op # "import"
    BY <1>0, <1>1, <1>3, <1>5, Shapes DEF Worker, Gui, Callers, KeepInv, Undisturbed
  <2> QED  BY <1>1, <2>1 DEF Saving, SavePcs, Importing, ImportPcs
<1> QED  BY <1>4, <1>5 DEF Callers

LEMMA VerifyKeeps ==
    ASSUME Undisturbed, KeepInv, CredentialTypeOK', NEW c \in Callers, Verify(c)
    PROVE  KeepInv'
<1>0. CredentialTypeOK /\ owed # None /\ {"verify", "loadLibsecret"} \subseteq Pcs
    BY PcsHold DEF KeepInv
<1>1. call[c] \in Calls /\ call[c].pc = "verify"
    BY <1>0, AtCall DEF Verify
<1>2. UNCHANGED <<item, plain, file, owed, made>>
    BY DEF Verify
<1>3. TRUE
      /\ call'[c] \in Calls /\ call'[c].pc = "loadLibsecret" /\ call'[c].op = call[c].op
      /\ call'[c].then = call[c].then /\ call'[c].pw = call[c].pw
      /\ call'[c].new = call[c].new /\ call'[c].text = call[c].text
      /\ call'[c].was = call[c].was /\ call'[c] # Idle
      /\ \A d \in Callers : d # c => call'[d] = call[d]
    BY <1>0, <1>1, Gone, CallsAre DEF Verify
<1>4. CASE c = "worker"
    BY <1>1, <1>4, Shapes DEF Connecting, ConnectPcs
<1>5. CASE c = "gui"
  <2>1. /\ Gui = call[c] /\ Gui # Idle /\ Gui' = call'[c] /\ Worker' = Worker /\ Gui' # Idle
        /\ Gui'.op = Gui.op /\ Gui'.new = Gui.new /\ owed <= made
        /\ Concurrent => plain = None /\ file.inline = None
        /\ (Saving(call[c]) \/ Importing(call[c])) /\ call[c].op \in Operations
        /\ Concurrent => call[c].op # "import"
    BY <1>0, <1>1, <1>3, <1>5, Shapes DEF Worker, Gui, Callers, KeepInv, Undisturbed
  <2>2. SUFFICES Saving(Gui)' \/ Importing(Gui)'
    BY <1>0, <1>2, <2>1, <2>2, GuiMoves
  <2>3. Saving(call[c]) /\ call[c].op = "save"
    BY <1>1, <2>1 DEF Saving, Importing, ImportPcs
  <2>4. CASE NotFiled(call[c])
    <3>1. NotFiled(Gui)'
        BY <1>0, <1>1, <1>2, <1>3, <2>1, <2>4, Same DEF NotFiled, Storing, Moving
    <3> QED  BY <1>0, <1>1, <1>2, <1>3, <2>1, <2>3, <3>1 DEF Saving, SavePcs
  <2>5. CASE Filed(call[c])
    <3>1. Filed(Gui)'
        BY <1>0, <1>1, <1>2, <1>3, <2>1, <2>5 DEF Filed, Lib, Tool
    <3> QED  BY <1>0, <1>1, <1>2, <1>3, <2>1, <2>3, <3>1 DEF Saving, SavePcs
  <2> QED  BY <1>1, <2>3, <2>4, <2>5 DEF Saving
<1> QED  BY <1>4, <1>5 DEF Callers

LEMMA CommitKeeps ==
    ASSUME Undisturbed, KeepInv, CredentialTypeOK', NEW c \in Callers, Commit(c)
    PROVE  KeepInv'
<1>0. CredentialTypeOK /\ owed # None /\ {"commit", "done"} \subseteq Pcs /\ owed <= made
    BY PcsHold DEF KeepInv
<1>1. call[c] \in Calls /\ call[c].pc = "commit"
    BY <1>0, AtCall DEF Commit
<1>2. UNCHANGED <<item, plain, made>>
    BY DEF Commit
<1>3. TRUE
      /\ call'[c] \in Calls /\ call'[c].pc = "done" /\ call'[c].op = call[c].op
      /\ call'[c].then = call[c].then /\ call'[c].pw = call[c].pw
      /\ call'[c].new = call[c].new /\ call'[c].text = call[c].text
      /\ call'[c].was = call[c].was /\ call'[c] # Idle
      /\ \A d \in Callers : d # c => call'[d] = call[d]
    BY <1>0, <1>1, Gone, CallsAre DEF Commit
<1>4. CASE c = "worker"
    BY <1>1, <1>4, Shapes DEF Connecting, ConnectPcs
<1>5. CASE c = "gui"
  <2>1. /\ Gui = call[c] /\ Gui # Idle /\ Gui' = call'[c] /\ Worker' = Worker /\ Gui' # Idle
        /\ Gui'.op = Gui.op /\ Gui'.new = Gui.new /\ owed <= made
        /\ Concurrent => plain = None /\ file.inline = None
        /\ (Saving(call[c]) \/ Importing(call[c])) /\ call[c].op \in Operations
        /\ Concurrent => call[c].op # "import"
    BY <1>0, <1>1, <1>3, <1>5, Shapes DEF Worker, Gui, Callers, KeepInv, Undisturbed
  <2>3. Saving(call[c]) /\ call[c].op = "save" /\ call[c].new # None /\ call[c].new # owed
        /\ (NotFiled(call[c]) \/ Filed(call[c])) /\ call[c].new <= made
    BY <1>0, <1>1, <2>1 DEF Saving, Importing, ImportPcs, KeepInv
  <2>4. CASE ReadBack(c)
    <3>1. Filed(call[c])
        BY <1>1, <2>3, <2>4 DEF NotFiled, ReadBack
    <3>2. file' = [version |-> call[c].new, inline |-> None] /\ owed' = call[c].new
        BY <2>4 DEF Commit
    <3>3. plain = None /\ call[c].new = IF Lib # None THEN Lib ELSE Tool
        BY <1>1, <2>4, <3>1 DEF Filed, ReadBack
    <3>4. Kept(file, owed)'
        BY <1>2, <2>3, <3>2, <3>3 DEF Kept, Lib, Tool
    <3>5. Saving(Gui)'
        BY <1>0, <1>1, <1>3, <2>1, <2>3, <3>4 DEF Saving, SavePcs
    <3> QED  BY <1>2, <2>1, <2>3, <3>2, <3>5, GuiMoves
  <2>5. CASE ~ReadBack(c)
    <3>1. UNCHANGED <<file, owed>>
        BY <2>5 DEF Commit
    <3>2. Kept(file, owed)
      <4>1. CASE Filed(call[c])
        BY <1>1, <2>3, <2>5, <4>1 DEF Filed, ReadBack, Kept
      <4> QED  BY <2>3, <4>1 DEF NotFiled
    <3>3. Saving(Gui)'
        BY <1>0, <1>1, <1>2, <1>3, <2>1, <2>3, <3>1, <3>2, Same DEF Saving, SavePcs
    <3> QED  BY <1>0, <1>2, <2>1, <3>1, <3>3, GuiMoves
  <2> QED  BY <2>4, <2>5
<1> QED  BY <1>4, <1>5 DEF Callers

LEMMA WriteImportKeeps ==
    ASSUME Undisturbed, KeepInv, CredentialTypeOK', NEW c \in Callers, WriteImport(c)
    PROVE  KeepInv'
<1>0. CredentialTypeOK /\ owed # None /\ {"write", "read"} \subseteq Pcs
    BY PcsHold DEF KeepInv
<1>1. call[c] \in Calls /\ call[c].pc = "write"
    BY <1>0, AtCall DEF WriteImport
<1>2. UNCHANGED <<item, plain, owed, made>> /\ file' = [version |-> call[c].new, inline |-> call[c].new]
    BY DEF WriteImport
<1>3. TRUE
      /\ call'[c] \in Calls /\ call'[c].pc = "read" /\ call'[c].op = call[c].op
      /\ call'[c].then = call[c].then /\ call'[c].pw = call[c].pw
      /\ call'[c].new = call[c].new /\ call'[c].text = call[c].text
      /\ call'[c].was = call[c].was /\ call'[c] # Idle
      /\ \A d \in Callers : d # c => call'[d] = call[d]
    BY <1>0, <1>1, Gone, CallsAre DEF WriteImport
<1>4. CASE c = "worker"
    BY <1>1, <1>4, Shapes DEF Connecting, ConnectPcs
<1>5. CASE c = "gui"
  <2>1. /\ Gui = call[c] /\ Gui # Idle /\ Gui' = call'[c] /\ Worker' = Worker /\ Gui' # Idle
        /\ Gui'.op = Gui.op /\ Gui'.new = Gui.new /\ owed <= made
        /\ Concurrent => plain = None /\ file.inline = None
        /\ (Saving(call[c]) \/ Importing(call[c])) /\ call[c].op \in Operations
        /\ Concurrent => call[c].op # "import"
    BY <1>0, <1>1, <1>3, <1>5, Shapes DEF Worker, Gui, Callers, KeepInv, Undisturbed
  <2>3. Importing(call[c]) /\ call[c].op = "import"
    BY <1>1, <2>1 DEF Saving, SavePcs, Importing
  <2>4. Kept(Gui.was, owed)'
    BY <1>1, <1>2, <1>3, <2>1, <2>3 DEF Importing, Kept, Lib, Tool
  <2>5. Importing(Gui)'
    BY <1>0, <1>1, <1>2, <1>3, <2>1, <2>3, <2>4 DEF Importing, ImportPcs
  <2> QED  BY <1>0, <1>2, <2>1, <2>3, <2>5, GuiMoves
<1> QED  BY <1>4, <1>5 DEF Callers

LEMMA PutBackKeeps ==
    ASSUME Undisturbed, KeepInv, CredentialTypeOK', NEW c \in Callers, PutBack(c)
    PROVE  KeepInv'
<1>0. CredentialTypeOK /\ owed # None /\ {"putBack", "done"} \subseteq Pcs
    BY PcsHold DEF KeepInv
<1>1. call[c] \in Calls /\ call[c].pc = "putBack"
    BY <1>0, AtCall DEF PutBack
<1>2. UNCHANGED <<item, plain, owed, made>> /\ file' = call[c].was
    BY DEF PutBack
<1>3. TRUE
      /\ call'[c] \in Calls /\ call'[c].pc = "done" /\ call'[c].op = call[c].op
      /\ call'[c].then = call[c].then /\ call'[c].pw = call[c].pw
      /\ call'[c].new = call[c].new /\ call'[c].text = call[c].text
      /\ call'[c].was = call[c].was /\ call'[c] # Idle
      /\ \A d \in Callers : d # c => call'[d] = call[d]
    BY <1>0, <1>1, Gone, CallsAre DEF PutBack
<1>4. CASE c = "worker"
    BY <1>1, <1>4, Shapes DEF Connecting, ConnectPcs
<1>5. CASE c = "gui"
  <2>1. /\ Gui = call[c] /\ Gui # Idle /\ Gui' = call'[c] /\ Worker' = Worker /\ Gui' # Idle
        /\ Gui'.op = Gui.op /\ Gui'.new = Gui.new /\ owed <= made
        /\ Concurrent => plain = None /\ file.inline = None
        /\ (Saving(call[c]) \/ Importing(call[c])) /\ call[c].op \in Operations
        /\ Concurrent => call[c].op # "import"
    BY <1>0, <1>1, <1>3, <1>5, Shapes DEF Worker, Gui, Callers, KeepInv, Undisturbed
  <2>3. Importing(call[c]) /\ call[c].op = "import"
    BY <1>1, <2>1 DEF Saving, SavePcs, Importing
  <2>4. Kept(file, owed)'
    BY <1>1, <1>2, <2>3 DEF Importing, Kept, Lib, Tool
  <2>5. Importing(Gui)'
    BY <1>0, <1>1, <1>2, <1>3, <2>1, <2>3, <2>4 DEF Importing, ImportPcs
  <2> QED  BY <1>0, <1>2, <2>1, <2>3, <2>5, GuiMoves
<1> QED  BY <1>4, <1>5 DEF Callers

LEMMA ReturnKeeps ==
    ASSUME KeepInv, CredentialTypeOK', NEW c \in Callers, Return(c)
    PROVE  KeepInv'
<1>0. CredentialTypeOK /\ owed # None /\ "done" \in Pcs /\ owed <= made
    BY PcsHold DEF KeepInv
<1>1. call[c] \in Calls /\ call[c].pc = "done"
    BY <1>0, AtCall DEF Return
<1>2. /\ UNCHANGED <<item, plain, file, owed, made>> /\ call'[c] = Idle
      /\ \A d \in Callers : d # c => call'[d] = call[d]
    BY <1>0 DEF Return, CredentialTypeOK
<1>3. CASE c = "worker"
  <2>1. Worker # Idle /\ Gui' = Gui /\ Worker' = Idle /\ (~Concurrent => Kept(file, owed))
    BY <1>0, <1>1, <1>2, <1>3, Shapes DEF Worker, Gui, Callers
  <2> QED  BY <1>2, <2>1, Same, WorkerMoves
<1>4. CASE c = "gui"
  <2>1. /\ Gui # Idle /\ Gui' = Idle /\ Worker' = Worker
        /\ Saving(call[c]) \/ Importing(call[c])
        /\ Concurrent => plain = None /\ file.inline = None
    BY <1>0, <1>1, <1>2, <1>4, Shapes DEF Worker, Gui, Callers
  <2>2. Kept(file, owed)
    BY <1>1, <2>1 DEF Saving, Importing
  <2> QED  BY <1>0, <1>2, <2>1, <2>2, Same, GuiMoves
<1> QED  BY <1>3, <1>4 DEF Callers

LEMMA BeginKeeps ==
    ASSUME CredentialAssumption, Undisturbed, KeepInv, CredentialTypeOK',
           BeginConnect \/ BeginSave \/ BeginImport
    PROVE  KeepInv'
<1>0. /\ CredentialTypeOK /\ owed # None /\ None \in Numbers /\ owed <= made /\ made \in Nat
      /\ owed \in Nat /\ {"read", "strip", "storeLibsecret", "verify", "write"} \subseteq Pcs
    BY PcsHold DEF KeepInv, CredentialTypeOK, CredentialAssumption, Numbers, None
<1>1. CASE BeginConnect
  <2>1. /\ UNCHANGED <<item, plain, file, owed, made>>
        /\ Worker = Idle /\ Gui' = Gui /\ Worker'.op = "connect" /\ Worker'.pc = "read"
        /\ Worker'.then = "strip" /\ (Concurrent \/ Gui = Idle)
    BY <1>0, <1>1, Begun DEF BeginConnect, Worker, Gui, Callers
  <2>2. Connecting(Worker)' /\ Moving(Worker)' /\ Worker'.pc \in ReadPcs
    BY <2>1 DEF Connecting, ConnectPcs, Moving, ReadPcs
  <2>3. CASE Gui = Idle
    BY <2>1, <2>2, <2>3, Same DEF KeepInv
  <2>4. CASE Gui # Idle
    <3>1. (Saving(Gui) <=> Saving(Gui)') /\ (Importing(Gui) <=> Importing(Gui)')
        BY <2>1 DEF Kept, Saving, Importing, NotFiled, Filed, Moving, Storing, Lib, Tool, InKeyring
    <3> QED  BY <2>1, <2>2, <2>4, <3>1 DEF KeepInv
  <2> QED  BY <2>3, <2>4
<1>2. CASE BeginSave
  <2>0. made + 1 \in Numbers /\ made + 1 # None /\ made' = made + 1 /\ made + 1 # owed
    BY <1>0, <1>2 DEF BeginSave, CredentialTypeOK, CredentialAssumption, Numbers, None
  <2>1. /\ UNCHANGED <<item, plain, file, owed>>
        /\ Gui = Idle /\ Worker' = Worker /\ Gui'.op = "save" /\ Gui'.pc = "storeLibsecret"
        /\ Gui'.then = "verify" /\ Gui'.pw = made + 1 /\ Gui'.new = made + 1 /\ Gui' # Idle
        /\ (Concurrent \/ Worker = Idle) /\ Gui'.op \in Operations
    BY <1>0, <1>2, <2>0, Begun, CallsAre DEF BeginSave, Worker, Gui, Callers
  <2>2. Kept(file, owed) /\ Kept(file, owed)'
    BY <2>1, Same DEF KeepInv
  <2>3. Saving(Gui)'
    BY <2>0, <2>1, <2>2 DEF Saving, SavePcs, NotFiled, Storing, Moving
  <2>4. Worker # Idle => Connecting(Worker)' /\ (~Concurrent => Moving(Worker)')
    BY <2>1 DEF KeepInv, Connecting, Moving
  <2>5. owed' <= made' /\ Gui'.new <= made'
    BY <1>0, <2>0, <2>1
  <2> QED  BY <1>0, <2>1, <2>3, <2>4, <2>5 DEF KeepInv
<1>3. CASE BeginImport
  <2>0. made + 1 \in Numbers /\ made + 1 # None /\ made' = made + 1
    BY <1>0, <1>3 DEF BeginImport, CredentialTypeOK, CredentialAssumption, Numbers, None
  <2>1. /\ UNCHANGED <<item, plain, file, owed>>
        /\ Gui = Idle /\ Worker' = Worker /\ Gui'.op = "import" /\ Gui'.pc = "write"
        /\ Gui'.then = "strip" /\ Gui'.new = made + 1 /\ Gui' # Idle /\ Gui'.was = file
        /\ (Concurrent \/ Worker = Idle) /\ Gui'.op \in Operations
    BY <1>0, <1>3, <2>0, Begun, CallsAre DEF BeginImport, Worker, Gui, Callers
  <2>2. Kept(file, owed) /\ Kept(file, owed)'
    BY <2>1, Same DEF KeepInv
  <2>3. Importing(Gui)'
    BY <2>0, <2>1, <2>2 DEF Importing, ImportPcs
  <2>4. Worker # Idle => Connecting(Worker)' /\ (~Concurrent => Moving(Worker)')
    BY <2>1 DEF KeepInv, Connecting, Moving
  <2>5. owed' <= made' /\ Gui'.new <= made'
    BY <1>0, <2>0, <2>1
  <2> QED  BY <1>0, <2>1, <2>3, <2>4, <2>5 DEF KeepInv
<1> QED  BY <1>1, <1>2, <1>3

LEMMA CrashKeeps ==
    ASSUME Undisturbed, KeepInv, CredentialTypeOK', Crash
    PROVE  KeepInv'
<1>1. UNCHANGED <<item, plain, file, owed, made>> /\ Worker' = Idle /\ Gui' = Idle
    BY DEF Crash, Worker, Gui, Callers
<1>2. Gui = Idle
    BY DEF Crash, KeepInv, Undisturbed, Saving, Importing
<1>3. Kept(file, owed)'
    BY <1>1, <1>2, Same DEF KeepInv
<1> QED  BY <1>1, <1>3 DEF KeepInv

(***************************************************************************)
(* The invariant, and what follows from it.                                *)
(***************************************************************************)
LEMMA KeepInvInit ==
    ASSUME CredentialAssumption, Undisturbed, CredentialInit
    PROVE  KeepInv
<1>1. MaxMade \in Nat /\ 1 \in Numbers /\ None \in Numbers /\ 1 # None /\ MaxFaults \in Nat
    BY DEF CredentialAssumption, Numbers, None
<1>2. Worker = Idle /\ Gui = Idle /\ owed = 1 /\ made = 1
    BY DEF CredentialInit, Worker, Gui, Callers
<1>3. item \in [{"libsecret", "tool"} -> {None, 1}] /\ plain \in {None, 1}
      /\ file = [version |-> 1, inline |-> file.inline] /\ file.inline \in {None, 1}
      /\ \A k \in DOMAIN item : item[k] # None => k \in Clients
    BY DEF CredentialInit
<1>4. CredentialTypeOK
    BY <1>1, <1>3 DEF CredentialInit, CredentialTypeOK, Configs, CredentialAssumption
<1>5. Kept(file, owed)
  <2>1. file.inline = None => Lib # None \/ Tool # None \/ plain # None
    BY <1>1 DEF CredentialInit, Lib, Tool, CredentialAssumption
  <2> QED  BY <1>2, <1>3, <2>1 DEF Kept, Lib, Tool
<1>6. Concurrent => plain = None /\ file.inline = None
    BY DEF CredentialInit, Undisturbed
<1> QED  BY <1>1, <1>2, <1>4, <1>5, <1>6 DEF KeepInv

LEMMA KeepInvStep ==
    ASSUME CredentialAssumption, Undisturbed, KeepInv, [CredentialNext]_credential_vars
    PROVE  KeepInv'
<1>1. CASE UNCHANGED credential_vars
    BY <1>1 DEF credential_vars, KeepInv, CredentialTypeOK, Kept, Worker, Gui, Connecting, Moving,
       Saving, Importing, NotFiled, Filed, Storing, Lib, Tool, InKeyring
<1>2. CASE CredentialNext
  <2>1. CredentialTypeOK'
    BY <1>2, CredentialTypeStep DEF KeepInv
  <2>2. CASE BeginConnect \/ BeginSave \/ BeginImport
    BY <2>1, <2>2, BeginKeeps
  <2>3. CASE Crash
    BY <2>1, <2>3, CrashKeeps
  <2>4. ASSUME NEW c \in Callers,
               StoreLibsecret(c) \/ StoreTool(c)
        PROVE  KeepInv'
    <3>1. {"storeTool", "storeLibsecret"} \subseteq Pcs
        BY PcsHold
    <3>2. CASE StoreLibsecret(c)
        BY <2>1, <3>1, <3>2, StoreKeeps DEF StoreLibsecret
    <3>3. CASE StoreTool(c)
      <4>1. Refused(c) \in Pcs
        BY <3>1, <3>3, AtCall, PcsHold DEF StoreTool, StoreBy, KeepInv
      <4> QED  BY <2>1, <3>3, <4>1, StoreKeeps DEF StoreTool
    <3> QED  BY <2>4, <3>2, <3>3
  <2>5. ASSUME NEW c \in Callers,
               \/ RemovePlain(c) \/ LoadLibsecret(c) \/ LoadTool(c) \/ LoadPlain(c) \/ Probe(c)
               \/ ReadConfig(c) \/ Strip(c) \/ ReadAgain(c)
               \/ Verify(c) \/ Commit(c) \/ WriteImport(c) \/ PutBack(c) \/ Return(c)
        PROVE  KeepInv'
    BY <2>1, <2>5, RemoveKeeps, LoadKeeps, LoadPlainKeeps, ProbeKeeps, ReadConfigKeeps, StripKeeps,
       ReadAgainKeeps, VerifyKeeps, CommitKeeps, WriteImportKeeps, PutBackKeeps, ReturnKeeps
  <2> QED  BY <1>2, <2>2, <2>3, <2>4, <2>5 DEF CredentialNext
<1> QED  BY <1>1, <1>2

LEMMA KeptIsRead ==
    ASSUME CredentialAssumption, KeepInv
    PROVE  ReadsWhatWasSaved
<1>1. SUFFICES ASSUME \A c \in Callers : call[c] = Idle
               PROVE  WouldRead = owed /\ file.version = owed
    BY DEF ReadsWhatWasSaved
<1>2. Kept(file, owed) /\ CredentialTypeOK /\ owed # None
    BY <1>1 DEF KeepInv, Gui, Callers
<1> QED  BY <1>2 DEF Kept, WouldRead, Lib, Tool, CredentialTypeOK

\* ThePasswordSavedIsRead.  Between operations, whichever calls of them failed, the
\* configuration is the one saved last and the password read for it is the one saved with
\* it (storePassword, loadPassword, saveConfigWithPassword, migrateConfigPassword).
THEOREM ThePasswordSavedIsRead ==
    ASSUME Undisturbed
    PROVE  CredentialSpec => [](CredentialTypeOK /\ ReadsWhatWasSaved)
<1>1. CredentialInit => KeepInv
    BY CredentialConstants, KeepInvInit
<1>2. KeepInv /\ [CredentialNext]_credential_vars => KeepInv'
    BY CredentialConstants, KeepInvStep
<1>3. KeepInv => CredentialTypeOK /\ ReadsWhatWasSaved
    BY CredentialConstants, KeptIsRead DEF KeepInv
<1> QED  BY <1>1, <1>2, <1>3, PTL DEF CredentialSpec

\* AConnectHasTheLatest.  Where one keyring client is in use and no save runs beside it, a
\* connect builds its configuration with the password saved last or with none, whichever
\* lookups failed (buildConnectConfigToml).
THEOREM AConnectHasTheLatest ==
    ASSUME Undisturbed, OneClient, ~Concurrent
    PROVE  CredentialSpec => []ConnectsWithTheLatest
<1>1. CredentialInit => KeepInv
    BY CredentialConstants, KeepInvInit
<1>2. KeepInv /\ [CredentialNext]_credential_vars => KeepInv'
    BY CredentialConstants, KeepInvStep
<1>3. KeepInv => ConnectsWithTheLatest
    BY CallsAre DEF KeepInv, Moving, ConnectsWithTheLatest, Worker
<1> QED  BY <1>1, <1>2, <1>3, PTL DEF CredentialSpec
=============================================================================
