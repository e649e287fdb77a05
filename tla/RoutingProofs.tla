---------------------------- MODULE RoutingProofs ----------------------------
(***************************************************************************)
(* Theorems about how connections are routed. SplitRouting: for any        *)
(* programs, addresses and settings, any number of edits and any number of *)
(* connections that wait in the core. UplinkFollower: for any adapters,    *)
(* any number of changes of the network, and any number of looks that stay *)
(* quiet.                                                                  *)
(***************************************************************************)
EXTENDS SplitRouting, UplinkFollower, FiniteSetTheorems, TLAPS

(***************************************************************************)
(* Split routing: the inductive invariant.                                 *)
(***************************************************************************)
Snaps   == [selective : BOOLEAN, rules : SUBSET Programs]
Conns   == [program : Programs, address : Addresses, by : Snaps,
            seen : Seq(Settings \cup {None})]
Actions == {"tunnel", "bypass", "default"}
Changes == [kind : {"update"}, routing : Routings]
Passing == [kind : {"conn"}, conn : Conns, action : Actions]
Entries == Changes \cup Passing

IsUpdate(i) == queue[i].kind = "update"

Types ==
    /\ user \in Settings /\ work = Routing(user) /\ snap \in Snaps
    /\ session \in {"none", "starting", "up"}
    /\ built \in Routings \cup {None} /\ given \in Routings \cup {None}
    /\ core \in Routings \cup {None}
    /\ edit \in {<<>>, <<"core", "rules">>, <<"rules">>}
    /\ queue \in Seq(Entries)
    /\ asked = None \/ asked \in Conns
    /\ inForce \in Seq(Settings) /\ builtBy \in Settings \cup {None}

\* The core takes one update; it is there while a session is, and carries what the
\* session was given last.
UpdatesRight ==
    /\ \A i, j \in DOMAIN queue : IsUpdate(i) /\ IsUpdate(j) => i = j
    /\ \A i \in DOMAIN queue : IsUpdate(i) => session = "up" /\ queue[i].routing = given

\* What the core applies, or has been handed, is what the session was given, and that is
\* the working set but for the first step of an edit.
CoreFollows ==
    /\ session = "none" => core = None
    /\ session = "starting" => built \in Routings /\ core \in {None, built}
    /\ session = "up" => core # None /\ given # None
    /\ session = "up" /\ (\A i \in DOMAIN queue : ~IsUpdate(i)) => core = given
    /\ session = "up" /\ edit # <<"core", "rules">> => given = work
    /\ core = None => queue = <<>> /\ asked = None

RulesFollow == edit = <<>> => snap = Rules(user)

RoutingInv == Types /\ UpdatesRight /\ CoreFollows /\ RulesFollow

(***************************************************************************)
(* What the core's queue holds.                                            *)
(***************************************************************************)
LEMMA EntryKinds ==
    ASSUME NEW x \in Entries
    PROVE  \/ x.kind = "update" /\ x \in Changes /\ x.routing \in Routings
           \/ x.kind = "conn" /\ x \in Passing /\ x.conn \in Conns /\ x.action \in Actions
BY DEF Entries, Changes, Passing

LEMMA SeeingOne ==
    ASSUME NEW c \in Conns, NEW s \in Settings
    PROVE  /\ Seeing(c, s) \in Conns
           /\ Seeing(c, s).program = c.program /\ Seeing(c, s).address = c.address
           /\ Seeing(c, s).by = c.by /\ Seeing(c, s).seen = Append(c.seen, s)
<1>1. c.seen \in Seq(Settings \cup {None}) /\ s \in Settings \cup {None}
    BY DEF Conns
<1>2. Append(c.seen, s) \in Seq(Settings \cup {None})
    BY <1>1
<1> QED  BY <1>2 DEF Seeing, Conns

LEMMA NotedOne ==
    ASSUME NEW x \in Passing, NEW s \in Settings
    PROVE  LET y == [x EXCEPT !.conn = Seeing(@, s)]
           IN  y \in Passing /\ y.action = x.action /\ y.conn = Seeing(x.conn, s)
<1>1. x.conn \in Conns
    BY DEF Passing
<1>2. Seeing(x.conn, s) \in Conns
    BY <1>1, SeeingOne
<1> QED  BY <1>2 DEF Passing

\* Noting the settings changes nothing else about what waits.
LEMMA NotedAll ==
    ASSUME NEW q \in Seq(Entries), NEW s \in Settings
    PROVE  /\ Noted(q, s) \in Seq(Entries) /\ Len(Noted(q, s)) = Len(q)
           /\ DOMAIN Noted(q, s) = DOMAIN q
           /\ \A i \in DOMAIN q :
                 /\ Noted(q, s)[i].kind = q[i].kind
                 /\ q[i].kind = "update" => Noted(q, s)[i] = q[i]
                 /\ q[i].kind = "conn" => /\ Noted(q, s)[i].action = q[i].action
                                          /\ Noted(q, s)[i].conn = Seeing(q[i].conn, s)
<1> DEFINE n == Noted(q, s)
<1>1. /\ DOMAIN n = DOMAIN q
      /\ \A i \in DOMAIN q : n[i] = IF q[i].kind = "update" THEN q[i]
                                    ELSE [q[i] EXCEPT !.conn = Seeing(@, s)]
      /\ n = [i \in DOMAIN q |-> n[i]]
    BY DEF Noted
<1>2. DOMAIN q = 1..Len(q) /\ Len(q) \in Nat /\ \A i \in DOMAIN q : q[i] \in Entries
    OBVIOUS
<1> HIDE DEF n
<1>3. ASSUME NEW i \in DOMAIN q
      PROVE  /\ n[i] \in Entries /\ n[i].kind = q[i].kind
             /\ q[i].kind = "update" => n[i] = q[i]
             /\ q[i].kind = "conn" => n[i].action = q[i].action
                                      /\ n[i].conn = Seeing(q[i].conn, s)
    <2>1. q[i] \in Entries
        BY <1>2
    <2>2. CASE q[i].kind = "update"
        BY <1>1, <2>1, <2>2
    <2>3. CASE q[i].kind # "update"
        <3>1. q[i].kind = "conn" /\ q[i] \in Passing
            BY <2>1, <2>3, EntryKinds
        <3>2. n[i] = [q[i] EXCEPT !.conn = Seeing(@, s)]
            BY <1>1, <2>3
        <3>3. n[i] \in Passing /\ n[i].action = q[i].action
              /\ n[i].conn = Seeing(q[i].conn, s)
            BY <3>1, <3>2, NotedOne
        <3>4. n[i].kind = "conn" /\ n[i] \in Entries
            BY <3>3 DEF Passing, Entries
        <3> QED  BY <3>1, <3>3, <3>4
    <2> QED  BY <2>2, <2>3
<1>4. n \in [1..Len(q) -> Entries]
    BY <1>1, <1>2, <1>3
<1>5. n \in Seq(Entries) /\ Len(n) = Len(q)
    BY <1>2, <1>4
<1> QED  BY <1>1, <1>3, <1>5 DEF n

OneUpdate(q) ==
    \A i, j \in DOMAIN q : q[i].kind = "update" /\ q[j].kind = "update" => i = j

LEMMA AppendIs ==
    ASSUME NEW q \in Seq(Entries), NEW e \in Entries
    PROVE  /\ Append(q, e) \in Seq(Entries) /\ Len(Append(q, e)) = Len(q) + 1
           /\ Len(q) \in Nat /\ DOMAIN q = 1..Len(q) /\ DOMAIN Append(q, e) = 1..(Len(q) + 1)
           /\ Append(q, e)[Len(q) + 1] = e
           /\ \A i \in 1..Len(q) : Append(q, e)[i] = q[i]
OBVIOUS

\* The update handed over is the only one, and the last in the queue.
LEMMA HandedIs ==
    ASSUME NEW q \in Seq(Entries), NEW r \in Routings, OneUpdate(q)
    PROVE  /\ Handed(q, r) \in Seq(Entries)
           /\ \E n \in Nat : /\ DOMAIN Handed(q, r) = 1..(n + 1)
                             /\ Handed(q, r)[n + 1] = Update(r)
                             /\ \A i \in 1..n : Handed(q, r)[i].kind # "update"
           /\ (\A i \in DOMAIN q : q[i].kind # "update") =>
                 Handed(q, r) = Append(q, Update(r))
<1> DEFINE pending == {i \in DOMAIN q : q[i].kind = "update"}
           k == CHOOSE i \in pending : TRUE
           left == IF pending = {} THEN q ELSE RemoveAt(q, k)
<1>1. Handed(q, r) = Append(left, Update(r))
    BY DEF Handed
<1>2. Update(r) \in Entries /\ Update(r).kind = "update"
    BY DEF Update, Entries, Changes
<1>3. left \in Seq(Entries) /\ \A i \in DOMAIN left : left[i].kind # "update"
    <2>1. CASE pending = {}
        BY <2>1
    <2>2. CASE pending # {}
        <3>1. k \in pending
            BY <2>2
        <3>2. k \in 1..Len(q) /\ q[k].kind = "update" /\ Len(q) \in Nat
            BY <3>1
        <3>3. \A i \in 1..Len(q) : i # k => q[i].kind # "update"
            BY <3>2 DEF OneUpdate
        <3> HIDE DEF k
        <3> DEFINE a == SubSeq(q, 1, k - 1)
                   b == SubSeq(q, k + 1, Len(q))
        <3>4. /\ a \in Seq(Entries) /\ Len(a) = k - 1
              /\ \A i \in 1..(k - 1) : a[i] = q[i]
            BY <3>2
        <3>5. /\ b \in Seq(Entries) /\ Len(b) = Len(q) - k
              /\ \A i \in 1..(Len(q) - k) : b[i] = q[i + k]
            BY <3>2
        <3>6. left = a \o b
            BY <2>2 DEF RemoveAt
        <3> HIDE DEF a, b, left
        <3>7. /\ left \in Seq(Entries) /\ DOMAIN left = 1..(Len(q) - 1)
              /\ \A i \in 1..(Len(q) - 1) :
                    left[i] = IF i <= k - 1 THEN a[i] ELSE b[i - (k - 1)]
            BY <3>2, <3>4, <3>5, <3>6
        <3>8. ASSUME NEW i \in 1..(Len(q) - 1)
              PROVE  left[i].kind # "update"
            <4>1. CASE i <= k - 1
                BY <3>2, <3>3, <3>4, <3>7, <4>1
            <4>2. CASE ~(i <= k - 1)
                <5>1. i - (k - 1) \in 1..(Len(q) - k) /\ i + 1 \in 1..Len(q) /\ i + 1 # k
                      /\ (i - (k - 1)) + k = i + 1
                    BY <3>2, <4>2
                <5>2. left[i] = q[i + 1]
                    BY <3>5, <3>7, <4>2, <5>1
                <5> QED  BY <3>3, <5>1, <5>2
            <4> QED  BY <4>1, <4>2
        <3> QED  BY <3>7, <3>8
    <2> QED  BY <2>1, <2>2
<1>4. (\A i \in DOMAIN q : q[i].kind # "update") => left = q
    OBVIOUS
<1> HIDE DEF left
<1>5. /\ Handed(q, r) \in Seq(Entries) /\ Len(left) \in Nat
      /\ DOMAIN Handed(q, r) = 1..(Len(left) + 1)
      /\ Handed(q, r)[Len(left) + 1] = Update(r)
      /\ \A i \in 1..Len(left) : Handed(q, r)[i] = left[i] /\ i \in DOMAIN left
    BY <1>1, <1>2, <1>3, AppendIs
<1> QED  BY <1>1, <1>3, <1>4, <1>5

LEMMA TailIs ==
    ASSUME NEW q \in Seq(Entries), q # <<>>
    PROVE  /\ Head(q) = q[1] /\ 1 \in DOMAIN q /\ q[1] \in Entries
           /\ Tail(q) \in Seq(Entries) /\ Len(q) \in Nat /\ DOMAIN q = 1..Len(q)
           /\ DOMAIN Tail(q) = 1..(Len(q) - 1)
           /\ \A i \in 1..(Len(q) - 1) : Tail(q)[i] = q[i + 1] /\ i + 1 \in DOMAIN q
OBVIOUS

(***************************************************************************)
(* Every action keeps the invariant.  First the owner's thread.            *)
(***************************************************************************)
LEMMA EditKeeps ==
    ASSUME RoutingInv, NEW s \in Settings, Edit(s)
    PROVE  RoutingInv'
<1>1. /\ edit = <<>> /\ user' = s /\ work' = Routing(s) /\ edit' = <<"core", "rules">>
      /\ inForce' = <<user, s>> /\ queue' = Noted(queue, s)
      /\ asked' = IF asked = None THEN None ELSE Seeing(asked, s)
      /\ UNCHANGED <<snap, session, built, given, core, builtBy>>
    BY DEF Edit, Steps, session_vars
<1>2. /\ queue \in Seq(Entries) /\ user \in Settings
      /\ queue' \in Seq(Entries) /\ DOMAIN queue' = DOMAIN queue
      /\ \A i \in DOMAIN queue :
            /\ queue'[i].kind = queue[i].kind
            /\ queue[i].kind = "update" => queue'[i] = queue[i]
    BY <1>1, NotedAll DEF RoutingInv, Types
<1>3. asked' = None \/ asked' \in Conns
    BY <1>1, SeeingOne DEF RoutingInv, Types
<1>4. inForce' \in Seq(Settings)
    BY <1>1, <1>2
<1>5. Types'
    BY <1>1, <1>2, <1>3, <1>4 DEF RoutingInv, Types
<1>6. UpdatesRight'
    <2>1. \A i \in DOMAIN queue' : IsUpdate(i)' => i \in DOMAIN queue /\ IsUpdate(i)
                                                  /\ queue'[i] = queue[i]
        BY <1>2 DEF IsUpdate
    <2> QED  BY <1>1, <2>1 DEF RoutingInv, UpdatesRight
<1>7. queue = <<>> => queue' = <<>>
    BY <1>2
<1>8. asked = None => asked' = None
    BY <1>1
<1>9. edit' = <<"core", "rules">>
    BY <1>1
<1>10. (\A i \in DOMAIN queue' : ~IsUpdate(i)') => (\A i \in DOMAIN queue : ~IsUpdate(i))
    BY <1>2 DEF IsUpdate
<1>11. CoreFollows'
    BY <1>1, <1>7, <1>8, <1>9, <1>10 DEF RoutingInv, CoreFollows
<1>12. RulesFollow'
    BY <1>9 DEF RulesFollow
<1> QED  BY <1>5, <1>6, <1>11, <1>12 DEF RoutingInv

\* What handing a routing to a session does to the queue.
LEMMA ApplyRoutingKeeps ==
    ASSUME RoutingInv, NEW had \in Routings, ApplyRouting(work, had),
           session' = "up", core # None, core' = core,
           (\A i \in DOMAIN queue : ~IsUpdate(i)) => core = had,
           \A i \in DOMAIN queue : IsUpdate(i) => queue[i].routing = had
    PROVE  /\ given' = work /\ given' \in Routings /\ queue' \in Seq(Entries)
           /\ UpdatesRight'
           /\ (\A i \in DOMAIN queue' : ~IsUpdate(i)') => core' = given'
<1>1. work \in Routings /\ queue \in Seq(Entries) /\ given' = work
      /\ queue' = IF work = had THEN queue ELSE Handed(queue, work)
    BY DEF RoutingInv, Types, Routing, Routings, Settings, ApplyRouting
<1>2. CASE work = had
    BY <1>1, <1>2 DEF RoutingInv, UpdatesRight, IsUpdate
<1>3. CASE work # had
    <2>1. queue' = Handed(queue, work) /\ OneUpdate(queue)
        BY <1>1, <1>3 DEF RoutingInv, UpdatesRight, IsUpdate, OneUpdate
    <2>2. queue' \in Seq(Entries)
        BY <1>1, <2>1, HandedIs
    <2>3. PICK n \in Nat : /\ DOMAIN queue' = 1..(n + 1)
                           /\ queue'[n + 1] = Update(work)
                           /\ \A i \in 1..n : queue'[i].kind # "update"
        BY <1>1, <2>1, HandedIs
    <2>4. Update(work).kind = "update" /\ Update(work).routing = work /\ n + 1 \in DOMAIN queue'
        BY <2>3 DEF Update
    <2>5. \A i \in DOMAIN queue' : IsUpdate(i)' => i = n + 1
        BY <2>3 DEF IsUpdate
    <2>6. IsUpdate(n + 1)' /\ queue'[n + 1].routing = given'
        BY <1>1, <2>3, <2>4 DEF IsUpdate
    <2>7. UpdatesRight'
        BY <2>5, <2>6 DEF UpdatesRight
    <2> QED  BY <1>1, <2>2, <2>4, <2>6, <2>7
<1> QED  BY <1>2, <1>3

LEMMA EditCoreKeeps ==
    ASSUME RoutingAssumption, RoutingInv, EditCore
    PROVE  RoutingInv'
<1>1. /\ edit # <<>> /\ Head(edit) = "core" /\ edit' = Tail(edit)
      /\ inForce' = IF Tail(edit) = <<>> THEN <<user>> ELSE inForce
      /\ IF session = "up" THEN ApplyRouting(work, given) ELSE UNCHANGED <<given, queue>>
      /\ UNCHANGED <<user, work, snap, session, built, core, asked, builtBy>>
    BY DEF EditCore
<1>2. edit = <<"core", "rules">> /\ edit' = <<"rules">>
    <2>1. edit \in {<<>>, <<"core", "rules">>, <<"rules">>}
        BY DEF RoutingInv, Types
    <2>2. Head(<<"rules">>) = "rules" /\ Tail(<<"core", "rules">>) = <<"rules">>
        OBVIOUS
    <2> QED  BY <1>1, <2>1, <2>2
<1>3. inForce' \in Seq(Settings)
    BY <1>1 DEF RoutingInv, Types
<1>4. CASE session = "up"
    <2>1. /\ given \in Routings /\ core # None
          /\ (\A i \in DOMAIN queue : ~IsUpdate(i)) => core = given
          /\ \A i \in DOMAIN queue : IsUpdate(i) => queue[i].routing = given
        BY <1>4 DEF RoutingInv, Types, CoreFollows, UpdatesRight
    <2>2. ApplyRouting(work, given) /\ session' = "up" /\ core' = core
        BY <1>1, <1>4
    <2>3. /\ given' = work /\ given' \in Routings /\ queue' \in Seq(Entries) /\ UpdatesRight'
          /\ (\A i \in DOMAIN queue' : ~IsUpdate(i)') => core' = given'
        BY <2>1, <2>2, ApplyRoutingKeeps
    <2>4. Types'
        BY <1>1, <1>2, <1>3, <2>3 DEF RoutingInv, Types
    <2>5. core' # None /\ given' # None
        <3>1. given' # None
            BY <2>3 DEF RoutingAssumption
        <3> QED  BY <2>1, <2>2, <3>1
    <2>6. CoreFollows'
        BY <1>1, <2>2, <2>3, <2>5 DEF CoreFollows
    <2>7. RulesFollow'
        BY <1>2 DEF RulesFollow
    <2> QED  BY <2>3, <2>4, <2>6, <2>7 DEF RoutingInv
<1>5. CASE session # "up"
    <2>1. UNCHANGED <<given, queue, core, session, user, work, snap, built, asked, builtBy>>
        BY <1>1, <1>5
    <2>2. Types'
        BY <1>2, <1>3, <2>1 DEF RoutingInv, Types
    <2>3. UpdatesRight' /\ CoreFollows'
        BY <1>5, <2>1 DEF RoutingInv, UpdatesRight, CoreFollows, IsUpdate
    <2>4. RulesFollow'
        BY <1>2 DEF RulesFollow
    <2> QED  BY <2>2, <2>3, <2>4 DEF RoutingInv
<1> QED  BY <1>4, <1>5

LEMMA EditRulesKeeps ==
    ASSUME RoutingInv, EditRules
    PROVE  RoutingInv'
<1>1. /\ edit # <<>> /\ Head(edit) = "rules" /\ edit' = Tail(edit) /\ snap' = Rules(user)
      /\ inForce' = IF Tail(edit) = <<>> THEN <<user>> ELSE inForce
      /\ UNCHANGED <<user, work, session, built, given, core, queue, asked, builtBy>>
    BY DEF EditRules, session_vars
<1>2. edit = <<"rules">> /\ edit' = <<>>
    <2>1. edit \in {<<>>, <<"core", "rules">>, <<"rules">>}
        BY DEF RoutingInv, Types
    <2>2. Head(<<"core", "rules">>) = "core" /\ Tail(<<"rules">>) = <<>>
        OBVIOUS
    <2> QED  BY <1>1, <2>1, <2>2
<1>3. inForce' \in Seq(Settings) /\ snap' \in Snaps
    BY <1>1 DEF RoutingInv, Types, Rules, Snaps, Settings
<1>4. Types'
    BY <1>1, <1>2, <1>3 DEF RoutingInv, Types
<1>5. UpdatesRight' /\ CoreFollows'
    BY <1>1, <1>2 DEF RoutingInv, UpdatesRight, CoreFollows, IsUpdate
<1>6. RulesFollow'
    BY <1>1 DEF RulesFollow
<1> QED  BY <1>4, <1>5, <1>6 DEF RoutingInv

LEMMA AttemptKeeps ==
    ASSUME RoutingInv, Attempt
    PROVE  RoutingInv'
<1>1. /\ session = "none" /\ session' = "starting" /\ built' = work /\ builtBy' = user
      /\ UNCHANGED <<user, work, snap, given, core, queue, edit, asked, inForce>>
    BY DEF Attempt
<1>2. work \in Routings
    BY DEF RoutingInv, Types, Routing, Routings, Settings
<1>3. Types'
    BY <1>1, <1>2 DEF RoutingInv, Types
<1>4. UpdatesRight' /\ CoreFollows' /\ RulesFollow'
    BY <1>1, <1>2 DEF RoutingInv, UpdatesRight, CoreFollows, RulesFollow, IsUpdate
<1> QED  BY <1>3, <1>4 DEF RoutingInv

LEMMA CoreUpKeeps ==
    ASSUME RoutingAssumption, RoutingInv, CoreUp
    PROVE  RoutingInv'
<1>1. /\ session = "starting" /\ core = None /\ core' = built
      /\ UNCHANGED <<user, work, snap, session, built, given, queue, edit, asked,
                     inForce, builtBy>>
    BY DEF CoreUp, ghosts
<1>2. built \in Routings /\ built # None
    BY <1>1 DEF RoutingInv, CoreFollows, RoutingAssumption
<1>3. Types'
    BY <1>1, <1>2 DEF RoutingInv, Types
<1>4. UpdatesRight' /\ CoreFollows' /\ RulesFollow'
    BY <1>1, <1>2 DEF RoutingInv, UpdatesRight, CoreFollows, RulesFollow, IsUpdate
<1> QED  BY <1>3, <1>4 DEF RoutingInv

LEMMA AdoptKeeps ==
    ASSUME RoutingAssumption, RoutingInv, Adopt
    PROVE  RoutingInv'
<1>1. /\ session = "starting" /\ core # None /\ edit = <<>> /\ session' = "up"
      /\ ApplyRouting(work, built)
      /\ UNCHANGED <<user, work, snap, built, core, edit, asked, inForce, builtBy>>
    BY DEF Adopt, ghosts
<1>2. built \in Routings /\ core = built /\ \A i \in DOMAIN queue : ~IsUpdate(i)
    BY <1>1 DEF RoutingInv, CoreFollows, UpdatesRight
<1>3. /\ given' = work /\ given' \in Routings /\ queue' \in Seq(Entries) /\ UpdatesRight'
      /\ (\A i \in DOMAIN queue' : ~IsUpdate(i)') => core' = given'
    BY <1>1, <1>2, ApplyRoutingKeeps
<1>4. Types'
    BY <1>1, <1>3 DEF RoutingInv, Types
<1>5. given' # None /\ core' # None
    BY <1>1, <1>3 DEF RoutingAssumption
<1>6. CoreFollows' /\ RulesFollow'
    BY <1>1, <1>3, <1>5 DEF RoutingInv, CoreFollows, RulesFollow
<1> QED  BY <1>3, <1>4, <1>6 DEF RoutingInv

LEMMA SessionEndsKeeps ==
    ASSUME RoutingInv, SessionEnds
    PROVE  RoutingInv'
<1>1. /\ edit = <<>> /\ session' = "none" /\ core' = None /\ given' = None /\ built' = None
      /\ builtBy' = None /\ queue' = <<>> /\ asked' = None
      /\ UNCHANGED <<user, work, snap, edit, inForce>>
    BY DEF SessionEnds
<1>2. queue' \in Seq(Entries) /\ DOMAIN queue' = {}
    BY <1>1
<1>3. Types'
    BY <1>1, <1>2 DEF RoutingInv, Types
<1>4. UpdatesRight'
    BY <1>2 DEF UpdatesRight
<1>5. CoreFollows' /\ RulesFollow'
    BY <1>1 DEF RoutingInv, CoreFollows, RulesFollow
<1> QED  BY <1>3, <1>4, <1>5 DEF RoutingInv

(***************************************************************************)
(* The wrapper's thread and the core's.                                    *)
(***************************************************************************)
LEMMA ArrivesKeeps ==
    ASSUME RoutingInv, NEW p \in Programs, NEW a \in Addresses, Arrives(p, a)
    PROVE  RoutingInv'
<1>1. /\ core # None
      /\ asked' = [program |-> p, address |-> a, by |-> snap,
                   seen |-> (IF session = "up" THEN <<>> ELSE <<builtBy>>) \o inForce]
      /\ UNCHANGED <<user, work, snap, session, built, given, core, queue, edit,
                     inForce, builtBy>>
    BY DEF Arrives, session_vars, ghosts
<1>2. asked' \in Conns
    <2>1. snap \in Snaps /\ inForce \in Seq(Settings) /\ builtBy \in Settings \cup {None}
        BY DEF RoutingInv, Types
    <2> DEFINE T == Settings \cup {None}
               first == IF session = "up" THEN <<>> ELSE <<builtBy>>
    <2>2. inForce \in Seq(T)
        <3>1. \A i \in 1..Len(inForce) : inForce[i] \in T
            BY <2>1
        <3> HIDE DEF T
        <3> QED  BY <2>1, <3>1
    <2>3. <<>> \in Seq(T) /\ <<builtBy>> \in Seq(T)
        BY <2>1
    <2> HIDE DEF T, first
    <2>4. first \o inForce \in Seq(T)
        <3>1. first \in Seq(T)
            BY <2>3 DEF first
        <3> QED  BY <2>2, <3>1
    <2> QED  BY <1>1, <2>1, <2>4 DEF T, first, Conns
<1>3. Types'
    BY <1>1, <1>2 DEF RoutingInv, Types
<1>4. UpdatesRight' /\ CoreFollows' /\ RulesFollow'
    BY <1>1 DEF RoutingInv, UpdatesRight, CoreFollows, RulesFollow, IsUpdate
<1> QED  BY <1>3, <1>4 DEF RoutingInv

\* The connection decided joins the end of the queue.
LEMMA DecideIs ==
    ASSUME RoutingInv, NEW skipped \in BOOLEAN, Decide(skipped)
    PROVE  \E e \in Passing :
              /\ e.conn = asked /\ asked \in Conns /\ e.action \in Actions
              /\ e.action = ConnectionAction(asked.program, asked.by, skipped)
              /\ queue' = Append(queue, e) /\ queue' \in Seq(Entries)
              /\ DOMAIN queue = 1..Len(queue) /\ Len(queue) \in Nat
              /\ DOMAIN queue' = 1..(Len(queue) + 1) /\ queue'[Len(queue) + 1] = e
              /\ queue'[Len(queue) + 1].kind # "update"
              /\ \A i \in DOMAIN queue : queue'[i] = queue[i]
<1> DEFINE act == ConnectionAction(asked.program, asked.by, skipped)
           e == [kind |-> "conn", conn |-> asked, action |-> act]
<1>1. asked \in Conns /\ queue \in Seq(Entries) /\ queue' = Append(queue, e)
    BY DEF RoutingInv, Types, Decide
<1>2. act \in Actions
    BY DEF ConnectionAction, AppActionFor, Actions
<1> HIDE DEF act
<1>3. e \in Passing /\ e \in Entries /\ e.conn = asked /\ e.action = act /\ e.kind # "update"
    BY <1>1, <1>2 DEF Passing, Entries
<1> HIDE DEF e
<1>4. /\ queue' \in Seq(Entries) /\ DOMAIN queue = 1..Len(queue) /\ Len(queue) \in Nat
      /\ DOMAIN queue' = 1..(Len(queue) + 1) /\ queue'[Len(queue) + 1] = e
      /\ \A i \in DOMAIN queue : queue'[i] = queue[i]
    BY <1>1, <1>3, AppendIs
<1>5. queue'[Len(queue) + 1].kind # "update"
    BY <1>3, <1>4
<1> QED  BY <1>1, <1>2, <1>3, <1>4, <1>5 DEF act

LEMMA DecideKeeps ==
    ASSUME RoutingInv, NEW skipped \in BOOLEAN, Decide(skipped)
    PROVE  RoutingInv'
<1>1. /\ asked # None /\ asked' = None
      /\ UNCHANGED <<user, work, snap, session, built, given, core, edit, inForce, builtBy>>
    BY DEF Decide, session_vars, ghosts
<1>2. /\ queue' \in Seq(Entries)
      /\ DOMAIN queue = 1..Len(queue) /\ Len(queue) \in Nat
      /\ DOMAIN queue' = 1..(Len(queue) + 1)
      /\ queue'[Len(queue) + 1].kind # "update"
      /\ \A i \in DOMAIN queue : queue'[i] = queue[i]
    BY DecideIs
<1>3. Types'
    BY <1>1, <1>2 DEF RoutingInv, Types
<1>4. \A i \in DOMAIN queue' : IsUpdate(i)' => i \in DOMAIN queue /\ IsUpdate(i)
    BY <1>2 DEF IsUpdate
<1>5. \A i \in DOMAIN queue : i \in DOMAIN queue' /\ (IsUpdate(i) => IsUpdate(i)')
    BY <1>2 DEF IsUpdate
<1>6. UpdatesRight'
    BY <1>1, <1>2, <1>4 DEF RoutingInv, UpdatesRight
<1>7. CoreFollows' /\ RulesFollow'
    BY <1>1, <1>5 DEF RoutingInv, CoreFollows, RulesFollow
<1> QED  BY <1>3, <1>6, <1>7 DEF RoutingInv

LEMMA CoreUpdatesKeeps ==
    ASSUME RoutingAssumption, RoutingInv, CoreUpdates
    PROVE  RoutingInv'
<1>1. /\ queue # <<>> /\ Head(queue).kind = "update"
      /\ core' = Head(queue).routing /\ queue' = Tail(queue)
      /\ UNCHANGED <<user, work, snap, session, built, given, edit, asked, inForce, builtBy>>
    BY DEF CoreUpdates, ghosts
<1>2. /\ Head(queue) = queue[1] /\ 1 \in DOMAIN queue /\ Len(queue) \in Nat
      /\ DOMAIN queue = 1..Len(queue)
      /\ queue' \in Seq(Entries) /\ DOMAIN queue' = 1..(Len(queue) - 1)
      /\ \A i \in 1..(Len(queue) - 1) : queue'[i] = queue[i + 1] /\ i + 1 \in DOMAIN queue
    BY <1>1, TailIs DEF RoutingInv, Types
<1>3. IsUpdate(1) /\ session = "up" /\ queue[1].routing = given
    BY <1>1, <1>2 DEF RoutingInv, UpdatesRight, IsUpdate
<1>4. given \in Routings /\ given # None /\ core' = given
    BY <1>1, <1>2, <1>3 DEF RoutingInv, Types, CoreFollows
<1>5. ASSUME NEW i \in DOMAIN queue', IsUpdate(i)'
      PROVE  FALSE
    <2>1. i + 1 \in DOMAIN queue /\ IsUpdate(i + 1) /\ i + 1 # 1
        BY <1>2, <1>5 DEF IsUpdate
    <2> QED  BY <1>2, <1>3, <2>1 DEF RoutingInv, UpdatesRight
<1>6. UpdatesRight'
    BY <1>5 DEF UpdatesRight
<1>7. Types'
    BY <1>1, <1>2, <1>4 DEF RoutingInv, Types
<1>8. CoreFollows' /\ RulesFollow'
    BY <1>1, <1>3, <1>4 DEF RoutingInv, CoreFollows, RulesFollow
<1> QED  BY <1>6, <1>7, <1>8 DEF RoutingInv

LEMMA CoreCompletesKeeps ==
    ASSUME RoutingInv, CoreCompletes
    PROVE  RoutingInv'
<1>1. /\ queue # <<>> /\ Head(queue).kind = "conn" /\ queue' = Tail(queue)
      /\ UNCHANGED <<user, work, snap, session, built, given, core, edit, asked,
                     inForce, builtBy>>
    BY DEF CoreCompletes, session_vars, ghosts
<1>2. /\ Head(queue) = queue[1] /\ 1 \in DOMAIN queue /\ Len(queue) \in Nat
      /\ DOMAIN queue = 1..Len(queue)
      /\ queue' \in Seq(Entries) /\ DOMAIN queue' = 1..(Len(queue) - 1)
      /\ \A i \in 1..(Len(queue) - 1) : queue'[i] = queue[i + 1] /\ i + 1 \in DOMAIN queue
    BY <1>1, TailIs DEF RoutingInv, Types
<1>3. ~IsUpdate(1)
    BY <1>1, <1>2 DEF IsUpdate
<1>4. \A i \in DOMAIN queue' : IsUpdate(i)' => i + 1 \in DOMAIN queue /\ IsUpdate(i + 1)
    BY <1>2 DEF IsUpdate
<1>5. UpdatesRight'
    <2>1. ASSUME NEW i \in DOMAIN queue', NEW j \in DOMAIN queue', IsUpdate(i)', IsUpdate(j)'
          PROVE  i = j
        <3>1. i + 1 = j + 1
            BY <1>4, <2>1 DEF RoutingInv, UpdatesRight
        <3> QED  BY <1>2, <3>1
    <2>2. ASSUME NEW i \in DOMAIN queue', IsUpdate(i)'
          PROVE  session' = "up" /\ queue'[i].routing = given'
        BY <1>1, <1>2, <1>4, <2>2 DEF RoutingInv, UpdatesRight
    <2> QED  BY <2>1, <2>2 DEF UpdatesRight
<1>6. ASSUME \A i \in DOMAIN queue' : ~IsUpdate(i)'
      PROVE  \A i \in DOMAIN queue : ~IsUpdate(i)
    <2>1. ASSUME NEW i \in DOMAIN queue, i # 1
          PROVE  ~IsUpdate(i)
        <3>1. i - 1 \in 1..(Len(queue) - 1) /\ (i - 1) + 1 = i
            BY <1>2, <2>1
        <3> QED  BY <1>2, <1>6, <3>1 DEF IsUpdate
    <2> QED  BY <1>3, <2>1
<1>7. Types'
    BY <1>1, <1>2 DEF RoutingInv, Types
<1>8. CoreFollows' /\ RulesFollow'
    BY <1>1, <1>6 DEF RoutingInv, CoreFollows, RulesFollow
<1> QED  BY <1>5, <1>7, <1>8 DEF RoutingInv

LEMMA RoutingInvHolds ==
    Spec => []RoutingInv
<1>0. RoutingAssumption
    BY RoutingConstants
<1>1. Init => RoutingInv
    <2> SUFFICES ASSUME Init PROVE RoutingInv
        OBVIOUS
    <2>1. DOMAIN queue = {} /\ queue \in Seq(Entries) /\ inForce \in Seq(Settings)
        BY DEF Init
    <2>2. Rules(user) \in Snaps
        BY DEF Init, Rules, Snaps, Settings
    <2>3. Types
        BY <2>1, <2>2 DEF Init, Types
    <2>4. UpdatesRight /\ CoreFollows /\ RulesFollow
        BY <2>1 DEF Init, UpdatesRight, CoreFollows, RulesFollow
    <2> QED  BY <2>3, <2>4 DEF RoutingInv
<1>2. RoutingInv /\ [Next]_vars => RoutingInv'
    <2> SUFFICES ASSUME RoutingInv, [Next]_vars PROVE RoutingInv'
        OBVIOUS
    <2>1. CASE UNCHANGED vars
        BY <2>1 DEF vars, RoutingInv, Types, UpdatesRight, CoreFollows, RulesFollow, IsUpdate
    <2>2. CASE \E s \in Settings : Edit(s)
        BY <2>2, EditKeeps
    <2>3. CASE EditCore \/ EditRules \/ Attempt \/ CoreUp \/ Adopt \/ SessionEnds
        BY <1>0, <2>3, EditCoreKeeps, EditRulesKeeps, AttemptKeeps, CoreUpKeeps, AdoptKeeps,
           SessionEndsKeeps
    <2>4. CASE \E p \in Programs, a \in Addresses : Arrives(p, a)
        BY <2>4, ArrivesKeeps
    <2>5. CASE \E skipped \in BOOLEAN : Decide(skipped)
        BY <2>5, DecideKeeps
    <2>6. CASE CoreUpdates \/ CoreCompletes
        BY <1>0, <2>6, CoreUpdatesKeeps, CoreCompletesKeeps
    <2> QED  BY <2>1, <2>2, <2>3, <2>4, <2>5, <2>6 DEF Next
<1> QED  BY <1>1, <1>2, PTL DEF Spec

(* Whatever edits come and wherever in an attempt they fall, the core and  *)
(* the program rules end as the settings asked for last (setSplitRouting() *)
(* against adoptAttempt()), with one update waiting at most.               *)
THEOREM RoutingSettles ==
    Spec => [](TypeOK /\ SettledIsLast)
<1>1. ASSUME RoutingInv
      PROVE  TypeOK
    <2>1. Cardinality(Updates) <= 1
        <3>1. CASE Updates = {}
            BY <3>1, FS_EmptySet
        <3>2. CASE Updates # {}
            <4>1. PICK i \in Updates : TRUE
                BY <3>2
            <4>2. Updates = {i}
                <5>1. \A j \in Updates : j = i
                    BY <1>1, <4>1 DEF Updates, RoutingInv, UpdatesRight, IsUpdate
                <5> QED  BY <4>1, <5>1
            <4>3. Cardinality({i}) = 1
                BY FS_Singleton
            <4> QED  BY <4>2, <4>3
        <3> QED  BY <3>1, <3>2
    <2>2. work \in Routings
        BY <1>1 DEF RoutingInv, Types, Routing, Routings, Settings
    <2> QED  BY <1>1, <2>1, <2>2 DEF TypeOK, RoutingInv, Types, CoreFollows
<1>2. ASSUME RoutingInv
      PROVE  SettledIsLast
    <2>1. SUFFICES ASSUME session = "up", edit = <<>>, Updates = {}
                   PROVE  core = Routing(user) /\ given = core /\ snap = Rules(user)
        BY DEF SettledIsLast
    <2>2. \A i \in DOMAIN queue : ~IsUpdate(i)
        BY <2>1 DEF Updates, IsUpdate
    <2>3. edit # <<"core", "rules">>
        BY <2>1
    <2> QED  BY <1>2, <2>1, <2>2, <2>3 DEF RoutingInv, Types, CoreFollows, RulesFollow
<1> QED  BY <1>1, <1>2, RoutingInvHolds, PTL

(***************************************************************************)
(* While each edit waits for the update before it, and no connection comes *)
(* before its session is adopted: what a connection is looked at under,    *)
(* and what it is completed under, are settings that were in force on its  *)
(* way, and the first no later than the second.                            *)
(***************************************************************************)
Carried(c, r) ==
    \E i, j \in DOMAIN c.seen :
        /\ i <= j /\ c.seen[i] \in Settings /\ c.seen[j] \in Settings
        /\ c.by = Rules(c.seen[i]) /\ r = Routing(c.seen[j])

Acted(e) ==
    \/ e.action = "tunnel"
    \/ /\ e.action = "bypass"
       /\ e.conn.program \in e.conn.by.rules /\ e.conn.by.selective = FALSE
    \/ /\ e.action = "default"
       /\ e.conn.program \notin e.conn.by.rules \/ e.conn.by.selective = FALSE

\* What the core will apply when it comes to the connection at i.
Applied(i) == IF \E j \in DOMAIN queue : j < i /\ IsUpdate(j) THEN given ELSE core

InForceRight ==
    /\ edit = <<>> => inForce = <<user>>
    /\ edit # <<>> => /\ Len(inForce) = 2 /\ inForce[2] = user
                     /\ snap = Rules(inForce[1])
    /\ edit = <<"core", "rules">> =>
          /\ \A i \in DOMAIN queue : ~IsUpdate(i)
          /\ session = "up" => given = Routing(inForce[1])

AskedRight ==
    asked # None => /\ Len(asked.seen) > 0 /\ asked.seen[Len(asked.seen)] = user
                    /\ Carried(asked, given)

QueueRight ==
    \A i \in DOMAIN queue :
        ~IsUpdate(i) => Acted(queue[i]) /\ Carried(queue[i].conn, Applied(i))

OnlyWhileUp == session # "up" => queue = <<>> /\ asked = None

PathInv == InForceRight /\ AskedRight /\ QueueRight /\ OnlyWhileUp /\ NoMixedLeak

LEMMA LastOfAppend ==
    ASSUME NEW c \in Conns, NEW s \in Settings
    PROVE  /\ Seeing(c, s).seen[Len(Seeing(c, s).seen)] = s /\ Len(Seeing(c, s).seen) > 0
           /\ \A r : Carried(c, r) => Carried(Seeing(c, s), r)
<1> DEFINE d == Seeing(c, s)
<1>1. c.seen \in Seq(Settings \cup {None}) /\ d.by = c.by /\ d.seen = Append(c.seen, s)
    BY SeeingOne DEF Conns
<1> HIDE DEF d
<1>2. /\ Len(c.seen) \in Nat /\ DOMAIN c.seen = 1..Len(c.seen)
      /\ Len(d.seen) = Len(c.seen) + 1 /\ DOMAIN d.seen = 1..(Len(c.seen) + 1)
      /\ d.seen[Len(c.seen) + 1] = s
      /\ \A i \in DOMAIN c.seen : d.seen[i] = c.seen[i]
    BY <1>1
<1>3. ASSUME NEW r, Carried(c, r)
      PROVE  Carried(d, r)
    <2>1. PICK i \in DOMAIN c.seen, j \in DOMAIN c.seen :
               /\ i <= j /\ c.seen[i] \in Settings /\ c.seen[j] \in Settings
               /\ c.by = Rules(c.seen[i]) /\ r = Routing(c.seen[j])
        BY <1>3 DEF Carried
    <2>2. i \in DOMAIN d.seen /\ j \in DOMAIN d.seen
          /\ d.seen[i] = c.seen[i] /\ d.seen[j] = c.seen[j]
        BY <1>2
    <2> QED  BY <1>1, <2>1, <2>2 DEF Carried
<1> QED  BY <1>1, <1>2, <1>3 DEF d

\* The core is handed the newest settings: whoever is being asked about has seen them.
LEMMA CarriedByTheLast ==
    ASSUME NEW c \in Conns, NEW r, Carried(c, r), NEW s \in Settings,
           Len(c.seen) > 0, c.seen[Len(c.seen)] = s
    PROVE  Carried(c, Routing(s))
<1>1. c.seen \in Seq(Settings \cup {None})
    BY DEF Conns
<1>2. PICK i \in DOMAIN c.seen : c.seen[i] \in Settings /\ c.by = Rules(c.seen[i])
    BY DEF Carried
<1>3. Len(c.seen) \in DOMAIN c.seen /\ i <= Len(c.seen)
    BY <1>1
<1> QED  BY <1>2, <1>3 DEF Carried

LEMMA LookedAtRight ==
    ASSUME NEW e \in Passing, NEW skipped \in BOOLEAN,
           e.action = ConnectionAction(e.conn.program, e.conn.by, skipped)
    PROVE  Acted(e)
<1>1. e.conn.by.selective \in BOOLEAN
    BY DEF Passing, Conns, Snaps
<1>2. CASE skipped
    BY <1>1, <1>2 DEF Acted, ConnectionAction
<1>3. CASE ~skipped
    <2>1. e.action = AppActionFor(e.conn.program, e.conn.by)
        BY <1>3 DEF ConnectionAction
    <2> QED  BY <1>1, <2>1 DEF Acted, AppActionFor, Matches
<1> QED  BY <1>2, <1>3

\* Where a connection goes whose look and completion are such.
LEMMA GoesRight ==
    ASSUME NEW e \in Passing, NEW r \in Routings, Acted(e), Carried(e.conn, r),
           last' = [conn |-> e.conn, way |-> Completed(e.action, e.conn.address, r)]
    PROVE  NoMixedLeak'
<1> DEFINE c == e.conn
           p == c.program
<1>1. SUFFICES ASSUME Completed(e.action, c.address, r) = "out"
               PROVE  \/ \E s \in Seen' : Expected(s, c) = "out"
                      \/ ListedMeanwhile(Seen)'
    BY DEF NoMixedLeak, GoesByOneSetting
<1>2. PICK i \in DOMAIN c.seen, j \in DOMAIN c.seen :
           /\ i <= j /\ c.seen[i] \in Settings /\ c.seen[j] \in Settings
           /\ c.by = Rules(c.seen[i]) /\ r = Routing(c.seen[j])
    BY DEF Carried
<1> DEFINE A == c.seen[i]
           B == c.seen[j]
<1>3. last'.conn = c /\ last'.way = "out"
    BY <1>1
<1>4. A \in Seen' /\ B \in Seen'
    BY <1>2, <1>3 DEF Seen, ToSet
<1>5. /\ A.selective \in BOOLEAN /\ B.selective \in BOOLEAN
      /\ c.by.rules = A.rules /\ c.by.selective = A.selective
      /\ c.seen \in Seq(Settings \cup {None})
    BY <1>2 DEF Settings, Rules, Passing, Conns
<1>6. Routing(B).selective = B.selective /\ Routing(A).selective = A.selective
    BY DEF Routing
<1>7. CASE e.action = "tunnel"
    BY <1>1, <1>7 DEF Completed
<1>8. CASE /\ e.action = "bypass" /\ p \in A.rules /\ A.selective = FALSE
    <2>1. AppActionFor(p, A) = "bypass"
        BY <1>8 DEF AppActionFor, Matches
    <2>2. Expected(A, c) = "out"
        BY <2>1 DEF Expected, Completed
    <2> QED  BY <1>4, <2>2
<1>9. CASE e.action = "default" /\ (p \notin A.rules \/ A.selective = FALSE)
    <2>1. CoreRoute(c.address, Routing(B)) = "out"
        BY <1>1, <1>2, <1>9 DEF Completed
    <2>2. CASE p \notin B.rules
        <3>1. AppActionFor(p, B) = "default"
            BY <2>2 DEF AppActionFor, Matches
        <3>2. Expected(B, c) = "out"
            BY <2>1, <3>1 DEF Expected, Completed
        <3> QED  BY <1>4, <3>2
    <2>3. CASE p \in B.rules /\ B.selective = FALSE
        <3>1. AppActionFor(p, B) = "bypass"
            BY <2>3 DEF AppActionFor, Matches
        <3>2. Expected(B, c) = "out"
            BY <3>1 DEF Expected, Completed
        <3> QED  BY <1>4, <3>2
    <2>4. CASE p \in A.rules /\ A.selective = FALSE
        <3>1. AppActionFor(p, A) = "bypass"
            BY <2>4 DEF AppActionFor, Matches
        <3>2. Expected(A, c) = "out"
            BY <3>1 DEF Expected, Completed
        <3> QED  BY <1>4, <3>2
    <2>5. CASE p \notin A.rules /\ p \in B.rules /\ B.selective = TRUE
        <3>1. i # j
            BY <2>5
        <3>2. i < j
            BY <1>2, <1>5, <3>1
        <3>3. i \in DOMAIN last'.conn.seen /\ j \in DOMAIN last'.conn.seen
              /\ last'.conn.seen[i] = A /\ last'.conn.seen[j] = B
              /\ last'.conn.program \in B.rules \ A.rules
            BY <1>3, <2>5
        <3>4. last'.conn.seen[j].selective
            BY <2>5, <3>3
        <3> HIDE DEF A, B
        <3> QED  BY <1>4, <3>2, <3>3, <3>4 DEF ListedMeanwhile
    <2> QED  BY <1>5, <1>9, <2>2, <2>3, <2>4, <2>5
<1> QED  BY <1>5, <1>7, <1>8, <1>9 DEF Acted

(***************************************************************************)
(* Every action keeps it.                                                  *)
(***************************************************************************)
LEMMA EditKeepsPaths ==
    ASSUME RoutingInv, PathInv, NEW s \in Settings, Edit(s), "burst" \notin Happens
    PROVE  PathInv'
<1>1. /\ edit = <<>> /\ Updates = {} /\ user' = s /\ edit' = <<"core", "rules">>
      /\ inForce' = <<user, s>> /\ queue' = Noted(queue, s) /\ last' = None
      /\ asked' = IF asked = None THEN None ELSE Seeing(asked, s)
      /\ UNCHANGED <<snap, session, given, core>>
    BY DEF Edit, Steps, session_vars
<1>2. /\ queue \in Seq(Entries) /\ DOMAIN queue' = DOMAIN queue
      /\ \A i \in DOMAIN queue : /\ queue'[i].kind = queue[i].kind
                                 /\ queue[i].kind = "conn" =>
                                       /\ queue'[i].action = queue[i].action
                                       /\ queue'[i].conn = Seeing(queue[i].conn, s)
    BY <1>1, NotedAll DEF RoutingInv, Types
<1>3. \A i \in DOMAIN queue : queue[i].kind = "conn" /\ queue[i].conn \in Conns
    <2>1. \A i \in DOMAIN queue : queue[i].kind # "update" /\ queue[i] \in Entries
        BY <1>1, <1>2 DEF Updates
    <2> QED  BY <2>1, EntryKinds
<1>4. InForceRight'
    <2>1. edit' # <<>> /\ Len(inForce') = 2 /\ inForce'[2] = user' /\ inForce'[1] = user
        BY <1>1
    <2>2. snap = Rules(user) /\ work = Routing(user)
        BY <1>1 DEF RoutingInv, Types, RulesFollow
    <2>3. session' = "up" => given' = Routing(inForce'[1])
        BY <1>1, <2>1, <2>2 DEF RoutingInv, CoreFollows
    <2>4. \A i \in DOMAIN queue' : ~IsUpdate(i)'
        BY <1>2, <1>3 DEF IsUpdate
    <2>5. snap' = Rules(inForce'[1])
        BY <1>1, <2>1, <2>2
    <2> QED  BY <2>1, <2>3, <2>4, <2>5 DEF InForceRight
<1>5. AskedRight'
    <2>1. SUFFICES ASSUME asked' # None
                   PROVE  /\ Len(asked'.seen) > 0 /\ asked'.seen[Len(asked'.seen)] = s
                          /\ Carried(asked', given)
        BY <1>1 DEF AskedRight
    <2>2. asked # None /\ asked' = Seeing(asked, s) /\ asked \in Conns
        BY <1>1, <2>1 DEF RoutingInv, Types
    <2>3. Carried(asked, given)
        BY <2>2 DEF PathInv, AskedRight
    <2> QED  BY <2>2, <2>3, LastOfAppend
<1>6. QueueRight'
    <2>1. SUFFICES ASSUME NEW i \in DOMAIN queue
                   PROVE  Acted(queue'[i]) /\ Carried(queue'[i].conn, Applied(i)')
        BY <1>2 DEF QueueRight
    <2>2. Applied(i)' = core /\ Applied(i) = core
        BY <1>1, <1>2, <1>3 DEF Applied, IsUpdate
    <2>3. Acted(queue[i]) /\ Carried(queue[i].conn, core)
        BY <1>3, <2>2 DEF PathInv, QueueRight, IsUpdate
    <2>4. /\ queue'[i].action = queue[i].action
          /\ queue'[i].conn.program = queue[i].conn.program
          /\ queue'[i].conn.by = queue[i].conn.by
          /\ queue'[i].conn = Seeing(queue[i].conn, s)
        BY <1>2, <1>3, SeeingOne
    <2>5. Acted(queue'[i])
        BY <2>3, <2>4 DEF Acted
    <2> QED  BY <1>3, <2>2, <2>3, <2>4, <2>5, LastOfAppend
<1>7. OnlyWhileUp' /\ NoMixedLeak'
    <2>1. queue = <<>> => queue' = <<>>
        BY <1>2
    <2> QED  BY <1>1, <2>1 DEF PathInv, OnlyWhileUp, NoMixedLeak, GoesByOneSetting
<1> QED  BY <1>4, <1>5, <1>6, <1>7 DEF PathInv

LEMMA EditCoreKeepsPaths ==
    ASSUME RoutingInv, PathInv, EditCore
    PROVE  PathInv'
<1>1. /\ edit # <<>> /\ Head(edit) = "core" /\ edit' = Tail(edit) /\ last' = None
      /\ inForce' = IF Tail(edit) = <<>> THEN <<user>> ELSE inForce
      /\ IF session = "up" THEN ApplyRouting(work, given) ELSE UNCHANGED <<given, queue>>
      /\ UNCHANGED <<user, snap, session, core, asked>>
    BY DEF EditCore
<1>2. edit = <<"core", "rules">> /\ edit' = <<"rules">> /\ inForce' = inForce
    <2>1. edit \in {<<>>, <<"core", "rules">>, <<"rules">>}
        BY DEF RoutingInv, Types
    <2>2. Head(<<"rules">>) = "rules" /\ Tail(<<"core", "rules">>) = <<"rules">>
          /\ <<"rules">> # <<>>
        OBVIOUS
    <2> QED  BY <1>1, <2>1, <2>2
<1>3. \A i \in DOMAIN queue : ~IsUpdate(i)
    BY <1>2 DEF PathInv, InForceRight
<1>4. InForceRight'
    BY <1>1, <1>2 DEF PathInv, InForceRight
<1>5. CASE session # "up"
    <2>1. queue = <<>> /\ asked = None /\ UNCHANGED <<given, queue, core, session, asked>>
        BY <1>1, <1>5 DEF PathInv, OnlyWhileUp
    <2>2. AskedRight' /\ QueueRight'
        BY <2>1 DEF AskedRight, QueueRight
    <2>3. OnlyWhileUp' /\ NoMixedLeak'
        BY <1>1, <2>1 DEF OnlyWhileUp, NoMixedLeak, GoesByOneSetting
    <2> QED  BY <1>4, <2>2, <2>3 DEF PathInv
<1>6. CASE session = "up"
    <2>1. given' = work /\ queue' = IF work = given THEN queue ELSE Handed(queue, work)
        BY <1>1, <1>6 DEF ApplyRouting
    <2>2. /\ work = Routing(user) /\ user \in Settings /\ queue \in Seq(Entries)
          /\ work \in Routings
        BY DEF RoutingInv, Types, Routing, Routings, Settings
    <2>3. AskedRight'
        <3>1. asked # None => asked \in Conns
            BY DEF RoutingInv, Types
        <3> QED  BY <1>1, <2>1, <2>2, <3>1, CarriedByTheLast DEF PathInv, AskedRight
    <2>4. /\ DOMAIN queue \subseteq DOMAIN queue'
          /\ \A i \in DOMAIN queue : queue'[i] = queue[i]
          /\ \A i \in DOMAIN queue' : i \in DOMAIN queue \/ IsUpdate(i)'
          /\ \A i \in DOMAIN queue' : i \in DOMAIN queue \/ i = Len(queue) + 1
        <3>1. CASE work = given
            BY <2>1, <3>1
        <3>2. CASE work # given
            <4>1. OneUpdate(queue) /\ \A i \in DOMAIN queue : queue[i].kind # "update"
                BY <1>3 DEF OneUpdate, IsUpdate
            <4>2. queue' = Append(queue, Update(work))
                BY <2>1, <2>2, <3>2, <4>1, HandedIs
            <4>3. Update(work) \in Entries /\ Update(work).kind = "update"
                BY <2>2 DEF Update, Entries, Changes
            <4>4. /\ Len(queue) \in Nat /\ DOMAIN queue = 1..Len(queue)
                  /\ DOMAIN queue' = 1..(Len(queue) + 1)
                  /\ queue'[Len(queue) + 1] = Update(work)
                  /\ \A i \in 1..Len(queue) : queue'[i] = queue[i]
                BY <2>2, <4>2, <4>3, AppendIs
            <4>5. \A i \in DOMAIN queue' : i \in DOMAIN queue \/ i = Len(queue) + 1
                BY <4>4
            <4>6. \A i \in DOMAIN queue' : i = Len(queue) + 1 => IsUpdate(i)'
                BY <4>3, <4>4 DEF IsUpdate
            <4>7. DOMAIN queue \subseteq DOMAIN queue'
                  /\ \A i \in DOMAIN queue : queue'[i] = queue[i]
                BY <4>4
            <4> QED  BY <4>5, <4>6, <4>7
        <3> QED  BY <3>1, <3>2
    <2>5. QueueRight'
        <3>1. SUFFICES ASSUME NEW i \in DOMAIN queue', ~IsUpdate(i)'
                       PROVE  Acted(queue'[i]) /\ Carried(queue'[i].conn, Applied(i)')
            BY DEF QueueRight
        <3>2. i \in DOMAIN queue
            BY <2>4, <3>1
        <3>3. queue'[i] = queue[i]
            BY <2>4, <3>2
        <3>4. ASSUME NEW j \in DOMAIN queue', j < i, IsUpdate(j)'
              PROVE  FALSE
            <4>1. j \in DOMAIN queue
                <5>1. Len(queue) \in Nat /\ DOMAIN queue = 1..Len(queue)
                    BY <2>2
                <5> QED  BY <2>4, <3>2, <3>4, <5>1
            <4>2. IsUpdate(j)
                BY <2>4, <3>4, <4>1 DEF IsUpdate
            <4> QED  BY <1>3, <4>1, <4>2
        <3>5. Applied(i)' = core /\ Applied(i) = core
            BY <1>1, <1>3, <3>4 DEF Applied
        <3> QED  BY <1>3, <3>2, <3>3, <3>5 DEF PathInv, QueueRight
    <2>6. OnlyWhileUp' /\ NoMixedLeak'
        BY <1>1, <1>6 DEF OnlyWhileUp, NoMixedLeak, GoesByOneSetting
    <2> QED  BY <1>4, <2>3, <2>5, <2>6 DEF PathInv
<1> QED  BY <1>5, <1>6

LEMMA EditRulesKeepsPaths ==
    ASSUME RoutingInv, PathInv, EditRules
    PROVE  PathInv'
<1>1. /\ edit # <<>> /\ Head(edit) = "rules" /\ edit' = Tail(edit) /\ last' = None
      /\ inForce' = IF Tail(edit) = <<>> THEN <<user>> ELSE inForce
      /\ UNCHANGED <<user, session, given, core, queue, asked>>
    BY DEF EditRules, session_vars
<1>2. edit' = <<>>
    <2>1. edit \in {<<>>, <<"core", "rules">>, <<"rules">>}
        BY DEF RoutingInv, Types
    <2>2. Head(<<"core", "rules">>) = "core" /\ Tail(<<"rules">>) = <<>>
        OBVIOUS
    <2> QED  BY <1>1, <2>1, <2>2
<1>3. InForceRight'
    BY <1>1, <1>2 DEF InForceRight
<1>4. AskedRight' /\ QueueRight' /\ OnlyWhileUp'
    BY <1>1 DEF PathInv, AskedRight, QueueRight, OnlyWhileUp, Applied, IsUpdate
<1>5. NoMixedLeak'
    BY <1>1 DEF NoMixedLeak, GoesByOneSetting
<1> QED  BY <1>3, <1>4, <1>5 DEF PathInv

\* A session begins, comes up, is adopted and ends with nothing on its way.
LEMMA SessionKeepsPaths ==
    ASSUME RoutingInv, PathInv, Attempt \/ CoreUp \/ Adopt \/ SessionEnds
    PROVE  PathInv'
<1>1. /\ last' = None /\ UNCHANGED <<user, snap, edit, inForce>>
      /\ asked' \in {asked, None}
    BY DEF Attempt, CoreUp, Adopt, SessionEnds, ghosts
<1>2. CASE Attempt \/ CoreUp \/ SessionEnds
    <2>1. queue' = <<>> /\ asked' = None /\ session' # "up"
        BY <1>2 DEF Attempt, CoreUp, SessionEnds, PathInv, OnlyWhileUp
    <2>2. InForceRight'
        BY <1>1, <2>1 DEF PathInv, InForceRight
    <2>3. AskedRight' /\ QueueRight' /\ OnlyWhileUp' /\ NoMixedLeak'
        BY <1>1, <2>1 DEF AskedRight, QueueRight, OnlyWhileUp, NoMixedLeak, GoesByOneSetting
    <2> QED  BY <2>2, <2>3 DEF PathInv
<1>3. CASE Adopt
    <2>1. /\ session = "starting" /\ edit = <<>> /\ session' = "up"
          /\ ApplyRouting(work, built) /\ asked' = asked
        BY <1>3 DEF Adopt
    <2>2. queue = <<>> /\ asked = None
        BY <2>1 DEF PathInv, OnlyWhileUp
    <2>3. \A i \in DOMAIN queue' : IsUpdate(i)'
        <3>1. CASE work = built
            BY <2>1, <2>2, <3>1 DEF ApplyRouting
        <3>2. CASE work # built
            <4>1. queue' = Append(<<>>, Update(work))
                BY <2>1, <2>2, <3>2 DEF ApplyRouting, Handed
            <4>2. queue' = <<Update(work)>>
                BY <4>1
            <4>3. DOMAIN queue' = {1} /\ queue'[1] = Update(work)
                BY <4>2
            <4> QED  BY <4>3 DEF IsUpdate, Update
        <3> QED  BY <3>1, <3>2
    <2>4. InForceRight'
        BY <1>1, <2>1 DEF PathInv, InForceRight
    <2>5. AskedRight' /\ QueueRight' /\ OnlyWhileUp' /\ NoMixedLeak'
        BY <1>1, <2>1, <2>2, <2>3
           DEF AskedRight, QueueRight, OnlyWhileUp, NoMixedLeak, GoesByOneSetting
    <2> QED  BY <2>4, <2>5 DEF PathInv
<1> QED  BY <1>2, <1>3

LEMMA ArrivesKeepsPaths ==
    ASSUME RoutingInv, PathInv, NEW p \in Programs, NEW a \in Addresses, Arrives(p, a),
           "early" \notin Happens
    PROVE  PathInv'
<1>1. /\ session = "up" /\ last' = None
      /\ asked' = [program |-> p, address |-> a, by |-> snap, seen |-> <<>> \o inForce]
      /\ UNCHANGED <<user, snap, session, given, core, queue, edit, inForce>>
    BY DEF Arrives, session_vars, ghosts
<1>2. inForce \in Seq(Settings)
    BY DEF RoutingInv, Types
<1>3. asked'.by = snap /\ asked'.seen = inForce
    <2>1. <<>> \o inForce = inForce
        BY <1>2
    <2> QED  BY <1>1, <2>1
<1>4. AskedRight'
    <2>1. /\ Len(inForce) > 0 /\ inForce[Len(inForce)] = user /\ Carried(asked', given)
        <3>1. CASE edit = <<>>
            <4>1. inForce = <<user>> /\ snap = Rules(user) /\ given = Routing(user)
                <5>1. edit # <<"core", "rules">>
                    BY <3>1
                <5> QED  BY <1>1, <3>1, <5>1
                         DEF PathInv, InForceRight, RoutingInv, RulesFollow, CoreFollows, Types
            <4>2. Len(inForce) = 1 /\ inForce[1] = user /\ 1 \in DOMAIN inForce /\ 1 <= 1
                BY <4>1
            <4>3. user \in Settings
                BY DEF RoutingInv, Types
            <4>4. Carried(asked', given)
                BY <1>3, <4>1, <4>2, <4>3 DEF Carried
            <4> QED  BY <4>2, <4>4
        <3>2. CASE edit # <<>>
            <4>1. Len(inForce) = 2 /\ inForce[2] = user /\ snap = Rules(inForce[1])
                BY <3>2 DEF PathInv, InForceRight
            <4>2. 1 \in DOMAIN inForce /\ 2 \in DOMAIN inForce
                  /\ inForce[1] \in Settings /\ inForce[2] \in Settings /\ 1 <= 1 /\ 1 <= 2
                <5>1. /\ DOMAIN inForce = 1..Len(inForce)
                      /\ \A i \in 1..Len(inForce) : inForce[i] \in Settings
                    BY <1>2
                <5>2. 1 \in 1..2 /\ 2 \in 1..2 /\ 1 <= 1 /\ 1 <= 2
                    OBVIOUS
                <5>3. Len(inForce) = 2
                    BY <4>1
                <5> QED  BY <5>1, <5>2, <5>3
            <4>3. given = Routing(inForce[1]) \/ given = Routing(inForce[2])
                <5>1. CASE edit = <<"core", "rules">>
                    BY <1>1, <5>1 DEF PathInv, InForceRight
                <5>2. CASE edit # <<"core", "rules">>
                    BY <1>1, <4>1, <5>2 DEF RoutingInv, CoreFollows, Types
                <5> QED  BY <5>1, <5>2
            <4>4. Carried(asked', given)
                BY <1>3, <4>1, <4>2, <4>3 DEF Carried
            <4> QED  BY <4>1, <4>4
        <3> QED  BY <3>1, <3>2
    <2> QED  BY <1>1, <1>3, <2>1 DEF AskedRight
<1>5. InForceRight' /\ QueueRight' /\ OnlyWhileUp' /\ NoMixedLeak'
    BY <1>1 DEF PathInv, InForceRight, QueueRight, OnlyWhileUp, NoMixedLeak,
                GoesByOneSetting, Applied, IsUpdate
<1> QED  BY <1>4, <1>5 DEF PathInv

LEMMA DecideKeepsPaths ==
    ASSUME RoutingInv, PathInv, NEW skipped \in BOOLEAN, Decide(skipped)
    PROVE  PathInv'
<1>1. /\ asked # None /\ asked' = None /\ last' = None
      /\ UNCHANGED <<user, snap, session, given, core, edit, inForce>>
    BY DEF Decide, session_vars, ghosts
<1>2. PICK e \in Passing :
         /\ e.conn = asked /\ e.action = ConnectionAction(asked.program, asked.by, skipped)
         /\ DOMAIN queue = 1..Len(queue) /\ Len(queue) \in Nat
         /\ DOMAIN queue' = 1..(Len(queue) + 1) /\ queue'[Len(queue) + 1] = e
         /\ queue'[Len(queue) + 1].kind # "update"
         /\ \A i \in DOMAIN queue : queue'[i] = queue[i]
    BY DecideIs
<1>3. session = "up" /\ Carried(asked, given)
    BY <1>1 DEF PathInv, OnlyWhileUp, AskedRight
<1>4. \A i \in DOMAIN queue' : IsUpdate(i)' <=> i \in DOMAIN queue /\ IsUpdate(i)
    BY <1>2 DEF IsUpdate
<1>5. InForceRight'
    BY <1>1, <1>4 DEF PathInv, InForceRight
<1>6. QueueRight'
    <2>1. ASSUME NEW i \in DOMAIN queue, ~IsUpdate(i)'
          PROVE  Acted(queue'[i]) /\ Carried(queue'[i].conn, Applied(i)')
        <3>1. (\E j \in DOMAIN queue' : j < i /\ IsUpdate(j)')
                  <=> (\E j \in DOMAIN queue : j < i /\ IsUpdate(j))
            BY <1>2, <1>4
        <3>2. Applied(i)' = Applied(i)
            BY <1>1, <3>1 DEF Applied
        <3>3. queue'[i] = queue[i] /\ ~IsUpdate(i)
            BY <1>2, <2>1 DEF IsUpdate
        <3> QED  BY <3>2, <3>3 DEF PathInv, QueueRight
    <2>2. Acted(e)
        BY <1>2, LookedAtRight
    <2> DEFINE n == Len(queue) + 1
    <2>3. ASSUME NEW i \in DOMAIN queue', i \notin DOMAIN queue
          PROVE  Acted(queue'[i]) /\ Carried(queue'[i].conn, Applied(i)')
        <3>1. i = Len(queue) + 1 /\ queue'[i] = e
            BY <1>2, <2>3
        <3>2. (\E j \in DOMAIN queue' : j < i /\ IsUpdate(j)')
                  <=> (\E j \in DOMAIN queue : IsUpdate(j))
            BY <1>2, <1>4, <3>1
        <3>3. Applied(i)' = given
            BY <1>1, <1>3, <3>2 DEF Applied, RoutingInv, CoreFollows
        <3> QED  BY <1>2, <1>3, <2>2, <3>1, <3>3
    <2> QED  BY <2>1, <2>3 DEF QueueRight
<1>7. AskedRight' /\ OnlyWhileUp' /\ NoMixedLeak'
    BY <1>1, <1>3 DEF AskedRight, OnlyWhileUp, NoMixedLeak, GoesByOneSetting
<1> QED  BY <1>5, <1>6, <1>7 DEF PathInv

\* What was behind the update that is applied now goes by what the core applies.
LEMMA CoreUpdatesKeepsPaths ==
    ASSUME RoutingInv, PathInv, CoreUpdates
    PROVE  PathInv'
<1>1. /\ queue # <<>> /\ Head(queue).kind = "update"
      /\ core' = Head(queue).routing /\ queue' = Tail(queue) /\ last' = None
      /\ UNCHANGED <<user, snap, session, given, edit, asked, inForce>>
    BY DEF CoreUpdates, ghosts
<1>2. /\ Head(queue) = queue[1] /\ 1 \in DOMAIN queue /\ Len(queue) \in Nat
      /\ DOMAIN queue = 1..Len(queue) /\ DOMAIN queue' = 1..(Len(queue) - 1)
      /\ \A i \in 1..(Len(queue) - 1) : queue'[i] = queue[i + 1] /\ i + 1 \in DOMAIN queue
    BY <1>1, TailIs DEF RoutingInv, Types
<1>3. IsUpdate(1) /\ session = "up" /\ core' = given
    BY <1>1, <1>2 DEF RoutingInv, UpdatesRight, IsUpdate
<1>4. ASSUME NEW i \in DOMAIN queue'
      PROVE  /\ ~IsUpdate(i)' /\ ~IsUpdate(i + 1) /\ i + 1 \in DOMAIN queue
             /\ queue'[i] = queue[i + 1] /\ Applied(i + 1) = given
    <2>1. i + 1 \in DOMAIN queue /\ i + 1 # 1 /\ 1 < i + 1 /\ queue'[i] = queue[i + 1]
        BY <1>2
    <2>2. ~IsUpdate(i + 1)
        BY <1>2, <1>3, <2>1 DEF RoutingInv, UpdatesRight
    <2>3. ~IsUpdate(i)'
        BY <2>1, <2>2 DEF IsUpdate
    <2>4. Applied(i + 1) = given
        BY <1>2, <1>3, <2>1 DEF Applied
    <2> QED  BY <2>1, <2>2, <2>3, <2>4
<1>5. QueueRight'
    <2>1. SUFFICES ASSUME NEW i \in DOMAIN queue'
                   PROVE  Acted(queue'[i]) /\ Carried(queue'[i].conn, Applied(i)')
        BY DEF QueueRight
    <2>2. Applied(i)' = given
        BY <1>1, <1>3 DEF Applied
    <2> QED  BY <1>4, <2>2 DEF PathInv, QueueRight
<1>6. InForceRight'
    BY <1>1, <1>4 DEF PathInv, InForceRight
<1>7. AskedRight' /\ OnlyWhileUp' /\ NoMixedLeak'
    BY <1>1, <1>3 DEF PathInv, AskedRight, OnlyWhileUp, NoMixedLeak, GoesByOneSetting
<1> QED  BY <1>5, <1>6, <1>7 DEF PathInv

LEMMA CoreCompletesKeepsPaths ==
    ASSUME RoutingAssumption, RoutingInv, PathInv, CoreCompletes
    PROVE  PathInv'
<1>1. /\ queue # <<>> /\ Head(queue).kind = "conn" /\ queue' = Tail(queue)
      /\ last' = [conn |-> Head(queue).conn,
                  way |-> Completed(Head(queue).action, Head(queue).conn.address, core)]
      /\ UNCHANGED <<user, snap, session, given, core, edit, asked, inForce>>
    BY DEF CoreCompletes, session_vars, ghosts
<1>2. /\ Head(queue) = queue[1] /\ 1 \in DOMAIN queue /\ Len(queue) \in Nat
      /\ queue[1] \in Entries
      /\ DOMAIN queue = 1..Len(queue) /\ DOMAIN queue' = 1..(Len(queue) - 1)
      /\ \A i \in 1..(Len(queue) - 1) : queue'[i] = queue[i + 1] /\ i + 1 \in DOMAIN queue
    BY <1>1, TailIs DEF RoutingInv, Types
<1>3. ~IsUpdate(1) /\ queue[1] \in Passing
    BY <1>1, <1>2, EntryKinds DEF IsUpdate
<1>4. \A i \in DOMAIN queue' : /\ IsUpdate(i)' <=> IsUpdate(i + 1)
                               /\ i + 1 \in DOMAIN queue /\ queue'[i] = queue[i + 1]
    BY <1>2 DEF IsUpdate
<1>5. QueueRight'
    <2>1. SUFFICES ASSUME NEW i \in DOMAIN queue', ~IsUpdate(i)'
                   PROVE  Acted(queue'[i]) /\ Carried(queue'[i].conn, Applied(i)')
        BY DEF QueueRight
    <2>2. (\E j \in DOMAIN queue' : j < i /\ IsUpdate(j)')
              <=> (\E j \in DOMAIN queue : j < i + 1 /\ IsUpdate(j))
        <3>1. ASSUME NEW j \in DOMAIN queue', j < i, IsUpdate(j)'
              PROVE  \E k \in DOMAIN queue : k < i + 1 /\ IsUpdate(k)
            <4>1. j + 1 \in DOMAIN queue /\ j + 1 < i + 1 /\ IsUpdate(j + 1)
                BY <1>2, <1>4, <3>1
            <4> QED  BY <4>1
        <3>2. ASSUME NEW k \in DOMAIN queue, k < i + 1, IsUpdate(k)
              PROVE  \E j \in DOMAIN queue' : j < i /\ IsUpdate(j)'
            <4>1. k # 1
                BY <1>3, <3>2
            <4>2. k - 1 \in DOMAIN queue' /\ k - 1 < i /\ (k - 1) + 1 = k
                BY <1>2, <3>2, <4>1
            <4>3. IsUpdate(k - 1)'
                BY <1>4, <3>2, <4>2
            <4> QED  BY <4>2, <4>3
        <3> QED  BY <3>1, <3>2
    <2>3. Applied(i)' = Applied(i + 1)
        BY <1>1, <2>2 DEF Applied
    <2> QED  BY <1>4, <2>1, <2>3 DEF PathInv, QueueRight
<1>6. NoMixedLeak'
    <2> DEFINE e == queue[1]
    <2>1. ~\E j \in DOMAIN queue : j < 1 /\ IsUpdate(j)
        BY <1>2
    <2>2. Acted(e) /\ Carried(e.conn, core)
        BY <1>2, <1>3, <2>1 DEF PathInv, QueueRight, Applied
    <2>3. core \in Routings
        <3>1. core # None
            BY <1>1 DEF RoutingInv, CoreFollows
        <3> QED  BY <3>1 DEF RoutingInv, Types
    <2> QED  BY <1>1, <1>2, <1>3, <2>2, <2>3, GoesRight
<1>7. InForceRight'
    BY <1>1, <1>4 DEF PathInv, InForceRight
<1>8. AskedRight' /\ OnlyWhileUp'
    <2>1. session = "up"
        BY <1>1 DEF PathInv, OnlyWhileUp
    <2> QED  BY <1>1, <2>1 DEF PathInv, AskedRight, OnlyWhileUp
<1> QED  BY <1>5, <1>6, <1>7, <1>8 DEF PathInv

LEMMA PathInvHolds ==
    ASSUME "burst" \notin Happens, "early" \notin Happens
    PROVE  Spec => []PathInv
<1>1. Init => PathInv
    BY DEF Init, PathInv, InForceRight, AskedRight, QueueRight, OnlyWhileUp, NoMixedLeak,
           GoesByOneSetting
<1>2. RoutingInv /\ PathInv /\ [Next]_vars => PathInv'
    <2> SUFFICES ASSUME RoutingInv, PathInv, [Next]_vars PROVE PathInv'
        OBVIOUS
    <2>1. CASE UNCHANGED vars
        BY <2>1 DEF vars, PathInv, InForceRight, AskedRight, QueueRight, OnlyWhileUp,
                    NoMixedLeak, GoesByOneSetting, ListedMeanwhile, Seen, Applied, IsUpdate
    <2>2. CASE \E s \in Settings : Edit(s)
        BY <2>2, EditKeepsPaths
    <2>3. CASE EditCore \/ EditRules
        BY <2>3, EditCoreKeepsPaths, EditRulesKeepsPaths
    <2>4. CASE Attempt \/ CoreUp \/ Adopt \/ SessionEnds
        BY <2>4, SessionKeepsPaths
    <2>5. CASE \E p \in Programs, a \in Addresses : Arrives(p, a)
        BY <2>5, ArrivesKeepsPaths
    <2>6. CASE \E skipped \in BOOLEAN : Decide(skipped)
        BY <2>6, DecideKeepsPaths
    <2>7. CASE CoreUpdates \/ CoreCompletes
        BY <2>7, CoreUpdatesKeepsPaths, CoreCompletesKeepsPaths, RoutingConstants
    <2> QED  BY <2>1, <2>2, <2>3, <2>4, <2>5, <2>6, <2>7 DEF Next
<1> QED  BY <1>1, <1>2, RoutingInvHolds, PTL DEF Spec

(* A connection leaves the tunnel only where settings that were in force   *)
(* while it was on its way send it out, or its program was listed in       *)
(* "Through VPN" after it was looked at (setSplitRouting(),                *)
(* makeConnectRequestHandler()).                                           *)
THEOREM NoConnectionLeaks ==
    ASSUME "burst" \notin Happens, "early" \notin Happens
    PROVE  Spec => []NoMixedLeak
BY PathInvHolds, PTL DEF PathInv

(***************************************************************************)
(* The uplink follower: the inductive invariant.                           *)
(***************************************************************************)
Protects == [at : {"idle", "pin", "check"}, index : Indexes]

FollowerTypes ==
    /\ active \in Indexes /\ outbound \in Indexes /\ pinned \in Indexes
    /\ reported \in Indexes /\ seen \in Indexes /\ looked \in Indexes /\ captured \in Indexes
    /\ phase \in {"none", "retiring", "building", "connecting", "up"}
    /\ owner \in {"idle", "store", "set", "tell"}
    /\ quiet \in 0..(QuietLooks - 1) /\ late \in Nat
    /\ routed \in BOOLEAN /\ bound \in BOOLEAN /\ lingers \in BOOLEAN
    /\ protect \in [Threads -> Protects]

\* The owner is in the middle of a move of a session that is up, and a core that does
\* not run protects nothing.
OwnerRight ==
    /\ owner \in {"set", "tell"} => phase = "up" /\ reported = pinned
    /\ owner = "store" => phase \in {"none", "up"}
    /\ phase \notin {"connecting", "up"} => protect["current"] = Idle

\* Somebody is about to write the binding: the owner the index it stored, a thread an
\* index it has read and will compare again.
Corrects ==
    \/ owner = "set"
    \/ \E t \in Threads : \/ protect[t].at = "pin"
                          \/ protect[t].at = "check" /\ protect[t].index # pinned

\* The session's core has written the index once, or is about to find that it has.
HasWritten ==
    \/ phase = "up"
    \/ phase = "connecting" /\ bound
    \/ phase = "connecting" /\ protect["current"].at = "check"
                              /\ protect["current"].index = pinned

BindingRight ==
    HasWritten /\ pinned # 0 /\ owner # "store" => outbound = pinned \/ Corrects

\* What the looks have found since the network last changed.
LooksRight ==
    /\ reported = 0 => late <= quiet
    /\ reported = 0 /\ "disagree" \notin UplinkHappens => late = 0
    /\ reported # 0 => late <= 1 /\ (late = 1 => seen = active)
    /\ "disagree" \notin UplinkHappens => routed = (active # 0)
    /\ reported # 0 => looked = seen \/ seen = reported

UplinkInv == FollowerTypes /\ OwnerRight /\ BindingRight /\ LooksRight

(***************************************************************************)
(* The threads of the cores.                                               *)
(***************************************************************************)
LEMMA NetworkMovesKeeps ==
    ASSUME UplinkInv, NEW a \in Indexes, NEW r \in BOOLEAN, NetworkMoves(a, r)
    PROVE  UplinkInv'
<1>1. /\ "disagree" \in UplinkHappens \/ r = (a # 0)
      /\ active' = a /\ routed' = r /\ late' = IF a = active THEN late ELSE 0
      /\ UNCHANGED <<outbound, pinned, reported, seen, quiet, looked, bound, phase,
                     owner, captured, protect, lingers>>
    BY DEF NetworkMoves, binding_vars, core_vars
<1>2. FollowerTypes'
    BY <1>1 DEF UplinkInv, FollowerTypes
<1>3. OwnerRight' /\ BindingRight'
    BY <1>1 DEF UplinkInv, OwnerRight, BindingRight, HasWritten, Corrects
<1>4. LooksRight'
    BY <1>1 DEF UplinkInv, LooksRight, FollowerTypes
<1> QED  BY <1>2, <1>3, <1>4 DEF UplinkInv

LEMMA LoadKeeps ==
    ASSUME UplinkInv, NEW t \in Threads, Load(t)
    PROVE  UplinkInv'
<1>1. /\ Running(t) /\ protect[t] = Idle
      /\ protect' = [protect EXCEPT ![t] = [at |-> "pin", index |-> pinned]]
      /\ UNCHANGED <<active, routed, outbound, pinned, reported, seen, quiet, looked, late,
                     bound, phase, owner, captured, lingers>>
    BY DEF Load, network_vars, binding_vars, look_vars, core_vars
<1>2. protect \in [Threads -> Protects] /\ protect'[t].at = "pin"
      /\ protect' \in [Threads -> Protects]
    BY <1>1 DEF UplinkInv, FollowerTypes, Protects
<1>3. FollowerTypes'
    BY <1>1, <1>2 DEF UplinkInv, FollowerTypes
<1>4. OwnerRight'
    BY <1>1, <1>2 DEF UplinkInv, OwnerRight, Running
<1>5. Corrects'
    BY <1>2 DEF Corrects
<1>6. BindingRight' /\ LooksRight'
    BY <1>1, <1>5 DEF UplinkInv, BindingRight, LooksRight
<1> QED  BY <1>3, <1>4, <1>6 DEF UplinkInv

LEMMA PinKeeps ==
    ASSUME UplinkInv, NEW t \in Threads, Pin(t)
    PROVE  UplinkInv'
<1>1. /\ protect[t].at = "pin"
      /\ outbound' = IF protect[t].index # 0 THEN protect[t].index ELSE outbound
      /\ protect' = [protect EXCEPT ![t].at = "check"]
      /\ UNCHANGED <<active, routed, pinned, reported, seen, quiet, looked, late,
                     bound, phase, owner, captured, lingers>>
    BY DEF Pin, network_vars, look_vars, core_vars
<1>2. /\ protect \in [Threads -> Protects] /\ protect' \in [Threads -> Protects]
      /\ protect'[t].at = "check" /\ protect'[t].index = protect[t].index
      /\ protect[t].index \in Indexes
    BY <1>1 DEF UplinkInv, FollowerTypes, Protects
<1>3. FollowerTypes'
    BY <1>1, <1>2 DEF UplinkInv, FollowerTypes
<1>4. OwnerRight'
    BY <1>1, <1>2 DEF UplinkInv, OwnerRight, Idle, Threads
<1>5. pinned # 0 => outbound' = pinned' \/ Corrects'
    BY <1>1, <1>2 DEF Corrects
<1>6. BindingRight' /\ LooksRight'
    BY <1>1, <1>5 DEF UplinkInv, BindingRight, LooksRight
<1> QED  BY <1>3, <1>4, <1>6 DEF UplinkInv

LEMMA CheckKeeps ==
    ASSUME UplinkInv, NEW t \in Threads, Check(t)
    PROVE  UplinkInv'
<1>1. /\ protect[t].at = "check"
      /\ protect' = [protect EXCEPT ![t] = PinAgain(t)]
      /\ bound' = (bound \/ (t = "current" /\ protect'[t] = Idle))
      /\ UNCHANGED <<active, routed, outbound, pinned, reported, seen, quiet, looked, late,
                     phase, owner, captured, lingers>>
    BY DEF Check, network_vars, binding_vars, look_vars
<1>2. /\ protect \in [Threads -> Protects] /\ pinned \in Indexes /\ protect'[t] = PinAgain(t)
      /\ \A u \in Threads : u # t => protect'[u] = protect[u]
    BY <1>1 DEF UplinkInv, FollowerTypes
<1>3. PinAgain(t) \in Protects
    BY <1>2 DEF PinAgain, Protects, Idle, Indexes
<1>4. FollowerTypes'
    <2>1. protect' \in [Threads -> Protects]
        BY <1>1, <1>2, <1>3
    <2>2. bound' \in BOOLEAN
        BY <1>1 DEF UplinkInv, FollowerTypes
    <2> QED  BY <1>1, <2>1, <2>2 DEF UplinkInv, FollowerTypes
<1>5. OwnerRight'
    BY <1>1, <1>2 DEF UplinkInv, OwnerRight, Idle, Threads
<1>6. BindingRight'
    <2>1. CASE protect[t].index = pinned
        <3>1. protect'[t] = Idle
            BY <1>2, <2>1 DEF PinAgain
        <3>2. Corrects => Corrects'
            BY <1>1, <1>2, <2>1 DEF Corrects
        <3>3. HasWritten' => HasWritten
            <4>1. CASE t = "current"
                BY <1>1, <2>1, <4>1 DEF HasWritten
            <4>2. CASE t # "current"
                <5>1. protect'["current"] = protect["current"]
                    BY <1>2, <4>2 DEF Threads
                <5>2. bound' = bound
                    BY <1>1, <4>2 DEF UplinkInv, FollowerTypes
                <5> QED  BY <1>1, <5>1, <5>2 DEF HasWritten
            <4> QED  BY <4>1, <4>2
        <3> QED  BY <1>1, <3>2, <3>3 DEF UplinkInv, BindingRight
    <2>2. CASE protect[t].index # pinned
        <3>1. protect'[t].at = "pin"
            BY <1>2, <2>2 DEF PinAgain
        <3>2. Corrects'
            BY <3>1 DEF Corrects
        <3> QED  BY <3>2 DEF BindingRight
    <2> QED  BY <2>1, <2>2
<1>7. LooksRight'
    BY <1>1 DEF UplinkInv, LooksRight
<1> QED  BY <1>4, <1>5, <1>6, <1>7 DEF UplinkInv

(***************************************************************************)
(* The owner's thread and the worker.                                      *)
(***************************************************************************)
LEMMA CaptureKeeps ==
    ASSUME UplinkInv, Capture
    PROVE  UplinkInv'
<1>1. /\ phase \in {"none", "up"} /\ owner = "idle" /\ owner' = "store" /\ captured' = active
      /\ outbound' = IF active # 0 THEN active ELSE outbound
      /\ UNCHANGED <<active, routed, pinned, reported, seen, quiet, looked, late,
                     bound, phase, protect, lingers>>
    BY DEF Capture, network_vars, look_vars, core_vars
<1>2. FollowerTypes'
    BY <1>1 DEF UplinkInv, FollowerTypes
<1>3. OwnerRight' /\ BindingRight' /\ LooksRight'
    BY <1>1 DEF UplinkInv, OwnerRight, BindingRight, LooksRight
<1> QED  BY <1>2, <1>3 DEF UplinkInv

LEMMA StoreKeeps ==
    ASSUME UplinkInv, Store
    PROVE  UplinkInv'
<1>1. /\ owner = "store" /\ pinned' = captured /\ owner' = "idle" /\ late' = 0
      /\ phase' = IF phase = "up" THEN "retiring" ELSE "building"
      /\ protect' = IF phase = "up"
                    THEN [protect EXCEPT !["previous"] = protect["current"], !["current"] = Idle]
                    ELSE protect
      /\ lingers' = (lingers \/ phase = "up")
      /\ UNCHANGED <<active, routed, outbound, reported, seen, quiet, looked, bound, captured>>
    BY DEF Store, network_vars, core_vars
<1>2. protect \in [Threads -> Protects] /\ Idle \in Protects /\ protect["current"] \in Protects
    BY DEF UplinkInv, FollowerTypes, Protects, Idle, Indexes, Threads
<1>3. protect' \in [Threads -> Protects]
    BY <1>1, <1>2 DEF Threads
<1>4. FollowerTypes'
    <2>1. lingers' \in BOOLEAN
        BY <1>1 DEF UplinkInv, FollowerTypes
    <2>2. late' \in Nat
        BY <1>1
    <2> QED  BY <1>1, <1>3, <2>1, <2>2 DEF UplinkInv, FollowerTypes
<1>5. OwnerRight'
    <2>1. CASE phase = "up"
        BY <1>1, <1>2, <2>1 DEF OwnerRight, Threads
    <2>2. CASE phase = "none"
        BY <1>1, <2>2 DEF UplinkInv, OwnerRight
    <2> QED  BY <1>1, <2>1, <2>2 DEF UplinkInv, OwnerRight
<1>6. BindingRight'
    BY <1>1 DEF BindingRight, HasWritten
<1>7. LooksRight'
    BY <1>1 DEF UplinkInv, FollowerTypes, LooksRight
<1> QED  BY <1>4, <1>5, <1>6, <1>7 DEF UplinkInv

LEMMA RetireKeeps ==
    ASSUME UplinkInv, Retire
    PROVE  UplinkInv'
<1>1. /\ phase = "retiring" /\ owner = "idle" /\ phase' = "building" /\ lingers' = FALSE
      /\ UNCHANGED <<active, routed, outbound, pinned, reported, seen, quiet, looked, late,
                     bound, owner, captured, protect>>
    BY DEF Retire, network_vars, binding_vars, look_vars, core_vars
<1>2. FollowerTypes'
    BY <1>1 DEF UplinkInv, FollowerTypes
<1>3. OwnerRight' /\ BindingRight' /\ LooksRight'
    BY <1>1 DEF UplinkInv, OwnerRight, BindingRight, HasWritten, LooksRight
<1> QED  BY <1>2, <1>3 DEF UplinkInv

LEMMA ReadDnsKeeps ==
    ASSUME UplinkInv, ReadDns
    PROVE  UplinkInv'
<1>1. /\ phase = "building" /\ phase' \in {"connecting", "none"} /\ bound' = FALSE
      /\ UNCHANGED <<active, routed, outbound, pinned, reported, seen, quiet, looked, late,
                     owner, captured, protect, lingers>>
    BY DEF ReadDns, network_vars, binding_vars, look_vars
<1>2. protect["current"] = Idle
    BY <1>1 DEF UplinkInv, OwnerRight
<1>3. FollowerTypes'
    BY <1>1 DEF UplinkInv, FollowerTypes
<1>4. OwnerRight' /\ LooksRight'
    BY <1>1, <1>2 DEF UplinkInv, OwnerRight, LooksRight
<1>5. BindingRight'
    BY <1>1, <1>2 DEF BindingRight, HasWritten, Idle
<1> QED  BY <1>3, <1>4, <1>5 DEF UplinkInv

LEMMA FollowerAdoptKeeps ==
    ASSUME UplinkAssumption, UplinkInv, AdoptAttempt
    PROVE  UplinkInv'
<1>1. /\ phase = "connecting" /\ bound /\ phase' = "up"
      /\ reported' = outbound /\ seen' = outbound /\ quiet' = 0 /\ looked' = 0 /\ late' = 0
      /\ UNCHANGED <<active, routed, outbound, pinned, bound, owner, captured, protect,
                     lingers>>
    BY DEF AdoptAttempt, ResetTracking, network_vars, binding_vars
<1>2. FollowerTypes'
    <2>1. 0 \in Indexes /\ 0 \in Nat
        BY DEF Indexes
    <2>2. 0 \in 0..(QuietLooks - 1)
        BY DEF UplinkAssumption
    <2> QED  BY <1>1, <2>1, <2>2 DEF UplinkInv, FollowerTypes
<1>3. OwnerRight'
    BY <1>1 DEF UplinkInv, OwnerRight
<1>4. BindingRight'
    BY <1>1 DEF UplinkInv, BindingRight, HasWritten, Corrects
<1>5. LooksRight'
    BY <1>1 DEF UplinkInv, LooksRight
<1> QED  BY <1>2, <1>3, <1>4, <1>5 DEF UplinkInv

LEMMA DisconnectKeeps ==
    ASSUME UplinkInv, Disconnect
    PROVE  UplinkInv'
<1>1. /\ owner = "idle" /\ phase' = "none" /\ pinned' = 0
      /\ \/ phase = "up" /\ protect["current"] = Idle /\ UNCHANGED <<protect, lingers>>
         \/ /\ lingers' = TRUE
            /\ protect' = [protect EXCEPT !["previous"] = protect["current"], !["current"] = Idle]
      /\ UNCHANGED <<active, routed, outbound, reported, seen, quiet, looked, late, bound,
                     owner, captured>>
    BY DEF Disconnect, network_vars, look_vars, core_vars
<1>2. /\ protect \in [Threads -> Protects] /\ Idle \in Protects
      /\ protect["current"] \in Protects /\ 0 \in Indexes
    BY DEF UplinkInv, FollowerTypes, Protects, Idle, Indexes, Threads
<1>3. protect' \in [Threads -> Protects] /\ protect'["current"] = Idle
    BY <1>1, <1>2 DEF Threads
<1>4. FollowerTypes'
    BY <1>1, <1>2, <1>3 DEF UplinkInv, FollowerTypes
<1>5. OwnerRight' /\ BindingRight' /\ LooksRight'
    BY <1>1, <1>3 DEF UplinkInv, OwnerRight, BindingRight, LooksRight
<1> QED  BY <1>4, <1>5 DEF UplinkInv

LEMMA DroppedEndsKeeps ==
    ASSUME UplinkInv, DroppedEnds
    PROVE  UplinkInv'
<1>1. /\ lingers' = FALSE
      /\ UNCHANGED <<active, routed, outbound, pinned, reported, seen, quiet, looked, late,
                     bound, phase, owner, captured, protect>>
    BY DEF DroppedEnds, network_vars, binding_vars, look_vars, core_vars
<1>2. FollowerTypes'
    BY <1>1 DEF UplinkInv, FollowerTypes
<1>3. OwnerRight' /\ BindingRight' /\ LooksRight'
    BY <1>1 DEF UplinkInv, OwnerRight, BindingRight, HasWritten, Corrects, LooksRight
<1> QED  BY <1>2, <1>3 DEF UplinkInv

(***************************************************************************)
(* The follower.                                                           *)
(***************************************************************************)
LEMMA QuietLookKeeps ==
    ASSUME UplinkAssumption, UplinkInv, QuietLook
    PROVE  UplinkInv'
<1>1. /\ reported = 0 /\ ~routed /\ quiet + 1 < QuietLooks /\ quiet' = quiet + 1
      /\ looked' = active /\ late' = (IF active = reported' THEN 0 ELSE late + 1)
      /\ UNCHANGED <<active, routed, outbound, pinned, reported, seen,
                     bound, phase, owner, captured, protect, lingers>>
    BY DEF QuietLook, StaysQuiet, Behind, network_vars, binding_vars, core_vars
<1>2. late \in Nat /\ quiet \in 0..(QuietLooks - 1) /\ QuietLooks \in Nat
    BY DEF UplinkInv, FollowerTypes, UplinkAssumption
<1>3. FollowerTypes'
    <2>1. quiet' \in 0..(QuietLooks - 1) /\ late' \in Nat
        BY <1>1, <1>2
    <2> QED  BY <1>1, <2>1 DEF UplinkInv, FollowerTypes
<1>4. OwnerRight' /\ BindingRight'
    BY <1>1 DEF UplinkInv, OwnerRight, BindingRight, HasWritten, Corrects
<1>5. LooksRight'
    <2>1. late' <= quiet'
        BY <1>1, <1>2 DEF UplinkInv, LooksRight
    <2>2. "disagree" \notin UplinkHappens => late' = 0
        BY <1>1 DEF UplinkInv, LooksRight
    <2> QED  BY <1>1, <2>1, <2>2 DEF UplinkInv, LooksRight
<1> QED  BY <1>3, <1>4, <1>5 DEF UplinkInv

LEMMA LookKeeps ==
    ASSUME UplinkAssumption, UplinkInv, Look
    PROVE  UplinkInv'
<1>1. /\ phase = "up" /\ owner = "idle"
      /\ quiet' = 0 /\ seen' = active /\ looked' = active
      /\ late' = (IF active = reported' THEN 0 ELSE late + 1)
      /\ \/ (~Settled \/ active = reported) /\ UNCHANGED <<outbound, pinned, reported, owner>>
         \/ Settled /\ reported' = active /\ active = 0 /\ UNCHANGED <<outbound, pinned, owner>>
         \/ Settled /\ reported' = active /\ pinned' = active /\ owner' = "set"
            /\ UNCHANGED outbound
      /\ UNCHANGED <<active, routed, bound, phase, captured, protect, lingers>>
    BY DEF Look, Behind, network_vars, binding_vars
<1>2. late \in Nat /\ QuietLooks \in Nat \ {0}
    BY DEF UplinkInv, FollowerTypes, UplinkAssumption
<1>3. FollowerTypes'
    <2>1. quiet' \in 0..(QuietLooks - 1) /\ late' \in Nat
        BY <1>1, <1>2
    <2> QED  BY <1>1, <2>1 DEF UplinkInv, FollowerTypes
<1>4. OwnerRight'
    BY <1>1 DEF UplinkInv, OwnerRight
<1>5. BindingRight'
    BY <1>1 DEF UplinkInv, BindingRight, HasWritten, Corrects
<1>6. LooksRight'
    <2>1. reported' # 0 => late' <= 1 /\ (late' = 1 => seen' = active')
        <3>1. CASE active = reported'
            BY <1>1, <3>1
        <3>2. CASE active # reported'
            <4>1. ~Settled /\ reported' = reported
                BY <1>1, <3>2
            <4>2. reported # 0 /\ active # seen
                BY <4>1 DEF Settled
            <4>3. late = 0
                BY <1>2, <4>2 DEF UplinkInv, LooksRight
            <4> QED  BY <1>1, <4>3
        <3> QED  BY <3>1, <3>2
    <2>2. reported' = 0 => late' = 0
        <3>1. CASE ~Settled \/ active = reported
            BY <1>1, <3>1 DEF Settled
        <3>2. CASE ~(~Settled \/ active = reported)
            BY <1>1, <3>2
        <3> QED  BY <3>1, <3>2
    <2> QED  BY <1>1, <2>1, <2>2 DEF UplinkInv, LooksRight
<1> QED  BY <1>3, <1>4, <1>5, <1>6 DEF UplinkInv

LEMMA SetKeeps ==
    ASSUME UplinkInv, Set
    PROVE  UplinkInv'
<1>1. /\ owner = "set" /\ outbound' = reported /\ owner' = "tell"
      /\ UNCHANGED <<active, routed, pinned, reported, seen, quiet, looked, late,
                     bound, phase, captured, protect, lingers>>
    BY DEF Set, network_vars, look_vars, core_vars
<1>2. FollowerTypes'
    BY <1>1 DEF UplinkInv, FollowerTypes
<1>3. OwnerRight' /\ BindingRight' /\ LooksRight'
    BY <1>1 DEF UplinkInv, OwnerRight, BindingRight, LooksRight
<1> QED  BY <1>2, <1>3 DEF UplinkInv

LEMMA TellKeeps ==
    ASSUME UplinkInv, Tell
    PROVE  UplinkInv'
<1>1. /\ owner = "tell" /\ owner' = "idle"
      /\ UNCHANGED <<active, routed, outbound, pinned, reported, seen, quiet, looked, late,
                     bound, phase, captured, protect, lingers>>
    BY DEF Tell, network_vars, binding_vars, look_vars
<1>2. FollowerTypes'
    BY <1>1 DEF UplinkInv, FollowerTypes
<1>3. OwnerRight' /\ BindingRight' /\ LooksRight'
    BY <1>1 DEF UplinkInv, OwnerRight, BindingRight, HasWritten, Corrects, LooksRight
<1> QED  BY <1>2, <1>3 DEF UplinkInv

(***************************************************************************)
(* The theorems.                                                           *)
(***************************************************************************)
LEMMA UplinkStarts ==
    ASSUME UplinkAssumption, UplinkInit
    PROVE  UplinkInv
<1>1. FollowerTypes
    <2>1. 0 \in Indexes /\ 0 \in Nat /\ 0 \in 0..(QuietLooks - 1)
        BY DEF Indexes, UplinkAssumption
    <2>2. protect \in [Threads -> Protects]
        BY <2>1 DEF UplinkInit, Protects, Idle
    <2>3. routed \in BOOLEAN /\ bound \in BOOLEAN /\ lingers \in BOOLEAN
        BY DEF UplinkInit
    <2> QED  BY <2>1, <2>2, <2>3 DEF UplinkInit, FollowerTypes
<1>2. OwnerRight /\ BindingRight /\ LooksRight
    BY DEF UplinkInit, OwnerRight, BindingRight, LooksRight, Threads
<1> QED  BY <1>1, <1>2 DEF UplinkInv

LEMMA UplinkStep ==
    ASSUME UplinkAssumption, UplinkInv, [UplinkNext]_uplink_vars
    PROVE  UplinkInv'
<1>1. CASE \E a \in Indexes, r \in BOOLEAN : NetworkMoves(a, r)
    BY <1>1, NetworkMovesKeeps
<1>2. CASE \E t \in Threads : Load(t) \/ Pin(t) \/ Check(t)
    BY <1>2, LoadKeeps, PinKeeps, CheckKeeps
<1>3. CASE Capture \/ Store \/ Retire \/ ReadDns \/ AdoptAttempt \/ Disconnect \/ DroppedEnds
    BY <1>3, CaptureKeeps, StoreKeeps, RetireKeeps, ReadDnsKeeps, FollowerAdoptKeeps,
       DisconnectKeeps, DroppedEndsKeeps
<1>4. CASE QuietLook \/ Look \/ Set \/ Tell
    BY <1>4, QuietLookKeeps, LookKeeps, SetKeeps, TellKeeps
<1>5. CASE UNCHANGED uplink_vars
    BY <1>5 DEF uplink_vars, network_vars, binding_vars, look_vars, core_vars, UplinkInv, FollowerTypes,
                OwnerRight, BindingRight, HasWritten, Corrects, LooksRight
<1> QED  BY <1>1, <1>2, <1>3, <1>4, <1>5 DEF UplinkNext

LEMMA UplinkInvHolds ==
    UplinkSpec => []UplinkInv
<1>0. UplinkAssumption
    BY UplinkConstants
<1>1. UplinkInit => UplinkInv
    BY <1>0, UplinkStarts
<1>2. UplinkInv /\ [UplinkNext]_uplink_vars => UplinkInv'
    BY <1>0, UplinkStep
<1> QED  BY <1>1, <1>2, PTL DEF UplinkSpec

LEMMA BindingIsNewest ==
    ASSUME UplinkInv
    PROVE  BoundToTheLast
<1>1. SUFFICES ASSUME phase = "up", owner = "idle", pinned # 0,
                      \A t \in Threads : protect[t] = Idle
               PROVE  outbound = pinned
    BY DEF BoundToTheLast
<1>2. ~Corrects
    BY <1>1 DEF Corrects, Idle
<1> QED  BY <1>1, <1>2 DEF UplinkInv, BindingRight, HasWritten

LEMMA LooksCatchUp ==
    ASSUME UplinkAssumption, UplinkInv
    PROVE  CaughtUpInTime
<1>1. late \in Nat /\ quiet \in 0..(QuietLooks - 1) /\ QuietLooks \in Nat
    BY DEF UplinkInv, FollowerTypes, UplinkAssumption
<1>2. /\ reported = 0 => late <= quiet
      /\ reported = 0 /\ "disagree" \notin UplinkHappens => late = 0
      /\ reported # 0 => late <= 1
    BY DEF UplinkInv, LooksRight
<1> QED  BY <1>1, <1>2 DEF CaughtUpInTime

(* Whoever writes the process's binding last writes the adapter the owner  *)
(* stored last (protectOutboundSocket() against reportUplink()), and a     *)
(* session that is up has been told of a move in a look or two.            *)
THEOREM UplinkIsPinned ==
    UplinkSpec => [](UplinkTypeOK /\ PinnedToTheNewest)
<1>1. UplinkInv => UplinkTypeOK
    BY DEF UplinkInv, FollowerTypes, OwnerRight, UplinkTypeOK, Protects
<1>2. UplinkInv => PinnedToTheNewest
    BY BindingIsNewest, LooksCatchUp, UplinkConstants DEF PinnedToTheNewest
<1> QED  BY <1>1, <1>2, UplinkInvHolds, PTL

(* A session that works moves only to an adapter two looks in a row found  *)
(* (followUplink()).                                                       *)
THEOREM UplinkBlipIsNotAMove ==
    UplinkSpec => [][BlipIsNotAMove]_uplink_vars
<1>1. ASSUME UplinkInv, UplinkNext, phase = "up", phase' = "up", reported' # reported,
             reported # 0
      PROVE  looked = active
    <2>1. Look
        <3>1. CASE \E a \in Indexes, r \in BOOLEAN : NetworkMoves(a, r)
            BY <1>1, <3>1 DEF NetworkMoves
        <3>2. CASE \E t \in Threads : Load(t) \/ Pin(t) \/ Check(t)
            BY <1>1, <3>2 DEF Load, Pin, Check, look_vars
        <3>3. CASE Capture \/ Store \/ Retire \/ ReadDns \/ AdoptAttempt \/ Disconnect \/ DroppedEnds
            BY <1>1, <3>3 DEF Capture, Store, Retire, ReadDns, AdoptAttempt, Disconnect, DroppedEnds,
                              look_vars
        <3>4. CASE QuietLook \/ Set \/ Tell
            BY <1>1, <3>4 DEF QuietLook, Set, Tell, look_vars
        <3> QED  BY <1>1, <3>1, <3>2, <3>3, <3>4 DEF UplinkNext
    <2>2. Settled /\ active # reported
        BY <1>1, <2>1 DEF Look
    <2>3. active = seen /\ seen # reported
        BY <1>1, <2>2 DEF Settled
    <2> QED  BY <1>1, <2>3 DEF UplinkInv, LooksRight
<1>2. UplinkInv /\ [UplinkNext]_uplink_vars => [BlipIsNotAMove]_uplink_vars
    BY <1>1 DEF BlipIsNotAMove
<1> QED  BY <1>2, UplinkInvHolds, PTL DEF UplinkSpec
==============================================================================
