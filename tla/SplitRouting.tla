---------------------------- MODULE SplitRouting ----------------------------
(***************************************************************************)
(* Where a connection goes (QtTrustTunnelClient, split tunnelling).  Two   *)
(* places decide: the program rules, on the wrapper's own thread when the  *)
(* connection arrives, and the mode and the addresses, in the core when it *)
(* completes the connection, in the order its queue was filled.  An edit   *)
(* on the owner's thread changes the two one after the other, and a        *)
(* session is built from the settings of the moment its attempt began and  *)
(* adopted later.                                                          *)
(***************************************************************************)
EXTENDS Integers, Sequences, FiniteSets, SequencesExt

CONSTANTS
    Programs, Addresses,    \* what connects, and to where
    None,                   \* no edit, no core, no connection
    MaxEdits, MaxQueue,     \* bounds: edits, and what waits in the core
    Happens                 \* what happens: "burst", "early"

VARIABLES
    user,       \* the settings the GUI asked for last
    work,       \* m_selectiveMode and the exclusions: the working set
    snap,       \* m_appRules: what the wrapper's thread reads
    session,    \* "none", "starting", "up": m_client is there
    built,      \* the routing the attempt was built with
    given,      \* m_sessionRouting
    core,       \* the routing the core applies, None while it has no listener
    queue,      \* the core's queue: connections, and at most one update
    edit,       \* steps the edit under way has left
    asked,      \* the connection being decided, with the snapshot it was read by
    last,       \* the connection completed last, and where it went
    inForce,    \* the settings in force: the old ones first while an edit is under way
    builtBy,    \* the settings the attempt was built by
    made        \* edits made

vars == <<user, work, snap, session, built, given, core, queue, edit, asked,
          last, inForce, builtBy, made>>
ghosts == <<inForce, builtBy, made>>
session_vars == <<session, built, given, core>>

(* What the GUI sends: "Through VPN" with nothing listed is the full       *)
(* tunnel.                                                                 *)
Settings == {s \in [selective : BOOLEAN, addresses : SUBSET Addresses,
                    rules : SUBSET Programs] :
                s.selective => s.addresses # {} \/ s.rules # {}}
Routings == [selective : BOOLEAN, addresses : SUBSET Addresses]
Routing(s) == [selective |-> s.selective, addresses |-> s.addresses]
Rules(s) == [selective |-> s.selective, rules |-> s.rules]

RoutingAssumption == MaxEdits \in Nat /\ MaxQueue \in Nat /\ None \notin Routings

ASSUME RoutingConstants == RoutingAssumption

Updates == {i \in DOMAIN queue : queue[i].kind = "update"}

TypeOK ==
    /\ user \in Settings /\ work \in Routings
    /\ session \in {"none", "starting", "up"}
    /\ given \in Routings \cup {None} /\ core \in Routings \cup {None}
    /\ edit \in {<<>>, <<"core", "rules">>, <<"rules">>, <<"core">>, <<"rules", "core">>}
    /\ Cardinality(Updates) <= 1
    /\ core = None => queue = <<>>

----------------------------------------------------------------------------
(* The program rules: connectionAction() *)

(* appMatchesRules(): a rule names the program. *)
Matches(p, rules) == p \in rules

AppActionFor(p, s) ==
    IF ~Matches(p, s.rules) THEN "default" ELSE IF s.selective THEN "tunnel" ELSE "bypass"

(* A connection nobody could look at has no program; in "Through VPN" it   *)
(* stays in the tunnel.                                                    *)
ConnectionAction(p, s, skipped) ==
    IF skipped THEN IF s.selective THEN "tunnel" ELSE "default"
    ELSE AppActionFor(p, s)

(* The core's own rule for what is left to it. *)
CoreRoute(a, r) == IF (a \in r.addresses) = r.selective THEN "tunnel" ELSE "out"
Completed(action, a, r) ==
    CASE action = "tunnel" -> "tunnel" [] action = "bypass" -> "out"
      [] OTHER -> CoreRoute(a, r)

(* Where settings send a connection. *)
Expected(s, c) == Completed(AppActionFor(c.program, s), c.address, Routing(s))

----------------------------------------------------------------------------
(* What is in force is noted with every connection on its way. *)
Seeing(c, s) == [c EXCEPT !.seen = Append(@, s)]
Noted(q, s) == [i \in DOMAIN q |-> IF q[i].kind = "update" THEN q[i]
                                   ELSE [q[i] EXCEPT !.conn = Seeing(@, s)]]

(* The owner's thread.  The core takes one pending update; the next one    *)
(* cancels it and takes a place of its own at the end.                     *)
Update(r) == [kind |-> "update", routing |-> r]

Handed(q, r) ==
    LET pending == {i \in DOMAIN q : q[i].kind = "update"}
    IN  Append(IF pending = {} THEN q ELSE RemoveAt(q, CHOOSE i \in pending : TRUE), Update(r))

(* applyRoutingToSession() *)
ApplyRouting(r, had) ==
    /\ given' = r
    /\ queue' = IF r = had THEN queue ELSE Handed(queue, r)

(* Mutant of Steps: the program rules change first. *)
RulesFirst == <<"rules", "core">>

(* setSplitRouting(): the working set at once, then the core, then the     *)
(* program rules.                                                          *)
Steps == <<"core", "rules">>

Edit(s) ==
    /\ edit = <<>> /\ made < MaxEdits /\ s # user
    /\ Updates # {} => "burst" \in Happens
    /\ made' = made + 1 /\ inForce' = <<user, s>>
    /\ user' = s /\ work' = Routing(s) /\ edit' = Steps
    /\ asked' = IF asked = None THEN None ELSE Seeing(asked, s)
    /\ queue' = Noted(queue, s)
    /\ last' = None
    /\ UNCHANGED <<snap, session_vars, builtBy>>

(* Without a session the next one is built from the working set. *)
EditCore ==
    /\ edit # <<>> /\ Head(edit) = "core"
    /\ edit' = Tail(edit)
    /\ inForce' = IF Tail(edit) = <<>> THEN <<user>> ELSE inForce
    /\ IF session = "up" THEN ApplyRouting(work, given) ELSE UNCHANGED <<given, queue>>
    /\ last' = None
    /\ UNCHANGED <<user, work, snap, session, built, core, asked, builtBy, made>>

EditRules ==
    /\ edit # <<>> /\ Head(edit) = "rules"
    /\ edit' = Tail(edit) /\ snap' = Rules(user)
    /\ inForce' = IF Tail(edit) = <<>> THEN <<user>> ELSE inForce
    /\ last' = None
    /\ UNCHANGED <<user, work, session_vars, queue, asked, builtBy, made>>

(* An attempt: built from the working set (prepareAttempt()), up on the    *)
(* worker's thread, adopted on the owner's.                                *)
Attempt ==
    /\ edit = <<>> /\ session = "none"
    /\ session' = "starting" /\ built' = work /\ builtBy' = user
    /\ last' = None
    /\ UNCHANGED <<user, work, snap, given, core, queue, edit, asked,
                   inForce, made>>

CoreUp ==
    /\ session = "starting" /\ core = None
    /\ core' = built
    /\ last' = None
    /\ UNCHANGED <<user, work, snap, session, built, given, queue, edit, asked, ghosts>>

(* Mutant of Adopt: a session comes up with the settings it was built by.  *)
AdoptAsBuilt ==
    /\ session = "starting" /\ core # None /\ edit = <<>>
    /\ session' = "up" /\ given' = built
    /\ last' = None
    /\ UNCHANGED <<user, work, snap, built, core, queue, edit, asked, ghosts>>

Adopt ==
    /\ session = "starting" /\ core # None /\ edit = <<>>
    /\ session' = "up" /\ ApplyRouting(work, built)
    /\ last' = None
    /\ UNCHANGED <<user, work, snap, built, core, edit, asked, ghosts>>

(* The session ends, for whatever reason, and its core with it. *)
SessionEnds ==
    /\ edit = <<>> /\ session # "none"
    /\ session' = "none" /\ core' = None /\ given' = None /\ built' = None /\ builtBy' = None
    /\ queue' = <<>> /\ asked' = None /\ last' = None
    /\ UNCHANGED <<user, work, snap, edit, inForce, made>>

----------------------------------------------------------------------------
(* The wrapper's thread, one connection at a time, and the core's *)

(* The rules are read under their lock, the program looked up after. *)
Arrives(p, a) ==
    /\ core # None /\ asked = None /\ Len(queue) < MaxQueue
    /\ session = "up" \/ "early" \in Happens
    /\ asked' = [program |-> p, address |-> a, by |-> snap,
                 seen |-> (IF session = "up" THEN <<>> ELSE <<builtBy>>) \o inForce]
    /\ last' = None
    /\ UNCHANGED <<user, work, snap, session_vars, queue, edit, ghosts>>

Decide(skipped) ==
    /\ asked # None
    /\ skipped => asked.by.rules # {}
    /\ queue' = Append(queue, [kind |-> "conn", conn |-> asked,
                               action |-> ConnectionAction(asked.program, asked.by, skipped)])
    /\ asked' = None /\ last' = None
    /\ UNCHANGED <<user, work, snap, session_vars, edit, ghosts>>

CoreUpdates ==
    /\ queue # <<>> /\ Head(queue).kind = "update"
    /\ core' = Head(queue).routing /\ queue' = Tail(queue)
    /\ last' = None
    /\ UNCHANGED <<user, work, snap, session, built, given, edit, asked, ghosts>>

CoreCompletes ==
    /\ queue # <<>> /\ Head(queue).kind = "conn"
    /\ LET h == Head(queue)
       IN  last' = [conn |-> h.conn, way |-> Completed(h.action, h.conn.address, core)]
    /\ queue' = Tail(queue)
    /\ UNCHANGED <<user, work, snap, session_vars, edit, asked, ghosts>>
----------------------------------------------------------------------------
Init ==
    /\ user \in Settings /\ work = Routing(user) /\ snap = Rules(user)
    /\ session = "none" /\ built = None /\ given = None /\ core = None
    /\ queue = <<>> /\ edit = <<>> /\ asked = None /\ last = None
    /\ inForce = <<user>> /\ builtBy = None /\ made = 0

Next ==
    \/ \E s \in Settings : Edit(s)
    \/ EditCore
    \/ EditRules
    \/ Attempt
    \/ CoreUp
    \/ Adopt
    \/ SessionEnds
    \/ \E p \in Programs, a \in Addresses : Arrives(p, a)
    \/ \E skipped \in BOOLEAN : Decide(skipped)
    \/ CoreUpdates
    \/ CoreCompletes

Spec == Init /\ [][Next]_vars

----------------------------------------------------------------------------
(* Properties *)

(* A program listed in "Through VPN" after its connection was looked at    *)
(* under one of these settings.                                            *)
ListedMeanwhile(before) ==
    LET seen == last.conn.seen
    IN  \E i, j \in DOMAIN seen :
          /\ i < j /\ seen[i] \in before /\ seen[j].selective
          /\ last.conn.program \in seen[j].rules \ seen[i].rules

(* A connection leaves the tunnel only where settings that were in force   *)
(* between the look at it and its completion send it out.                  *)
Seen == ToSet(last.conn.seen)

GoesByOneSetting ==
    (last # None /\ last.way = "out") =>
        \E s \in Seen : Expected(s, last.conn) = "out"

(* ... and never for a mixture of two settings that each keep it in, but   *)
(* for a program that was looked at before it was listed in "Through VPN". *)
NoMixedLeak ==
    \/ GoesByOneSetting
    \/ ListedMeanwhile(Seen)

(* Once the edits and the core's queue are through, the core and the       *)
(* program rules both are the settings asked for last, whatever happened   *)
(* to the updates on the way and wherever in an attempt the edit fell.     *)
SettledIsLast ==
    (session = "up" /\ edit = <<>> /\ Updates = {}) =>
        core = Routing(user) /\ given = core /\ snap = Rules(user)
=============================================================================
