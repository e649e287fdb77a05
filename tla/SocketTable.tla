---------------------------- MODULE SocketTable ----------------------------
(***************************************************************************)
(* The table of socket owners (SocketOwnerTable, core/ProcessLookup.cpp):  *)
(* a walk records the sockets of one protocol and port number in whatever  *)
(* order the system names them, and find() then chooses the row that can   *)
(* be the socket behind a flow.  Several sockets share a port number: on   *)
(* different addresses, in the two families, and on the same address (a    *)
(* listener and the connections accepted on it).                           *)
(***************************************************************************)
EXTENDS Integers, FiniteSets, Sequences

CONSTANTS
    Addresses,      \* IPv4 addresses
    Addresses6,     \* IPv6 addresses that carry no IPv4 one
    Pids,           \* the watched programs' processes
    Any,            \* bound to every address
    Unattributed,   \* kUnattributed
    MaxSockets      \* bound: sockets open on the port

TableAssumption ==
    /\ Any \notin Addresses \cup Addresses6 /\ Addresses \cap Addresses6 = {}
    /\ Unattributed \notin Pids /\ MaxSockets \in Nat

VARIABLES
    open,       \* the sockets of the machine on this port
    left,       \* those the walk has not recorded yet
    tells,      \* the system says which sockets take no IPv4
    sockets,    \* m_sockets: owner by family and address
    ports,      \* m_ports: owner by family
    only6       \* m_ipv6OnlyWildcards: [::] on this port takes no IPv4

vars == <<open, left, tells, sockets, ports, only6>>

(* How an IPv6 socket spells an IPv4 address, or all of them. *)
Mapped(a) == <<"::ffff", a>>
Spellings == Addresses6 \cup {Any} \cup {Mapped(a) : a \in Addresses \cup {Any}}
Keys == ({4} \X (Addresses \cup {Any})) \cup ({6} \X Spellings)
Owners == Pids \cup {Unattributed}

(* A socket: its family and address, whether it refuses IPv4, its owner,   *)
(* and a number that tells two on one address apart.                       *)
Sockets == [key : Keys, v6only : BOOLEAN, pid : Owners, nr : 1..2]

(* The system keeps one answer about IPv4 for [::] on a port. *)
Socket(k, no4, pid, nr) ==
    [key |-> k, v6only |-> no4 /\ k = <<6, Any>>, pid |-> pid, nr |-> nr]

(* A flow: the address it came from, or none, and its family. *)
Flows == [family : {4, 6}, ip : {<<4, a>> : a \in Addresses}
                               \cup {<<6, g>> : g \in Addresses6} \cup {Any}]

TypeOK ==
    /\ open \subseteq Sockets /\ left \subseteq open
    /\ tells \in BOOLEAN /\ only6 \in BOOLEAN
    /\ DOMAIN sockets \subseteq Keys /\ DOMAIN ports \subseteq {4, 6}
    /\ \A k \in DOMAIN sockets : sockets[k] \in Owners
    /\ \A f \in DOMAIN ports : ports[f] \in Owners
    /\ \A s \in open \ left : s.key \in DOMAIN sockets /\ s.key[1] \in DOMAIN ports

----------------------------------------------------------------------------
(* Mutant of KeepFirstOwner: the first owner stays, nobody watched too. *)
FirstStays(owners, k, pid) ==
    [x \in DOMAIN owners \cup {k} |-> IF x \in DOMAIN owners THEN owners[x] ELSE pid]

(* keepFirstOwner(): the first owner stays, unless it is nobody watched. *)
KeepFirstOwner(owners, k, pid) ==
    [x \in DOMAIN owners \cup {k} |->
        IF x # k THEN owners[x]
        ELSE IF k \in DOMAIN owners /\ owners[k] # Unattributed
             THEN owners[k] ELSE pid]

(* record() *)
Record(s) ==
    /\ left' = left \ {s}
    /\ sockets' = KeepFirstOwner(sockets, s.key, s.pid)
    /\ ports' = KeepFirstOwner(ports, s.key[1], s.pid)
    /\ only6' = (only6 \/ (tells /\ s.v6only /\ s.key = <<6, Any>>))
    /\ UNCHANGED <<open, tells>>

NoMatch == [found |-> FALSE, pid |-> Unattributed, byAddress |-> FALSE]

(* The rows that can be the flow's socket, most specific first. *)
Candidates(ip) ==
    IF ip[1] = 6 THEN <<<<6, ip[2]>>, <<6, Any>>>>
    ELSE <<<<4, ip[2]>>, <<4, Any>>, <<6, Mapped(ip[2])>>, <<6, Mapped(Any)>>>>
         \o (IF only6 THEN <<>> ELSE <<<<6, Any>>>>)

FirstIn(keys, owners, byAddress) ==
    LET hits == {i \in DOMAIN keys : keys[i] \in DOMAIN owners}
        first == CHOOSE i \in hits : \A j \in hits : i <= j
    IN  IF hits = {} THEN NoMatch
        ELSE [found |-> TRUE, pid |-> owners[keys[first]], byAddress |-> byAddress]

(* find(): by the flow's own address, or by port number alone. *)
Find(f) ==
    IF f.ip = Any THEN FirstIn(<<f.family, 10 - f.family>>, ports, FALSE)
    ELSE FirstIn(Candidates(f.ip), sockets, TRUE)

----------------------------------------------------------------------------
Init ==
    /\ \E k \in SUBSET Keys, no4 \in BOOLEAN :
        /\ Cardinality(k) <= MaxSockets
        /\ \E first \in [k -> Owners], second \in Owners, twice \in SUBSET k :
            /\ Cardinality(twice) <= 1
            /\ open = {Socket(x, no4, first[x], 1) : x \in k}
                        \cup {Socket(x, no4, second, 2) : x \in twice}
    /\ left = open /\ tells \in BOOLEAN
    /\ sockets = <<>> /\ ports = <<>> /\ only6 = FALSE

Next == \E s \in left : Record(s)
Spec == Init /\ [][Next]_vars

----------------------------------------------------------------------------
(* Properties, of a walk that is through *)

(* What the system itself would deliver the flow's packets to, and how     *)
(* closely each such socket is bound to the flow's address.                *)
Bound(s, f) ==
    LET family == s.key[1]
        to == s.key[2]
    IN  IF f.ip[1] = 6
        THEN IF family # 6 THEN 0 ELSE IF to = f.ip[2] THEN 2 ELSE IF to = Any THEN 1 ELSE 0
        ELSE IF family = 4
        THEN IF to = f.ip[2] THEN 5 ELSE IF to = Any THEN 4 ELSE 0
        ELSE IF to = Mapped(f.ip[2]) THEN 3
             ELSE IF to = Mapped(Any) THEN 2
             ELSE IF to = Any /\ ~(tells /\ s.v6only) THEN 1 ELSE 0

Carriers(f) == {s \in open : Bound(s, f) > 0}
Closest(f) == {s \in Carriers(f) : \A t \in Carriers(f) : Bound(t, f) <= Bound(s, f)}

(* The row found for a flow is the socket that would carry it, the most    *)
(* closely bound one, and it is found whenever there is one; of several on *)
(* one address a watched program's answers, in whatever order the walk     *)
(* came to them.                                                           *)
OwnSocketAnswers ==
    \A f \in Flows : (left = {} /\ f.ip # Any) =>
        LET owners == {s.pid : s \in Closest(f)}
        IN  /\ Find(f).found = (Carriers(f) # {})
            /\ Find(f).found =>
                 Find(f).pid \in (IF owners = {Unattributed} THEN owners
                                  ELSE owners \ {Unattributed})

(* A flow without its address is found whenever anything is open on its    *)
(* port number, in either family.                                          *)
BareFlowFound ==
    \A f \in Flows : (left = {} /\ f.ip = Any) => Find(f).found = (open # {})
=============================================================================
