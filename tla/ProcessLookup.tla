--------------------------- MODULE ProcessLookup ---------------------------
(***************************************************************************)
(* Which program opened a connection (core/ProcessLookup.cpp and           *)
(* ProcessLookupWalk.cpp).  The core asks about one connection at a time,  *)
(* on the loop of its wrapper; the machine goes on opening and closing     *)
(* sockets meanwhile.  The lookup keeps the sockets the last walk of the   *)
(* machine saw, walks again when that table is too old or does not have    *)
(* the socket, and pays for its walks out of a credit that fills with      *)
(* time.                                                                   *)
(*                                                                         *)
(* A socket is its local address and port; the choice among several of     *)
(* them is SocketTable's.  Time is counted in ticks, and a walk costs      *)
(* credit: one tick earns one unit, which is a quarter of real time.  The  *)
(* time a walk itself takes earns nothing here.                            *)
(***************************************************************************)
EXTENDS Integers, FiniteSets, FiniteSetsExt

CONSTANTS
    Pids,           \* process ids
    Socks,          \* local addresses and ports
    Programs,       \* executables
    None,           \* no process, no program, no connection
    Unseen,         \* no row for this socket
    Unattributed,   \* kUnattributed: seen, and no watched program holds it
    Platforms,      \* the systems looked at, of "linux", "macos", "windows"
    Costs,          \* what a walk may cost, in units of credit
    Cap,            \* kLookCreditCapUs
    TtlFactor, MinTtl, Ttl,   \* 20 times the cost, 100 ms, and m_ttl
    MaxDebt,        \* bound: the rules are edited only while less than this is owed
    Happens         \* what happens: "fails", "secondFails", "edit", "exec", "race",
                    \* "unreadable"

LookupAssumption ==
    /\ Costs \subseteq Nat \ {0} /\ Costs # {} /\ Cap \in Nat /\ MaxDebt \in Nat /\ Ttl \in Nat
    /\ MinTtl \in 1..Ttl /\ TtlFactor \in Nat \ {0}
    /\ Platforms \subseteq {"linux", "macos", "windows"}
    /\ None \notin Pids \cup Programs /\ {Unseen, Unattributed} \cap Pids = {}

VARIABLES
    platform,   \* the system
    holder,     \* which process holds each socket
    runs,       \* the program each process runs
    watch,      \* m_watch: the programs the rules name
    rows,       \* m_owners: what the last walk saw of each socket
    built,      \* m_everBuilt: that walk was complete
    failed,     \* m_walkFailed
    cost,       \* m_report.elapsedUs of that walk, 0 for none
    age,        \* ticks since m_builtAt, no further than Ttl
    credit,     \* m_credit
    waited,     \* ticks since m_creditAt, no further than would fill it
    step,       \* where resolve() is: "idle", "walk", "look", "done"
    flow,       \* the socket being asked about
    fresh,      \* m_builtAt >= asked
    again,      \* this is the second walk for this connection
    todo,       \* what the walk has left to read
    inodes,     \* Linux: the sockets of the watched processes read so far
    whole,      \* the walk has read everything it set out to read
    handed,     \* sockets that changed hands since their row was written
    said        \* the last answer, and what was true when it was given

machine == <<platform, holder, runs>>
budget  == <<credit, waited>>
table   == <<rows, built, failed, cost, age>>
asking  == <<step, flow, fresh, again>>
walking == <<todo, inodes, whole>>
vars == <<machine, watch, budget, table, asking, walking, handed, said>>

NoRows == [s \in Socks |-> Unseen]
Nothing == [s \in Socks |-> None]
NoAnswer == [sock |-> None, program |-> None, skipped |-> FALSE,
             truth |-> None, handed |-> FALSE, age |-> 0]

TypeOK ==
    /\ platform \in Platforms
    /\ holder \in [Socks -> Pids \cup {None}] /\ runs \in [Pids -> Programs]
    /\ watch \in SUBSET Programs
    /\ rows \in [Socks -> Pids \cup {Unseen, Unattributed}]
    /\ built \in BOOLEAN /\ failed \in BOOLEAN /\ cost \in Costs \cup {0}
    /\ age \in 0..Ttl /\ credit \in Int /\ credit <= Cap /\ waited \in Nat
    /\ step \in {"idle", "walk", "look", "done"} /\ flow \in Socks \cup {None}
    /\ fresh \in BOOLEAN /\ again \in BOOLEAN /\ whole \in BOOLEAN
    /\ todo \subseteq Pids \cup Socks \cup {"list", "dump"}
    /\ inodes \in [Socks -> Pids \cup {None}] /\ handed \subseteq Socks
    /\ (step = "idle") = (flow = None) /\ ~(built /\ failed)

(* The program a rule names behind a socket, as the system has it now. *)
Listed(p) == IF p # None /\ runs[p] \in watch THEN runs[p] ELSE None

----------------------------------------------------------------------------
(* The machine.  A program waiting for its connection keeps the socket. *)

(* On Linux the walk reads the watched processes first and the sockets     *)
(* after; nothing opens between the two unless "race" may happen.          *)
MachineMoves(s) ==
    /\ s # flow
    /\ step = "walk" /\ platform = "linux" => "race" \in Happens

Open(p, s) ==
    /\ MachineMoves(s) /\ holder[s] = None
    /\ said' = NoAnswer
    /\ holder' = [holder EXCEPT ![s] = p]
    /\ inodes' = [inodes EXCEPT ![s] = None]
    /\ handed' = handed \cup {s}
    /\ UNCHANGED <<platform, runs, watch, budget, table, asking, todo, whole>>

Close(s) ==
    /\ MachineMoves(s) /\ holder[s] # None
    /\ said' = NoAnswer
    /\ holder' = [holder EXCEPT ![s] = None]
    /\ handed' = handed \cup {s}
    /\ UNCHANGED <<platform, runs, watch, budget, table, asking, walking>>

(* exec(), or the pid given to another program.  Linux reads only the      *)
(* sockets of programs a rule names, so there a process that keeps a       *)
(* socket keeps its program.                                               *)
Exec(p, prog) ==
    /\ "exec" \in Happens /\ prog # runs[p]
    /\ platform = "linux" => step # "walk" /\ \A s \in Socks : holder[s] # p
    /\ runs' = [runs EXCEPT ![p] = prog]
    /\ said' = NoAnswer
    /\ UNCHANGED <<platform, holder, watch, budget, table, asking, walking,
                   handed>>

(* No tick falls inside a question: it is answered within one. *)
Tick ==
    /\ step = "idle"
    /\ said' = NoAnswer
    /\ age' = Min({Ttl, age + 1})
    /\ waited' = Min({Cap - credit, waited + 1})
    /\ UNCHANGED <<machine, watch, rows, built, failed, cost, credit, asking,
                   walking, handed>>

----------------------------------------------------------------------------
(* resolve() *)

CurrentTtl(c) == IF c = 0 THEN Ttl ELSE Min({Ttl, Max({MinTtl, TtlFactor * c})})

(* What a walk reads, in the order it reads it. *)
FirstReads == IF platform = "windows" THEN Socks ELSE {"list"}

StartWalk ==
    /\ step' = "walk" /\ todo' = FirstReads /\ inodes' = Nothing /\ whole' = TRUE
    /\ rows' = NoRows /\ cost' = 0

(* refreshIfStale(): the table is kept while it is young, and so are the   *)
(* sockets a failed walk did see, once there is no credit to try again.    *)
Keeps(isBuilt, hasFailed, lastCost, money) ==
    /\ \/ isBuilt
       \/ hasFailed /\ money < lastCost
    /\ age < CurrentTtl(lastCost)

(* accrueLookCredit() *)
Accrued == Min({Cap, credit + waited})

(* The rules come with the connection: setWatchList(), accrueLookCredit()  *)
(* and the first refreshIfStale().  A list that changed throws the table   *)
(* away.                                                                   *)
Ask(s, rules) ==
    LET same == rules = watch
        money == Accrued
    IN  /\ step = "idle" /\ holder[s] # None
        /\ rules # {} /\ (~same => watch = {} \/ ("edit" \in Happens /\ credit > -MaxDebt))
        /\ said' = NoAnswer
        /\ flow' = s /\ watch' = rules
        /\ credit' = money /\ waited' = 0
        /\ built' = (built /\ same) /\ failed' = (failed /\ same)
        /\ fresh' = FALSE /\ again' = FALSE
        /\ IF Keeps(built /\ same, failed /\ same, IF same THEN cost ELSE 0, money)
           THEN /\ step' = "look"
                /\ UNCHANGED <<rows, cost, walking>>
           ELSE StartWalk
        /\ UNCHANGED <<machine, age, handed>>

(* settles(): the walk saw this very socket. *)
Settled == rows[flow] # Unseen

(* shouldLookAgain() *)
ShouldLookAgain == built /\ ~fresh /\ credit >= cost

LookAgain ==
    /\ step = "look" /\ ~Settled /\ ShouldLookAgain
    /\ said' = NoAnswer
    /\ built' = FALSE /\ again' = TRUE
    /\ StartWalk
    /\ UNCHANGED <<machine, watch, budget, failed, age, flow, fresh, handed>>

(* The answer: the program the owner runs now, if a rule names it.  A      *)
(* miss is "skipped" when the table is incomplete or older than the        *)
(* question; after a second walk that is not asked.                        *)
Answer ==
    LET owner == rows[flow]
        skipped == step = "look" /\ ~Settled /\ (~built \/ ~fresh)
    IN  /\ \/ step = "done"
           \/ step = "look" /\ (Settled \/ ~ShouldLookAgain)
        /\ said' = [sock |-> flow, skipped |-> skipped,
                    program |-> IF owner \in Pids THEN Listed(owner) ELSE None,
                    truth |-> Listed(holder[flow]),
                    handed |-> Settled /\ flow \in handed, age |-> age]
        /\ step' = "idle" /\ flow' = None /\ fresh' = FALSE /\ again' = FALSE
        /\ UNCHANGED <<machine, watch, budget, table, walking, handed>>

----------------------------------------------------------------------------
(* walk(), once for each system, and finishScan() *)

MayFail == IF again THEN "secondFails" \in Happens ELSE "fails" \in Happens

(* record() of one socket: the first owner stays. *)
Record(seen) ==
    /\ rows' = [s \in Socks |-> IF rows[s] = Unseen /\ s \in DOMAIN seen
                                THEN seen[s] ELSE rows[s]]
    /\ handed' = handed \ {s \in DOMAIN seen : rows[s] = Unseen}

Reading == step = "walk" /\ todo # {}
WalkUnchanged == /\ said' = NoAnswer
                 /\ UNCHANGED <<machine, watch, budget, built, failed, cost,
                                age, asking>>

(* Windows: one finished table after another, each with every owner in it, *)
(* or a table the system would not give.                                   *)
ReadTable(s) ==
    /\ Reading /\ platform = "windows" /\ s \in todo
    /\ todo' = todo \ {s}
    /\ \/ /\ Record([x \in {s} \cap {y \in Socks : holder[y] # None} |-> holder[x]])
          /\ UNCHANGED whole
       \/ /\ MayFail /\ whole' = FALSE
          /\ UNCHANGED <<rows, handed>>
    /\ UNCHANGED inodes /\ WalkUnchanged

(* macOS and Linux list the processes first; an empty list is a failure. *)
ListProcesses ==
    /\ Reading /\ platform # "windows" /\ todo = {"list"}
    /\ \/ todo' = Pids /\ UNCHANGED whole
       \/ MayFail /\ todo' = {} /\ whole' = FALSE
    /\ UNCHANGED <<rows, handed, inodes>> /\ WalkUnchanged

SocketsOf(p) == {s \in Socks : holder[s] = p}

(* What reading a process finds: a process, a descriptor or a link that is *)
(* refused is passed over, and at most counted.                            *)
SocketsRead(p) == IF "unreadable" \in Happens THEN SUBSET SocketsOf(p)
                  ELSE {SocketsOf(p)}

(* macOS: every process, and each of its sockets recorded. *)
ReadProcessMac(p) ==
    /\ Reading /\ platform = "macos" /\ p \in todo
    /\ todo' = todo \ {p}
    /\ \E seen \in SocketsRead(p) : Record([s \in seen |-> p])
    /\ UNCHANGED <<inodes, whole>> /\ WalkUnchanged

(* Linux: the programs a rule names, and the inodes they hold ... *)
ReadProcessLinux(p) ==
    /\ Reading /\ platform = "linux" /\ p \in todo
    /\ todo' = IF todo = {p} THEN {"dump"} ELSE todo \ {p}
    /\ \E seen \in SocketsRead(p) :
          inodes' = [s \in Socks |-> IF Listed(p) # None /\ s \in seen THEN p
                                    ELSE inodes[s]]
    /\ UNCHANGED <<rows, handed, whole>> /\ WalkUnchanged

(* Over netlink, all four tables or none, or else as text. *)
AllInetSockets == {s \in Socks : holder[s] # None}

(* ... then every socket of the machine, held by one of those or by nobody *)
(* watched.                                                                *)
DumpSockets ==
    /\ Reading /\ platform = "linux" /\ todo = {"dump"}
    /\ todo' = {}
    /\ Record([s \in AllInetSockets |->
                 IF inodes[s] # None THEN inodes[s] ELSE Unattributed])
    /\ UNCHANGED <<inodes, whole>> /\ WalkUnchanged

FinishScan(c) ==
    /\ step = "walk" /\ todo = {}
    /\ built' = whole /\ failed' = ~whole
    /\ cost' = c /\ credit' = credit - c
    /\ age' = 0 /\ fresh' = TRUE
    /\ step' = IF again THEN "done" ELSE "look"
    /\ said' = NoAnswer /\ inodes' = Nothing /\ whole' = TRUE
    /\ UNCHANGED <<machine, watch, waited, rows, flow, again, todo, handed>>

----------------------------------------------------------------------------
Init ==
    /\ platform \in Platforms
    /\ holder = [s \in Socks |-> None] /\ runs \in [Pids -> Programs]
    /\ watch = {} /\ rows = NoRows /\ built = FALSE /\ failed = FALSE
    /\ cost = 0 /\ age = Ttl /\ credit = Cap /\ waited = 0
    /\ step = "idle" /\ flow = None /\ fresh = FALSE /\ again = FALSE
    /\ todo = {} /\ inodes = Nothing /\ whole = TRUE /\ handed = {}
    /\ said = NoAnswer

Next ==
    \/ \E p \in Pids, s \in Socks : Open(p, s)
    \/ \E s \in Socks : Close(s)
    \/ \E p \in Pids, prog \in Programs : Exec(p, prog)
    \/ Tick
    \/ \E s \in Socks, rules \in SUBSET Programs : Ask(s, rules)
    \/ LookAgain
    \/ Answer
    \/ \E s \in Socks : ReadTable(s)
    \/ ListProcesses
    \/ \E p \in Pids : ReadProcessMac(p)
    \/ \E p \in Pids : ReadProcessLinux(p)
    \/ DumpSockets
    \/ \E c \in Costs : FinishScan(c)

Spec == Init /\ [][Next]_vars
----------------------------------------------------------------------------
(* Properties *)

(* A connection is answered with the program that holds its socket, and    *)
(* with nobody only when no rule names that program, unless the answer     *)
(* says the look was skipped.  The one error left is a socket that changed *)
(* hands since its row was written, in a table still within its time       *)
(* (currentTtl()'s comment).                                               *)
AnswersTruly ==
    (said.sock # None /\ ~said.skipped /\ said.program # said.truth)
        => (said.handed /\ said.age < Ttl)

(* The walks spend no more than the credit and two walks' worth beyond it, *)
(* however many connections come and however often a walk fails, as long   *)
(* as the rules stay (a change of rules is looked at at once).             *)
DebtBounded == credit >= -2 * Max(Costs)

(* A second walk for a connection is made only for a socket that opened    *)
(* after the first: one the table saw, whoever holds it, is answered from  *)
(* the table (m_owners' comment).                                          *)
LooksAgainForNewSockets == (again' /\ ~again) => flow \in handed
=============================================================================
