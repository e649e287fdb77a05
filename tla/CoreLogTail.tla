----------------------------- MODULE CoreLogTail -----------------------------
(***************************************************************************)
(* The core's log on its way to the window (QtTrustTunnelClient).  Core    *)
(* threads write lines into one file under the sink's lock, the owner's    *)
(* thread reads it every 800 ms without the lock, gives on so many lines   *)
(* a look and holds the rest, and every attempt starts from an empty file. *)
(***************************************************************************)
EXTENDS Integers, Sequences, SequencesExt

CONSTANTS
    Size,           \* how many pieces a line has, the newline the last of them
    MaxLinesPerPoll, MaxCarry,  \* kMaxLinesPerPoll, kMaxCarryBytes
    MaxLines, MaxAttempts, MaxToggles,  \* bounds: lines logged, attempts, toggles
    Happens         \* what happens: "reconnect"

TailAssumption ==
    /\ Size \in Nat \ {0} /\ MaxLinesPerPoll \in Nat \ {0} /\ MaxCarry \in Nat \ {0}
    /\ MaxLines \in Nat /\ MaxAttempts \in Nat /\ MaxToggles \in Nat

VARIABLES
    logging,    \* m_loggingEnabled; m_coreLogPath is set with it
    sink,       \* CoreLogSink has a file
    file,       \* what the file holds, in pieces
    writing,    \* pieces of the newest line still to be written, under the lock
    logged,     \* lines logged
    offset,     \* m_coreLogOffset
    carry,      \* m_coreLogLineBuffer
    polling,    \* m_coreLogPoll runs
    shown,      \* what coreLogLine() gave on: lines, and Dropped
    attempts, toggles

writer_vars == <<sink, file, writing, logged>>
tail_vars == <<offset, carry, polling, shown>>
vars == <<logging, writer_vars, tail_vars, attempts, toggles>>

Piece(l, i) == [line |-> l, piece |-> i]
Line(l) == [i \in 1..Size |-> Piece(l, i)]
Dropped == <<Piece(0, 0)>>
Newlines(s) == {i \in DOMAIN s : s[i].piece = Size}

TypeOK ==
    /\ writing \in 0..Size /\ logged \in 0..MaxLines
    /\ offset \in 0..Len(file)
    /\ Len(carry) <= MaxCarry
    /\ polling => logging

-----------------------------------------------------------------------------
(* The core's threads.                                                     *)

(* CoreLogSink::write(): the lock is held for the whole line.              *)
Log ==
    /\ logged < MaxLines
    /\ writing = 0
    /\ logged' = logged + 1
    /\ IF sink
       THEN file' = Append(file, Piece(logged + 1, 1)) /\ writing' = Size - 1
       ELSE UNCHANGED <<file, writing>>
    /\ UNCHANGED <<sink, logging, tail_vars, attempts, toggles>>

WriteOn ==
    /\ writing > 0
    /\ file' = Append(file, Piece(logged, Size - writing + 1))
    /\ writing' = writing - 1
    /\ UNCHANGED <<sink, logged, logging, tail_vars, attempts, toggles>>

-----------------------------------------------------------------------------
(* drainCoreLogTailBytes().                                                *)

Ends(s) == SetToSortSeq(Newlines(s), <)
GivenOn(s) == IF Len(Ends(s)) < MaxLinesPerPoll THEN Len(Ends(s)) ELSE MaxLinesPerPoll
Given(s) ==
    [n \in 1..GivenOn(s) |->
        SubSeq(s, IF n = 1 THEN 1 ELSE Ends(s)[n - 1] + 1, Ends(s)[n])]
Held(s) == IF GivenOn(s) = 0 THEN s ELSE SubSeq(s, Ends(s)[GivenOn(s)] + 1, Len(s))

(* Too much is held: the oldest bytes go, and the line the cut fell into.  *)
Cut(s) ==
    LET rest == SubSeq(s, Len(s) - MaxCarry + 1, Len(s))
    IN  IF Newlines(rest) = {} THEN <<>> ELSE SubSeq(rest, Head(Ends(rest)) + 1, MaxCarry)

SilentDrain(s) ==
    /\ carry' = IF Len(Held(s)) > MaxCarry THEN Cut(Held(s)) ELSE Held(s)
    /\ shown' = shown \o Given(s)
Drain(s) ==
    IF Len(Held(s)) > MaxCarry
    THEN carry' = Cut(Held(s)) /\ shown' = Append(shown \o Given(s), Dropped)
    ELSE carry' = Held(s) /\ shown' = shown \o Given(s)

-----------------------------------------------------------------------------
(* The owner's thread.                                                     *)

Unread == SubSeq(file, offset + 1, Len(file))

(* A look with nothing new still gives on what was held back.              *)
NothingToDo == Unread = <<>> /\ carry = <<>>

PollCoreLogFile ==
    /\ polling
    /\ ~NothingToDo
    /\ offset' = Len(file)
    /\ Drain(carry \o Unread)
    /\ UNCHANGED <<logging, writer_vars, polling, attempts, toggles>>

(* resetCoreLogFile() and startCoreLogTail().  The sink's lock waits for a *)
(* line to be written.  The tail's first look finds the file empty.        *)
StartsOver == file' = <<>> /\ offset' = 0

PrepareAttempt ==
    /\ attempts < MaxAttempts
    /\ "reconnect" \in Happens \/ ~polling
    /\ writing = 0
    /\ attempts' = attempts + 1
    /\ sink' = logging
    /\ IF logging
       THEN /\ StartsOver
            /\ polling' = TRUE
            /\ IF carry = <<>> THEN UNCHANGED <<carry, shown>> ELSE Drain(carry)
       ELSE UNCHANGED <<file, tail_vars>>
    /\ UNCHANGED <<logging, writing, logged, toggles>>

StopTail == polling' = FALSE /\ carry' = <<>>

Disconnect ==
    /\ polling
    /\ StopTail
    /\ UNCHANGED <<logging, writer_vars, offset, shown, attempts, toggles>>

(* setSessionLogging(): the sink stays as it is until the next attempt.    *)
SetSessionLogging ==
    /\ toggles < MaxToggles
    /\ toggles' = toggles + 1
    /\ logging' = ~logging
    /\ IF logging THEN StopTail ELSE UNCHANGED <<polling, carry>>
    /\ UNCHANGED <<writer_vars, offset, shown, attempts>>

-----------------------------------------------------------------------------
Init ==
    /\ logging \in BOOLEAN
    /\ sink = FALSE /\ file = <<>> /\ writing = 0 /\ logged = 0
    /\ offset = 0 /\ carry = <<>> /\ polling = FALSE /\ shown = <<>>
    /\ attempts = 0 /\ toggles = 0

Next == Log \/ WriteOn \/ PollCoreLogFile \/ PrepareAttempt \/ Disconnect
        \/ SetSessionLogging

Spec == Init /\ [][Next]_vars

-----------------------------------------------------------------------------
Lines == {l \in 1..MaxLines : Line(l) \in Range(shown)}
Complete(s) == {s[i].line : i \in Newlines(s)}
SaidDropped == Dropped \in Range(shown)

(* The window shows lines, never pieces of them glued together: half a     *)
(* line is held back until the rest of it has come.                        *)
LinesAreWhole ==
    \A n \in DOMAIN shown :
        shown[n] = Dropped \/ \E l \in 1..MaxLines : shown[n] = Line(l)

(* The lines come in the order in which they were logged, and none comes   *)
(* twice, across polls, sessions and an emptied file.                      *)
InOrder ==
    \A m, n \in DOMAIN shown :
        (m < n /\ Dropped \notin {shown[m], shown[n]})
            => shown[m][1].line < shown[n][Len(shown[n])].line

(* "Saying so in the stream beats a silent gap": while the tail runs, what *)
(* it has read of the session's file was shown, is held, or was dropped    *)
(* with a word about it.                                                   *)
NoSilentGap ==
    (polling /\ ~SaidDropped)
        => Complete(SubSeq(file, 1, offset)) \subseteq Lines \cup Complete(carry)
=============================================================================
