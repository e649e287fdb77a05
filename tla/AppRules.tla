------------------------------ MODULE AppRules ------------------------------
(***************************************************************************)
(* Which programs a rule names.  A rule is a path or a bare name; it also  *)
(* covers the bundle or the directory its program has to itself, and on    *)
(* Windows every version of a program that Squirrel installed.  Whether a  *)
(* folder is Squirrel's is asked of the disk by every connection thread,   *)
(* and remembered for half a minute in a table they share.                 *)
(***************************************************************************)
EXTENDS Integers, Sequences, SequencesExt, FiniteSets

CONSTANTS
    Platform,       \* "windows", "mac", "linux"
    Lower,          \* the lower-case spelling of a name
    Stem,           \* a file's name without its extension
    Versions,       \* names of the form app-<digit>...
    Bundles,        \* names ending in .app
    Everyones,      \* "bin", "sbin", "libexec", "games"
    RuleLists,      \* lists a user writes: sequences of [form, path]
    Apps,           \* programs with connections: [path, name]
    Conns,          \* connections looked at at a time
    FreshFor,       \* kFreshFor
    MaxFolders,     \* kMaxFolders
    MaxClock        \* bound: the clock

RuleAssumption ==
    /\ Platform \in {"windows", "mac", "linux"}
    /\ FreshFor \in Nat \ {0} /\ MaxFolders \in Nat \ {0} /\ MaxClock \in Nat

-----------------------------------------------------------------------------
(* Paths are sequences of names, the last one the file's.                  *)

Nothing == <<>>
Folded(path) == [i \in DOMAIN path |-> Lower[path[i]]]
Sensitive == Platform = "linux"
Key(path) == IF Sensitive THEN path ELSE Folded(path)
SamePath(p, q) == Key(p) = Key(q)
SameName(a, b) == SamePath(<<a>>, <<b>>)

(* "." and ".." segments resolved (QDir::cleanPath).                       *)
CleanPath(path) ==
    FoldLeft(LAMBDA p, name : CASE name = "." -> p
                                [] name = ".." /\ p # Nothing -> Front(p)
                                [] OTHER -> Append(p, name),
             Nothing, path)

(* A rule as it is stored; Nothing for a folder, for a relative path and   *)
(* for what has no file's name.                                            *)
NormalizedAppRule(rule) ==
    CASE rule.form = "name" -> IF rule.path \in {<<".">>, <<"..">>} THEN Nothing ELSE rule.path
      [] rule.form = "path" -> CleanPath(rule.path)
      [] OTHER -> Nothing

DedupeKey(path) == Key(path)

SanitizedAppRules(rules) ==
    LET Keeps(out, rule) ==
            LET path == NormalizedAppRule(rule)
                form == rule.form
            IN  IF \/ path = Nothing
                   \/ \E r \in ToSet(out) : r.form = form /\ DedupeKey(r.path) = DedupeKey(path)
                THEN out ELSE Append(out, [form |-> form, path |-> path])
    IN  FoldLeft(Keeps, <<>>, rules)

AppBundleOf(path) ==
    LET at == {i \in 1..(Len(path) - 2) : path[i] \in Bundles /\ path[i + 1] = "Contents"}
    IN  IF at = {} THEN Nothing
        ELSE SubSeq(path, 1, CHOOSE i \in at : \A j \in at : i <= j)

SameBundle(p, q) == AppBundleOf(p) # Nothing /\ SamePath(AppBundleOf(p), AppBundleOf(q))

DirectoryOf(path) == Front(path)

(* The directory a program has to itself.                                  *)
AppDirectoryOf(path) ==
    LET directory == DirectoryOf(path)
    IN  IF \/ directory = Nothing
           \/ ~SameName(Last(directory), Stem[Last(path)])
           \/ \E name \in Everyones : SameName(name, Last(directory))
        THEN Nothing ELSE directory

InVersion(path) == Len(path) >= 2 /\ path[Len(path) - 1] \in Versions
Root(path) == SubSeq(path, 1, Len(path) - 2)
UnversionedAppPath(path) == Append(Root(path), Last(path))

(* Told from the string; any other program in a version directory needs    *)
(* Update.exe beside it.                                                   *)
NamedAfterRoot(path) ==
    Root(path) # Nothing /\ Lower[Stem[Last(path)]] = Lower[Last(Root(path))]
AsksTheDisk(path) == Platform = "windows" /\ InVersion(path) /\ ~NamedAfterRoot(path)

AcrossVersions(path, updater) ==
    IF Platform = "windows" /\ InVersion(path) /\ (NamedAfterRoot(path) \/ updater)
    THEN UnversionedAppPath(path) ELSE path

FileNameOf(app, path) == IF app.name # "" THEN app.name ELSE Last(path)

OneRuleMatches(form, norm, app, path) ==
    IF form = "name" THEN SameName(FileNameOf(app, path), norm[1])
    ELSE /\ path # Nothing
         /\ \/ SamePath(path, norm)
            \/ SameBundle(norm, path)
            \/ AppDirectoryOf(norm) # Nothing /\ SamePath(AppDirectoryOf(norm), DirectoryOf(path))

-----------------------------------------------------------------------------
VARIABLES
    written,    \* the rules as the user wrote them
    rules,      \* as they are stored
    disk,       \* folders that hold Squirrel's Update.exe
    changed,    \* when that last changed, of each folder
    table,      \* SquirrelUpdaterCache: of some folders, what was found when
    clock,
    conns       \* the connections being decided

disk_vars == <<disk, changed>>
vars == <<written, rules, disk_vars, table, clock, conns>>

Paths == {app.path : app \in Apps} \cup {rule.path : rule \in UNION {ToSet(l) : l \in RuleLists}}
Folders == {Key(Root(path)) : path \in {p \in Paths : InVersion(p)}}

Idle == [pc |-> "idle"]
Settled == -FreshFor

TypeOK ==
    /\ rules = SanitizedAppRules(written)
    /\ disk \subseteq Folders
    /\ changed \in [Folders -> Settled..MaxClock]
    /\ DOMAIN table \subseteq Folders /\ Cardinality(DOMAIN table) <= MaxFolders
    /\ \A f \in DOMAIN table : table[f].present \in BOOLEAN /\ table[f].at \in 0..clock
    /\ clock \in 0..MaxClock
    /\ \A c \in Conns : conns[c].pc \in {"idle", "resolving", "looking", "looked", "decided"}

Init ==
    /\ written \in RuleLists /\ rules = SanitizedAppRules(written)
    /\ disk \in SUBSET Folders /\ changed = [f \in Folders |-> Settled]
    /\ table = <<>> /\ clock = 0
    /\ conns = [c \in Conns |-> Idle]

(* appMatchesRules(): the program's path, and then each rule, is brought   *)
(* to the form they are compared in.  "of" is the rule, 0 the program.     *)
Target(c) == IF conns[c].of = 0 THEN conns[c].app.path ELSE rules[conns[c].of].path
Needs(c) == /\ conns[c].pc = "resolving"
            /\ (conns[c].of # 0 => rules[conns[c].of].form = "path")
            /\ AsksTheDisk(Target(c))
Folder(c) == Key(Root(Target(c)))

Resolved(c, norm) ==
    LET conn == [conns[c] EXCEPT !.stamp = 0, !.seen = FALSE]
        matches == OneRuleMatches(rules[conn.of].form, norm, conn.app, conn.path)
    IN  conns' = [conns EXCEPT ![c] =
            IF conn.of = 0 THEN [conn EXCEPT !.pc = "resolving", !.path = norm, !.of = 1]
            ELSE IF matches THEN [conn EXCEPT !.pc = "decided", !.matched = TRUE]
            ELSE IF conn.of = Len(rules) THEN [conn EXCEPT !.pc = "decided"]
            ELSE [conn EXCEPT !.pc = "resolving", !.of = @ + 1]]

(* appActionFor(): no rules and no identity are no decision.               *)
Ask(c, app) ==
    /\ conns[c] = Idle /\ rules # <<>>
    /\ conns' = [conns EXCEPT ![c] =
            [pc |-> "resolving", app |-> app, of |-> IF app.path = Nothing THEN 1 ELSE 0,
             path |-> Nothing, stamp |-> 0, seen |-> FALSE, matched |-> FALSE,
             since |-> clock]]
    /\ UNCHANGED <<written, rules, disk_vars, table, clock>>

Resolve(c) ==
    /\ conns[c].pc = "resolving" /\ ~Needs(c)
    /\ Resolved(c, AcrossVersions(Target(c), FALSE))
    /\ UNCHANGED <<written, rules, disk_vars, table, clock>>

Fresh(folder) == folder \in DOMAIN table /\ clock - table[folder].at < FreshFor

(* SquirrelUpdaterCache::updaterIn()                                       *)
Remembered(c) ==
    /\ Needs(c) /\ Fresh(Folder(c))
    /\ Resolved(c, AcrossVersions(Target(c), table[Folder(c)].present))
    /\ UNCHANGED <<written, rules, disk_vars, table, clock>>

Miss(c) ==
    /\ Needs(c) /\ ~Fresh(Folder(c))
    /\ conns' = [conns EXCEPT ![c].pc = "looking", ![c].stamp = clock]
    /\ UNCHANGED <<written, rules, disk_vars, table, clock>>

(* Outside the lock.                                                       *)
LookAtDisk(c) ==
    /\ conns[c].pc = "looking"
    /\ conns' = [conns EXCEPT ![c].pc = "looked", ![c].seen = Folder(c) \in disk]
    /\ UNCHANGED <<written, rules, disk_vars, table, clock>>

Entry(c) == [present |-> conns[c].seen, at |-> conns[c].stamp]
Kept(folder) ==
    IF Cardinality(DOMAIN table) >= MaxFolders /\ folder \notin DOMAIN table
    THEN {} ELSE DOMAIN table

Remember(c) ==
    /\ conns[c].pc = "looked"
    /\ table' = [f \in Kept(Folder(c)) \cup {Folder(c)} |->
                    IF f = Folder(c) THEN Entry(c) ELSE table[f]]
    /\ Resolved(c, AcrossVersions(Target(c), conns[c].seen))
    /\ UNCHANGED <<written, rules, disk_vars, clock>>

Answer(c) ==
    /\ conns[c].pc = "decided"
    /\ conns' = [conns EXCEPT ![c] = Idle]
    /\ UNCHANGED <<written, rules, disk_vars, table, clock>>

(* Squirrel installs into a folder, or an application is removed; once a   *)
(* tick (bound).                                                           *)
InstallerRuns(folder) ==
    /\ changed[folder] < clock
    /\ disk' = IF folder \in disk THEN disk \ {folder} ELSE disk \cup {folder}
    /\ changed' = [changed EXCEPT ![folder] = clock]
    /\ UNCHANGED <<written, rules, table, clock, conns>>

Tick ==
    /\ clock < MaxClock
    /\ clock' = clock + 1
    /\ UNCHANGED <<written, rules, disk_vars, table, conns>>

Next ==
    \/ \E c \in Conns : \/ \E app \in Apps : Ask(c, app)
                        \/ Resolve(c) \/ Remembered(c) \/ Miss(c) \/ LookAtDisk(c)
                        \/ Remember(c) \/ Answer(c)
    \/ \E folder \in Folders : InstallerRuns(folder)
    \/ Tick

Spec == Init /\ [][Next]_vars

-----------------------------------------------------------------------------
(* What is remembered of a folder was true no longer ago than it is        *)
(* remembered: what differs from the disk changed since its stamp.         *)
RememberedIsRecent ==
    \A f \in DOMAIN table : table[f].present # (f \in disk) => changed[f] >= table[f].at

Decided(c) == conns[c].pc = "decided"

(* Nothing changed on the disk for half a minute before it asked.          *)
Quiet(c) == \A f \in Folders : changed[f] + FreshFor <= conns[c].since

Unversioned(path) == IF InVersion(path) THEN UnversionedAppPath(path) ELSE path
Squirrels(path) == InVersion(path) /\ (NamedAfterRoot(path) \/ Key(Root(path)) \in disk)

(* A rule for a program Squirrel installed matches it in every version     *)
(* directory it has had, not at the version it was picked in alone.        *)
FollowsTheUpdate ==
    Platform = "windows" =>
    \A c \in Conns : Decided(c) /\ Quiet(c) =>
        LET path == conns[c].app.path
        IN  (\E r \in ToSet(rules) :
                /\ r.form = "path" /\ path # Nothing /\ Squirrels(path) /\ Squirrels(r.path)
                /\ SamePath(Unversioned(r.path), Unversioned(path)))
            => conns[c].matched

(* A rule covers no neighbour of its program: what matches is named by a   *)
(* bare rule, is the very file, or shares with the rule a directory that   *)
(* is neither everyone's nor the bare folder of somebody's versions.       *)
Covers(rule, app) ==
    LET p == rule.path
        q == app.path
        OwnedBy(dir, path) ==
            /\ Len(dir) < Len(path) /\ SamePath(dir, SubSeq(path, 1, Len(dir)))
            /\ ~(\E name \in Everyones : SameName(name, Last(dir)))
    IN  \/ rule.form = "name" /\ SameName(FileNameOf(app, q), p[1])
        \/ rule.form = "path" /\ q # Nothing /\
           \/ SamePath(p, q)
           \/ \E n \in 1..(Len(p) - 1) :
                /\ OwnedBy(SubSeq(p, 1, n), q)
                /\ \/ p[n] \in Bundles
                   \/ SameName(p[n], Stem[Last(p)])
           \/ Squirrels(p) /\ Squirrels(q) /\ SamePath(Unversioned(p), Unversioned(q))

NoNeighbours ==
    \A c \in Conns : Decided(c) /\ Quiet(c) /\ conns[c].matched =>
        \E r \in ToSet(rules) : Covers(r, conns[c].app)

(* Saving drops what cannot match and keeps one spelling of each rule, and *)
(* so every rule written and valid still has its program covered.          *)
SavedMeansTheSame ==
    \A rule \in ToSet(written) :
        LET norm == NormalizedAppRule(rule)
        IN  norm # Nothing =>
            \A app \in Apps :
                OneRuleMatches(rule.form, norm, app, app.path) =>
                \E r \in ToSet(rules) : OneRuleMatches(r.form, r.path, app, app.path)
=============================================================================
