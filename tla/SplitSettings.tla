--------------------------- MODULE SplitSettings ---------------------------
(***************************************************************************)
(* The split tunnelling settings of the window: the profiles and the one   *)
(* its Split page shows (Backend, BackendSplit), the config that uses each *)
(* of them, what is handed to the session, and the settings file they are  *)
(* kept in (AppSettings).                                                  *)
(*                                                                         *)
(* A profile has addresses, programs and at most one geo list.  The page   *)
(* edits a copy of the shown profile's addresses and programs.  The        *)
(* session is one of three: "off", "waiting" (the password is read, or the *)
(* tunnel is taken down to be built again) and "up".                       *)
(*                                                                         *)
(* The file is a record of the values written, keyed as the store keys     *)
(* them: on Windows a profile's name loses its case there.  A save is one  *)
(* write after the other in that store, and may be cut.                    *)
(***************************************************************************)
EXTENDS Naturals, Sequences, FiniteSets, Functions

CONSTANTS Names,     \* profile names, "Default" among them
          Folded,    \* a name as the store spells it
          Configs,   \* paths of configs
          MaxEdits,  \* edits made
          Happens    \* "geo", "cut", "legacy"

SplitAssumption ==
    "Default" \in Names /\ Folded \in [Names -> STRING] /\ MaxEdits \in Nat

VARIABLES s,       \* m_settings
          file,    \* the settings file
          configs, \* m_paths
          active,  \* m_activePath
          session, built, \* what the helper runs, and the routes it was built with
          pushed,  \* the last setSplitRouting() and setExcludedRoutes()
          geo,     \* what is known of the lists: "none", "some", "huge"
          edits    \* bound

vars == <<s, file, configs, active, session, built, pushed, geo, edits>>

NoConfig == "none"

\* Rules as they are written: one address the core takes and one it does not;
\* a program, a Windows path on another platform, and a Squirrel updater.
Addresses == {"ok.example", "bad"}
Programs  == {"app", "foreign", "updater"}
Valid     == {"ok.example"}
Usable    == {"app", "updater"}   \* sanitizedAppRules()
Lists     == {"no", "vpn", "bypass"}
Routes    == {"lan", "every"}

Folding == {Folded[n] : n \in Names}

Empty(f, v) == [x \in f |-> v]

-----------------------------------------------------------------------------
(* What is handed to the session.                                          *)

\* activeConfigProfile(), for any config.
ProfileOf(t, c) ==
    IF c \in DOMAIN t.assigned /\ t.assigned[c] \in DOMAIN t.rules THEN t.assigned[c] ELSE "Default"

\* geoRulesFit().
Fits(t, n, g) == t.list[n] = "no" \/ g # "huge"

\* selectiveModeActive().
Selective(t, n, g) ==
    /\ t.enabled /\ Fits(t, n, g) /\ t.mode = "selective"
    /\ t.apps[n] \cap Usable # {} \/ t.rules[n] \cap Valid # {} \/ (t.list[n] = "vpn" /\ g = "some")

\* applySplitRules() for the profile n.  Beside a geo list's entries, which say
\* where they go, the page's own rules say which mode they were written for.
RoutingOf(t, n, g) ==
    LET on   == t.enabled /\ Fits(t, n, g)
        list == IF on /\ g = "some" THEN t.list[n] ELSE "no"
    IN  [rules     |-> IF on THEN t.rules[n] \cap Valid ELSE {},
         apps      |-> IF on THEN t.apps[n] ELSE {},
         list      |-> list,
         manual    |-> IF list = "no" THEN "plain" ELSE t.mode,
         selective |-> Selective(t, n, g),
         routes    |-> t.routes]

Routing(t, c, g) == RoutingOf(t, ProfileOf(t, c), g)

-----------------------------------------------------------------------------
(* The file.                                                               *)

\* The values saveAppSettings() writes, by the key.
Written(t, last) ==
    [enabled |-> t.enabled, mode |-> t.mode, routes |-> t.routes,
     mirror |-> t.mirror.rules, shown |-> t.shown, names |-> DOMAIN t.rules,
     rules |-> [k \in {Folded[n] : n \in DOMAIN t.rules} |->
                   t.rules[CHOOSE n \in DOMAIN t.rules : Folded[n] = k]],
     apps |-> [k \in {Folded[n] : n \in DOMAIN t.rules} |->
                   t.apps[CHOOSE n \in DOMAIN t.rules : Folded[n] = k]],
     seeded |-> TRUE, legacy |-> {}, assigned |-> t.assigned,
     list |-> [k \in {Folded[n] : n \in DOMAIN t.rules} |->
                   t.list[CHOOSE n \in DOMAIN t.rules : Folded[n] = k]],
     last |-> last]

\* The order in which it writes them.  The three kinds of lists are removed and
\* written again one profile at a time.
Order == <<"enabled", "mode", "routes", "mirror", "shown", "names", "rules",
           "apps", "seeded", "legacy", "assigned", "list", "last">>

At(key) == CHOOSE i \in 1 .. Len(Order) : Order[i] = key

\* The file when the write of the i-th value was the last, and for the lists only
\* those of the profiles in ks.
CutFile(old, new, i, ks) ==
    [key \in DOMAIN new |->
        CASE At(key) < i -> new[key]
          [] At(key) > i -> old[key]
          [] OTHER -> IF key \in {"rules", "apps", "list"}
                      THEN Restrict(new[key], ks \cap DOMAIN new[key]) ELSE new[key]]

Stored(f, k, default) == IF k \in DOMAIN f THEN f[k] ELSE default

\* loadProfileMap(): the one list there was before there were profiles is that of
\* Default, and Default has the recommended one when nothing is stored for it.
RulesOf(f, n) ==
    LET old == IF n = "Default" /\ f.names = {"Default"} THEN f.mirror ELSE {}
        read == IF n # "Default" THEN Stored(f.rules, Folded[n], {})
                ELSE IF Folded[n] \in DOMAIN f.rules THEN f.rules[Folded[n]]
                     ELSE IF old # {} THEN old ELSE Valid
    IN  IF read \cap Valid = {} THEN old \cap Valid ELSE read \cap Valid

\* loadProfileAppRules(): and the one list of programs that of every profile,
\* until it has been written the new way.
AppsOf(f, n) == IF f.seeded THEN Stored(f.apps, Folded[n], {}) ELSE f.legacy

\* resolveSquirrelUpdaterRules(), with the program installed.
Resolved(t) ==
    LET apps == [n \in DOMAIN t.apps |->
                    IF "updater" \in t.apps[n] THEN (t.apps[n] \ {"updater"}) \union {"app"}
                    ELSE t.apps[n]]
    IN  IF apps = t.apps THEN t ELSE [t EXCEPT !.apps = apps, !.mirror.apps = apps[t.shown]]

\* loadAppSettings().
Loaded(f) ==
    LET shown == IF f.shown \in f.names THEN f.shown ELSE CHOOSE n \in f.names : TRUE
    IN  [enabled |-> f.enabled, mode |-> f.mode, routes |-> f.routes \ {"every"},
         rules |-> [n \in f.names |-> RulesOf(f, n)],
         apps |-> [n \in f.names |-> AppsOf(f, n)],
         list |-> [n \in f.names |-> Stored(f.list, Folded[n], "no")],
         shown |-> shown, mirror |-> [rules |-> RulesOf(f, shown), apps |-> AppsOf(f, shown)],
         assigned |-> f.assigned]

TypeOK ==
    /\ DOMAIN s.rules \subseteq Names /\ DOMAIN s.apps = DOMAIN s.rules /\ DOMAIN s.list = DOMAIN s.rules
    /\ "Default" \in DOMAIN s.rules /\ s.shown \in DOMAIN s.rules
    /\ \A n \in DOMAIN s.rules : s.rules[n] \subseteq Valid /\ s.apps[n] \subseteq Programs /\ s.list[n] \in Lists
    /\ s.routes \subseteq {"lan"} /\ s.mode \in {"general", "selective"} /\ s.enabled \in BOOLEAN
    /\ DOMAIN s.assigned \subseteq Configs /\ Range(s.assigned) \subseteq Names
    /\ configs \subseteq Configs /\ active \in configs \union {NoConfig} /\ (configs # {} => active # NoConfig)
    /\ session \in {"off", "waiting", "up"} /\ geo \in {"none", "some", "huge"} /\ edits \in 0 .. MaxEdits

-----------------------------------------------------------------------------
(* The edits.  Each is saved before anything else is done with it.         *)

Edits == edits < MaxEdits /\ edits' = edits + 1
Saved == file' = Written(s', active')

\* applySplitRules() and reapplyIfConnected(): a session that is up is built again
\* for its routes alone; the rest it takes as it runs.
Applied ==
    /\ pushed' = Routing(s', active', geo')
    /\ session' = IF session = "up" /\ s'.routes # built THEN "waiting" ELSE session

Stays == UNCHANGED <<configs, active, built, geo>>

\* applyProfileEdit(), after an edit of the profile on the page.
EditRules(r) ==
    /\ r \subseteq Valid /\ r # s.mirror.rules
    /\ Edits
    /\ s' = [s EXCEPT !.mirror.rules = r, !.rules[s.shown] = r]
    /\ Stays /\ Saved /\ Applied

\* addAppRule(), removeAppRule(), clearAppRules(); what is added is usable.
EditApps(a) ==
    /\ a # s.mirror.apps /\ a \ s.mirror.apps \subseteq {"app"}
    /\ Edits
    /\ s' = [s EXCEPT !.mirror.apps = a, !.apps[s.shown] = a]
    /\ Stays /\ Saved /\ Applied

EditList(l) ==
    /\ s.list[s.shown] # l
    /\ Edits
    /\ s' = [s EXCEPT !.list[s.shown] = l]
    /\ Stays /\ Saved /\ Applied

SetSplitEnabled ==
    /\ Edits
    /\ s' = [s EXCEPT !.enabled = ~@]
    /\ Stays /\ Saved /\ Applied

SetVpnMode ==
    /\ Edits
    /\ s' = [s EXCEPT !.mode = IF @ = "general" THEN "selective" ELSE "general"]
    /\ Stays /\ Saved /\ Applied

EditRoutes(r) ==
    /\ r # s.routes
    /\ Edits
    /\ s' = [s EXCEPT !.routes = r]
    /\ Stays /\ Saved /\ Applied

SelectProfile(n) ==
    /\ n \in DOMAIN s.rules /\ n # s.shown
    /\ Edits
    /\ s' = [s EXCEPT !.shown = n, !.mirror = [rules |-> s.rules[n], apps |-> s.apps[n]]]
    /\ Stays /\ Saved /\ UNCHANGED <<session, pushed>>

\* Mutant: only the very same name is refused.
NewNameExactly(n) == n \notin DOMAIN s.rules

\* A name that differs from another's in its case is refused on every platform.
NewName(n) == \A other \in DOMAIN s.rules : Folded[n] # Folded[other]

AddProfile(n) ==
    /\ NewName(n)
    /\ Edits
    /\ LET With(f, v) == [x \in DOMAIN f \union {n} |-> IF x = n THEN v ELSE f[x]]
       IN  s' = [s EXCEPT !.rules = With(@, {}), !.apps = With(@, {}), !.list = With(@, "no"),
                          !.shown = n, !.mirror = [rules |-> {}, apps |-> {}]]
    /\ Stays /\ Saved /\ UNCHANGED <<session, pushed>>

Without(n) ==
    LET kept == DOMAIN s.rules \ {n}
        shown == IF s.shown = n THEN "Default" ELSE s.shown
    IN  [s EXCEPT !.rules = Restrict(@, kept), !.apps = Restrict(@, kept), !.list = Restrict(@, kept),
                  !.assigned = [c \in DOMAIN @ |-> IF @[c] = n THEN "Default" ELSE @[c]],
                  !.shown = shown,
                  !.mirror = IF s.shown = n THEN [rules |-> s.rules[shown], apps |-> s.apps[shown]] ELSE @]

\* Mutant: what the session was given stays.
RemoveProfileQuietly(n) ==
    /\ n \in DOMAIN s.rules \ {"Default"}
    /\ Edits
    /\ s' = Without(n)
    /\ Stays /\ Saved /\ UNCHANGED <<session, pushed>>

RemoveProfile(n) ==
    /\ n \in DOMAIN s.rules \ {"Default"}
    /\ Edits
    /\ s' = Without(n)
    /\ Stays /\ Saved
    /\ IF ProfileOf(s, active) = n THEN Applied ELSE UNCHANGED <<session, pushed>>

-----------------------------------------------------------------------------
(* The configs, the session and the lists.                                 *)

Rebuilt == session' = IF session = "off" THEN "off" ELSE "waiting"

\* selectConfig(): the rules go out when the config is connected.
SelectConfig(c) ==
    /\ c \in configs /\ c # active
    /\ Edits
    /\ active' = c /\ Rebuilt
    /\ UNCHANGED <<s, configs, built, pushed, geo>>
    /\ Saved

\* assignSplitProfile(): a config that uses Default is not listed.
Assign(f, old, c, n) ==
    LET rest == Restrict(f, DOMAIN f \ {old, c})
    IN  IF n = "Default" THEN rest ELSE [x \in DOMAIN rest \union {c} |-> IF x = c THEN n ELSE f[x]]

\* finalizeCreatedConfig(): a new config becomes the active one; an edited one may
\* change its path, and nothing happens to the session when nothing changed.
SaveConfig(old, c, n, changed) ==
    /\ old \in configs \union {NoConfig} /\ n \in DOMAIN s.rules
    /\ (c \notin configs /\ changed) \/ c = old
    /\ Edits
    /\ configs' = (configs \ {old}) \union {c}
    /\ active' = IF old = NoConfig \/ active = old THEN c ELSE active
    /\ s' = [s EXCEPT !.assigned = Assign(@, old, c, n)]
    /\ IF active' = c /\ (changed \/ n # ProfileOf(s, c))
       THEN pushed' = Routing(s', c, geo) /\ Rebuilt
       ELSE UNCHANGED <<session, pushed>>
    /\ Saved
    /\ UNCHANGED <<built, geo>>

\* The tunnel of a config that is removed is taken down; the next in the list is
\* the active one.
RemoveConfig(c) ==
    /\ c \in configs
    /\ Edits
    /\ configs' = configs \ {c}
    /\ active' \in (IF active # c THEN {active} ELSE IF configs' = {} THEN {NoConfig} ELSE configs')
    /\ session' = IF c = active THEN "off" ELSE session
    /\ s' = [s EXCEPT !.assigned = Restrict(@, DOMAIN @ \ {c})]
    /\ Saved
    /\ UNCHANGED <<built, pushed, geo>>

ConnectVpn ==
    /\ session = "off" /\ active # NoConfig
    /\ session' = "waiting"
    /\ UNCHANGED <<s, file, configs, active, built, pushed, geo, edits>>

\* onConnectTomlReady().
Ready ==
    /\ session = "waiting"
    /\ session' = "up" /\ built' = s.routes
    /\ pushed' = Routing(s, active, geo)
    /\ UNCHANGED <<s, file, configs, active, geo, edits>>

\* The user disconnects, the password is missing, or the session fails.
Ends ==
    /\ session # "off"
    /\ session' = "off"
    /\ UNCHANGED <<s, file, configs, active, built, pushed, geo, edits>>

\* A list has been read or downloaded.
GeoChanged ==
    /\ "geo" \in Happens
    /\ geo' \in {"none", "some", "huge"} \ {geo}
    /\ UNCHANGED <<s, file, configs, active, built, edits>>
    /\ Applied

-----------------------------------------------------------------------------
(* The program ends and starts again.                                      *)

Starts(f) ==
    /\ LET t == Loaded(f) IN
          \/ s' = t /\ file' = f
          \/ s' = Resolved(t) /\ file' = IF s' = t THEN f ELSE Written(s', f.last)
    /\ active' \in (IF f.last \in configs THEN {f.last} ELSE IF configs = {} THEN {NoConfig} ELSE configs)
    /\ session' = "off" /\ built' = {} /\ geo' = "none"
    /\ pushed' = Routing(s', active', "none")
    /\ UNCHANGED configs

Restart == Edits /\ Starts(file)

\* The power goes while a save is written, this one or that of an edit.
Cut ==
    /\ "cut" \in Happens
    /\ Edits
    /\ \E i \in 1 .. Len(Order), ks \in SUBSET {Folded[n] : n \in DOMAIN s.rules},
          a \in {s.mirror.apps, {}} :
          Starts(CutFile(file, Written([s EXCEPT !.apps[s.shown] = a, !.mirror.apps = a], active), i, ks))

-----------------------------------------------------------------------------
Fresh == [enabled |-> TRUE, mode |-> "general", routes |-> {"lan"}, mirror |-> {}, shown |-> "Default",
          names |-> {"Default"}, rules |-> Empty({}, {}), apps |-> Empty({}, {}), seeded |-> FALSE,
          legacy |-> {}, assigned |-> Empty({}, ""), list |-> Empty({}, "no"), last |-> NoConfig]

\* The file of a version that had one list of programs for all profiles, brought
\* from another platform.
Earlier == [Fresh EXCEPT !.names = Names, !.rules = [k \in Folding |-> Addresses],
                         !.routes = Routes, !.legacy = Programs,
                         !.assigned = [c \in Configs |-> CHOOSE n \in Names : n # "Default"]]

Init ==
    /\ configs = Configs /\ active \in Configs
    /\ LET f == IF "legacy" \in Happens THEN Earlier ELSE Fresh
           t == Loaded(f)
       IN  \/ s = t /\ file = f
           \/ s = Resolved(t) /\ file = IF s = t THEN f ELSE Written(s, f.last)
    /\ session = "off" /\ built = {} /\ geo = "none"
    /\ pushed = Routing(s, active, "none")
    /\ edits = 0

EditProfile ==
    \/ \E r \in SUBSET Valid : EditRules(r)
    \/ \E a \in SUBSET Programs : EditApps(a)
    \/ \E l \in Lists : EditList(l)
    \/ \E n \in Names : SelectProfile(n) \/ AddProfile(n) \/ RemoveProfile(n)

EditConfigs ==
    \E c \in Configs :
        \/ SelectConfig(c) \/ RemoveConfig(c)
        \/ \E old \in Configs \union {NoConfig}, n \in Names, changed \in BOOLEAN :
              SaveConfig(old, c, n, changed)

Next == \/ EditProfile \/ EditConfigs \/ SetSplitEnabled \/ SetVpnMode
        \/ \E r \in SUBSET {"lan"} : EditRoutes(r)
        \/ ConnectVpn \/ Ready \/ Ends \/ GeoChanged \/ Restart \/ Cut

Spec == Init /\ [][Next]_vars

-----------------------------------------------------------------------------
(* What must be right.                                                     *)

\* A session that is up is routed by the profile of its own config as it is now,
\* whatever profile the page shows: no edit of a rule, a profile, a config or a
\* list forgets to hand it on (BackendSplit.cpp:527-530, BackendGeo.cpp:15-19).
RoutedByItsProfile ==
    session = "up" => /\ pushed = Routing(s, active, geo)
                      /\ pushed.routes = built

\* The core is never in the mode that sends only listed traffic through the tunnel
\* with nothing listed that it can use, and with the split off no program leaves
\* the tunnel (BackendSplit.cpp:466-475, 519-525, 539-544).
NeverFailsOpen ==
    /\ pushed.selective => \/ pushed.rules \cap Valid # {}
                           \/ pushed.apps \cap Usable # {}
                           \/ pushed.list = "vpn"
    /\ (pushed.manual = "selective" /\ pushed.rules # {}) => pushed.selective

\* What the page edits is what the profile holds (AppSettings.h:49-56).
PageShowsTheProfile ==
    s.mirror = [rules |-> s.rules[s.shown], apps |-> s.apps[s.shown]]

\* Every config is routed after a restart as before it, but for an updater's rule
\* that has become its program's (BackendSplit.cpp:400-407).
RestartKeepsRules ==
    Restart => \A c \in configs :
        \/ Routing(s', c, "some") = Routing(s, c, "some")
        \/ Routing(s', c, "some") = Routing(Resolved(s), c, "some")

\* A save that is cut, the first of a version with profiles, leaves each profile
\* that was not being edited the programs it had (AppSettings.cpp:271-272).
UpgradeKeepsPrograms ==
    (Cut /\ ~file.seeded) => \A n \in DOMAIN s.apps \ {s.shown} :
        s'.apps[n] \in {s.apps[n], Resolved(s).apps[n]}
=============================================================================
