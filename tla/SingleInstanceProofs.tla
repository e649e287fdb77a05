------------------------ MODULE SingleInstanceProofs ------------------------
(***************************************************************************)
(* Theorems about SingleInstance, for any number of launches, any accounts *)
(* that hold names in /tmp, and stalls, quits, crashes, updates and a      *)
(* store that locks in any order, in a session that has its own runtime    *)
(* directory and where launches do not overlap in their start.             *)
(***************************************************************************)
EXTENDS SingleInstance, TLAPS

(***************************************************************************)
(* The inductive invariant.                                                *)
(***************************************************************************)
Starting == Asking \cup Becoming \cup {"swapping"}
Running  == {"loading", "up"}

\* Where this user's instances are found, and never elsewhere.
NamesRight ==
    /\ loggedIn = TRUE
    /\ \A p \in Procs : pc[p] # "off" => own[p] = "runtime"
    /\ holder["runtime"] \in Procs \cup {Nobody, Stale}
    /\ \A n \in {"temp", "shared"} : holder[n] \in {Nobody, "open", "mute"}

\* One launch is at its start at a time.
StartsRight == \A p, q \in Procs : pc[p] \in Starting /\ pc[q] \in Starting => p = q

\* The name is the listener's, and who runs listens.
ListenRight ==
    /\ \A p \in Procs : listening[p] = TRUE =>
           holder["runtime"] = p /\ pc[p] \in Running \cup {"leaving"}
    /\ \A p \in Procs : listening[p] = TRUE /\ stalled[p] = TRUE => pc[p] \in Running
    /\ \A p \in Procs : holder["runtime"] = p => listening[p] = TRUE
    /\ \A p \in Procs : pc[p] \in Running => listening[p] = TRUE

\* A launch that went past this user's own name found nobody there, and nobody has come.
Past(p) == pc[p] \in Becoming \cup {"swapping"} \/ (pc[p] = "ask" /\ nth[p] # 1)
LookRight ==
    /\ \A p \in Procs : pc[p] \in {"off", "read", "move", "again"} \cup Sending => nth[p] = 1
    /\ \A p, q \in Procs : Past(p) => listening[q] = FALSE

\* Where a busy instance refuses, its claim tells it from a file left over.
ClaimRight ==
    BusyIsRefused =>
        /\ \A p \in Procs : pc[p] # "swapping"
        /\ \A p \in Procs : listening[p] = TRUE => claim["runtime"] = p
        /\ \A p \in Procs : claim["runtime"] = p /\ Alive(p) => listening[p] = TRUE
        /\ \A p \in Procs : claim["runtime"] = p => pc[p] # "off"

LaunchRight == NamesRight /\ StartsRight /\ ListenRight /\ LookRight /\ ClaimRight
LaunchInv == LaunchTypeOK /\ LaunchRight

\* Tokens, where the store takes them and no new build comes: the listener's is the one
\* stored, read and shown, and a command that was taken waits with it.
TokensRight ==
    /\ locked = FALSE /\ file = NoToken
    /\ \A p \in Procs : pc[p] # "swapping" /\ pc[p] # "move"
    /\ \A p \in Procs : listening[p] = TRUE \/ pc[p] = "listen" =>
                            mine[p] = p /\ keyring \in {p, NoToken}
    /\ \A p \in Procs : restoring[p] # "no" => listening[p] = TRUE
    /\ \A p, q \in Procs : pc[q] \in {"ask", "again"} \cup Sending /\ listening[p] = TRUE
                               => has[q] \in {p, NoToken}
    /\ \A q \in Procs : pc[q] \in Sending => has[q] = to[q]

Waits(p) == \E q \in Procs : \E i \in DOMAIN waiting[q] :
                waiting[q][i].from = p /\ waiting[q][i].token = q /\ listening[q] = TRUE
CommandsRight == \A p \in Procs : pc[p] = "told" => p \in ran \cup dropped \/ Waits(p)

(***************************************************************************)
(* Types.                                                                  *)
(***************************************************************************)
Places == {"off"} \cup Asking \cup Instance \cup Leaving \cup Over
Holders == Procs \cup {Nobody, Stale, "open", "mute"}
Calls == [from : Procs, token : Tokens]

LEMMA TypesAre ==
    LaunchTypeOK <=>
        /\ loggedIn \in BOOLEAN /\ locked \in BOOLEAN /\ holder \in [Names -> Holders]
        /\ claim \in [Names -> Procs \cup {Nobody}] /\ keyring \in Tokens /\ file \in Tokens
        /\ pc \in [Procs -> Places] /\ own \in [Procs -> {"runtime", "temp"}]
        /\ nth \in [Procs -> 1..3] /\ has \in [Procs -> Tokens] /\ mine \in [Procs -> Tokens]
        /\ to \in [Procs -> Procs] /\ waiting \in [Procs -> Seq(Calls)]
        /\ restoring \in [Procs -> {"no", "look", "write"}] /\ listening \in [Procs -> BOOLEAN]
        /\ stalled \in [Procs -> BOOLEAN] /\ recheck \in [Procs -> BOOLEAN]
        /\ handedOver \in [Procs -> BOOLEAN] /\ ran \subseteq Procs /\ dropped \subseteq Procs
        /\ \A p \in Procs : mine[p] \in {p, NoToken}
    BY DEF LaunchTypeOK, Places, Calls, Holders

LEMMA TypesHold ==
    ASSUME loggedIn' \in BOOLEAN, locked' \in BOOLEAN, holder' \in [Names -> Holders],
           claim' \in [Names -> Procs \cup {Nobody}], keyring' \in Tokens, file' \in Tokens,
           pc' \in [Procs -> Places], own' \in [Procs -> {"runtime", "temp"}],
           nth' \in [Procs -> 1..3], has' \in [Procs -> Tokens], mine' \in [Procs -> Tokens],
           to' \in [Procs -> Procs], waiting' \in [Procs -> Seq(Calls)],
           restoring' \in [Procs -> {"no", "look", "write"}], listening' \in [Procs -> BOOLEAN],
           stalled' \in [Procs -> BOOLEAN], recheck' \in [Procs -> BOOLEAN],
           handedOver' \in [Procs -> BOOLEAN], ran' \subseteq Procs, dropped' \subseteq Procs,
           \A p \in Procs : mine'[p] \in {p, NoToken}
    PROVE  LaunchTypeOK'
<1>1. /\ {has', mine'} \subseteq [Procs -> Tokens]
      /\ {listening', stalled', recheck', handedOver'} \subseteq [Procs -> BOOLEAN]
    OBVIOUS
<1> QED  BY <1>1, Zenon DEF LaunchTypeOK, Places, Calls, Holders

LEMMA GotoIs ==
    ASSUME LaunchTypeOK, NEW p \in Procs, NEW l \in Places, Goto(p, l)
    PROVE  pc' \in [Procs -> Places] /\ pc'[p] = l /\ \A q \in Procs : q # p => pc'[q] = pc[q]
    BY TypesAre DEF Goto

LEMMA StoreTypes ==
    ASSUME LaunchTypeOK, NEW t \in Tokens, StoreToken(t)
    PROVE  keyring' \in Tokens /\ file' \in Tokens /\ locked' \in BOOLEAN
    BY TypesAre DEF StoreToken, Tokens

LEMMA SayTypes ==
    ASSUME LaunchTypeOK, NEW p \in Procs, NEW q \in Procs, NEW t \in Tokens, Say(q, p, t)
    PROVE  waiting' \in [Procs -> Seq(Calls)]
<1> DEFINE call == [from |-> p, token |-> t]
<1>1. waiting \in [Procs -> Seq(Calls)] /\ call \in Calls
    BY TypesAre DEF Calls
<1>2. Append(waiting[q], call) \in Seq(Calls)
    BY <1>1
<1>3. waiting' = [waiting EXCEPT ![q] = Append(waiting[q], call)]
    BY DEF Say
<1> QED  BY <1>1, <1>2, <1>3

LEMMA ListensTypes ==
    ASSUME LaunchTypeOK, NEW p \in Procs, Listens(p)
    PROVE  holder' \in [Names -> Holders] /\ listening' \in [Procs -> BOOLEAN]
<1>1. /\ holder \in [Names -> Holders] /\ listening \in [Procs -> BOOLEAN]
      /\ p \in Holders
    BY TypesAre DEF Holders
<1>2. \/ holder' = holder /\ listening' = listening
      \/ holder' = [holder EXCEPT ![own[p]] = p] /\ listening' = [listening EXCEPT ![p] = TRUE]
    BY DEF Listens
<1>3. holder' \in [Names -> Holders]
    BY <1>1, <1>2, Zenon
<1>4. listening' \in [Procs -> BOOLEAN]
    BY <1>1, <1>2, Zenon
<1> QED  BY <1>3, <1>4

\* The launches that wait at an instance are launches.
LEMMA WaitersAre ==
    ASSUME LaunchTypeOK, NEW p \in Procs
    PROVE  {waiting[p][i].from : i \in DOMAIN waiting[p]} \subseteq Procs
<1>1. waiting[p] \in Seq(Calls)
    BY TypesAre
<1>2. \A i \in DOMAIN waiting[p] : waiting[p][i] \in Calls
    BY <1>1
<1> QED  BY <1>2 DEF Calls

LEMMA CloseTypes ==
    ASSUME LaunchTypeOK, NEW p \in Procs, CloseListener(p)
    PROVE  /\ holder' \in [Names -> Holders] /\ listening' \in [Procs -> BOOLEAN]
           /\ waiting' \in [Procs -> Seq(Calls)] /\ dropped' \subseteq Procs
<1>1. holder \in [Names -> Holders] /\ listening \in [Procs -> BOOLEAN]
    BY TypesAre
<1>2. listening' \in [Procs -> BOOLEAN]
    BY <1>1, Zenon DEF CloseListener
<1>3. holder' \in [Names -> Holders]
    <2>1. holder' = holder \/ holder' = [holder EXCEPT ![own[p]] = Nobody]
        BY <1>1 DEF CloseListener
    <2>2. Nobody \in Holders
        BY DEF Holders
    <2> QED  BY <1>1, <2>1, <2>2, Zenon
<1>4. waiting' \in [Procs -> Seq(Calls)]
    BY TypesAre DEF CloseListener
<1>5. dropped' \subseteq Procs
    BY TypesAre, WaitersAre DEF CloseListener
<1> QED  BY <1>2, <1>3, <1>4, <1>5

LEMMA KeepTypes ==
    ASSUME LaunchTypeOK, NEW p \in Procs, KeepTokenStored(p)
    PROVE  restoring' \in [Procs -> {"no", "look", "write"}]
<1>1. restoring \in [Procs -> {"no", "look", "write"}]
    BY TypesAre
<1>2. restoring' = [restoring EXCEPT ![p] = restoring[p]]
      \/ restoring' = [restoring EXCEPT ![p] = "look"]
    BY DEF KeepTokenStored
<1> QED  BY <1>1, <1>2, Zenon

(***************************************************************************)
(* What a connection meets.                                                *)
(***************************************************************************)
LEMMA TryIs ==
    ASSUME LaunchTypeOK, NamesRight, NEW p \in Procs, pc[p] # "off"
    PROVE  /\ own[p] = "runtime" /\ Len(Try(p)) = 3 /\ Try(p)[1] = "runtime"
           /\ nth[p] \in 1..3 /\ Try(p)[nth[p]] \in Names
           /\ nth[p] # 1 => Try(p)[nth[p]] \in {"temp", "shared"}
<1>1. own[p] = "runtime" /\ nth[p] \in 1..3
    BY TypesAre DEF NamesRight
<1>2. Try(p) = <<"runtime", "temp", "shared">>
    BY <1>1 DEF Try
<1> QED  BY <1>1, <1>2 DEF Names

LEMMA OursIs ==
    ASSUME LaunchTypeOK, NEW n \in Names, Meets(n) = "ours"
    PROVE  holder[n] \in Procs /\ stalled[holder[n]] = FALSE
<1>1. holder[n] \in Holders
    BY TypesAre
<1>2. holder[n] \notin {Nobody, Stale, "open", "mute"}
    BY <1>1 DEF Meets, PeerIsSameUser, Nobody, Stale
<1>3. holder[n] \in Procs
    BY <1>1, <1>2 DEF Holders
<1>4. stalled[holder[n]] \in BOOLEAN
    BY <1>3, TypesAre
<1>5. ~stalled[holder[n]]
    BY <1>2, <1>3 DEF Meets, PeerIsSameUser, Nobody, Stale
<1> QED  BY <1>3, <1>4, <1>5

\* Elsewhere than at this user's own name nobody of this user's answers.
LEMMA OthersAre ==
    ASSUME LaunchTypeOK, NamesRight, SingleInstanceAssumption, NEW n \in {"temp", "shared"}
    PROVE  holder[n] \notin Procs /\ Meets(n) # "ours"
<1>1. holder[n] \in {Nobody, "open", "mute"}
    BY DEF NamesRight
<1>2. holder[n] \notin Procs
    BY <1>1 DEF SingleInstanceAssumption
<1> QED  BY <1>2, OursIs DEF Names

(***************************************************************************)
(* Every step keeps the types.                                             *)
(***************************************************************************)
LEMMA PlainTypes ==
    ASSUME LaunchTypeOK, NEW p \in Procs,
           \/ Launch(p) \/ MoveToken(p) \/ GiveWay(p) \/ Refused(p) \/ Wire(p)
           \/ RestoreLooks(p) \/ Quit(p) \/ Compare(p) \/ Delete(p) \/ Stall(p)
    PROVE  LaunchTypeOK'
<1>1. CASE Launch(p)
    BY <1>1 DEF LaunchTypeOK, Launch, Goto, world, store, asking, serving, history, Asking, Sending,
       Becoming, Instance, Leaving, Over
<1>2. CASE MoveToken(p)
    BY <1>2 DEF LaunchTypeOK, MoveToken, Goto, world, store, asking, serving, history, Asking, Sending,
       Becoming, Instance, Leaving, Over, Tokens
<1>3. CASE GiveWay(p)
    BY <1>3 DEF LaunchTypeOK, GiveWay, Goto, world, store, asking, serving, history, Asking, Sending,
       Becoming, Instance, Leaving, Over
<1>4. CASE Refused(p)
    BY <1>4 DEF LaunchTypeOK, Refused, Goto, world, store, asking, serving, history, Asking, Sending,
       Becoming, Instance, Leaving, Over
<1>5. CASE Wire(p)
    BY <1>5 DEF LaunchTypeOK, Wire, Goto, world, store, asking, serving, history, Asking, Sending,
       Becoming, Instance, Leaving, Over
<1>6. CASE RestoreLooks(p)
    BY <1>6 DEF LaunchTypeOK, RestoreLooks, Goto, world, store, asking, serving, history, Asking, Sending,
       Becoming, Instance, Leaving, Over
<1>7. CASE Quit(p)
    BY <1>7 DEF LaunchTypeOK, Quit, Goto, world, store, asking, serving, history, Asking, Sending,
       Becoming, Instance, Leaving, Over
<1>8. CASE Compare(p)
    BY <1>8 DEF LaunchTypeOK, Compare, Goto, world, store, asking, serving, history, Asking, Sending,
       Becoming, Instance, Leaving, Over
<1>9. CASE Delete(p)
    BY <1>9 DEF LaunchTypeOK, Delete, Goto, world, store, asking, serving, history, Asking, Sending,
       Becoming, Instance, Leaving, Over, Tokens
<1>10. CASE Stall(p)
    BY <1>10 DEF LaunchTypeOK, Stall, Goto, world, store, asking, serving, history, Asking, Sending,
       Becoming, Instance, Leaving, Over
<1> QED  BY <1>1, <1>2, <1>3, <1>4, <1>5, <1>6, <1>7, <1>8, <1>9, <1>10

LEMMA ReadTokenTypes ==
    ASSUME LaunchTypeOK, NEW p \in Procs, ReadToken(p)
    PROVE  LaunchTypeOK'
<1>1. UNCHANGED <<loggedIn, locked, holder, claim, keyring, own, nth, mine, to, waiting, restoring, listening, stalled, recheck, handedOver, ran, dropped>>
    BY DEF ReadToken, world, store, asking, serving, history
<1>2. /\ has' = [has EXCEPT ![p] = StoredToken] /\ file' \in {file, NoToken}
      /\ Goto(p, "ask") \/ Goto(p, "move")
    BY DEF ReadToken
<1>3. "ask" \in Places /\ "move" \in Places
    BY DEF Places, Asking, Becoming, Instance, Leaving, Over, Sending
<1>4. NoToken \in Tokens /\ StoredToken \in Tokens
    BY TypesAre DEF Tokens, StoredToken, Loaded
<1>5. pc' \in [Procs -> Places]
    BY <1>2, <1>3, GotoIs
<1>6. has' \in [Procs -> Tokens]
    BY <1>2, <1>4, TypesAre
<1>7. file' \in Tokens
    BY <1>2, <1>4, TypesAre
<1>8. /\ loggedIn' \in BOOLEAN /\ locked' \in BOOLEAN /\ holder' \in [Names -> Holders]
      /\ claim' \in [Names -> Procs \cup {Nobody}] /\ keyring' \in Tokens
      /\ own' \in [Procs -> {"runtime", "temp"}] /\ nth' \in [Procs -> 1..3]
      /\ mine' \in [Procs -> Tokens] /\ to' \in [Procs -> Procs]
      /\ waiting' \in [Procs -> Seq(Calls)] /\ restoring' \in [Procs -> {"no", "look", "write"}]
      /\ listening' \in [Procs -> BOOLEAN] /\ stalled' \in [Procs -> BOOLEAN]
      /\ recheck' \in [Procs -> BOOLEAN] /\ handedOver' \in [Procs -> BOOLEAN]
      /\ ran' \subseteq Procs /\ dropped' \subseteq Procs
      /\ \A q \in Procs : mine'[q] \in {q, NoToken}
    BY <1>1, TypesAre
<1> QED  BY <1>2, <1>3, <1>4, <1>5, <1>6, <1>7, <1>8, TypesHold, Zenon

LEMMA NoInstanceTypes ==
    ASSUME LaunchTypeOK, NamesRight, NEW p \in Procs, NoInstance(p)
    PROVE  LaunchTypeOK'
<1>1. UNCHANGED <<loggedIn, locked, holder, claim, keyring, file, own, has, mine, to, waiting, restoring, listening, stalled, recheck, handedOver, ran, dropped>>
    BY DEF NoInstance, world, store, asking, serving, history
<1>2. pc[p] \in Looking /\ pc[p] # "off"
    BY DEF NoInstance, Looking
<1>3. Len(Try(p)) = 3 /\ nth \in [Procs -> 1..3]
    BY <1>2, TryIs, TypesAre
<1>4. \/ nth[p] < 3 /\ nth' = [nth EXCEPT ![p] = @ + 1] /\ Goto(p, "ask")
      \/ nth' = nth /\ Goto(p, "token")
    BY <1>3 DEF NoInstance
<1>5. "ask" \in Places /\ "token" \in Places
    BY DEF Places, Asking, Becoming, Instance, Leaving, Over, Sending
<1>6. pc' \in [Procs -> Places]
    BY <1>4, <1>5, GotoIs
<1>7. nth' \in [Procs -> 1..3]
    BY <1>3, <1>4
<1>8. /\ loggedIn' \in BOOLEAN /\ locked' \in BOOLEAN /\ holder' \in [Names -> Holders]
      /\ claim' \in [Names -> Procs \cup {Nobody}] /\ keyring' \in Tokens /\ file' \in Tokens
      /\ own' \in [Procs -> {"runtime", "temp"}] /\ has' \in [Procs -> Tokens]
      /\ mine' \in [Procs -> Tokens] /\ to' \in [Procs -> Procs]
      /\ waiting' \in [Procs -> Seq(Calls)] /\ restoring' \in [Procs -> {"no", "look", "write"}]
      /\ listening' \in [Procs -> BOOLEAN] /\ stalled' \in [Procs -> BOOLEAN]
      /\ recheck' \in [Procs -> BOOLEAN] /\ handedOver' \in [Procs -> BOOLEAN]
      /\ ran' \subseteq Procs /\ dropped' \subseteq Procs
      /\ \A q \in Procs : mine'[q] \in {q, NoToken}
    BY <1>1, TypesAre
<1> QED  BY <1>2, <1>3, <1>4, <1>5, <1>6, <1>7, <1>8, TypesHold, Zenon

LEMMA NothingToShowTypes ==
    ASSUME LaunchTypeOK, NamesRight, NEW p \in Procs, NothingToShow(p)
    PROVE  LaunchTypeOK'
<1>1. UNCHANGED <<loggedIn, locked, holder, claim, keyring, file, own, nth, has, mine, to, restoring, listening, stalled, recheck, handedOver, ran, dropped>>
    BY DEF NothingToShow, world, store, asking, serving, history
<1>2. pc[p] # "off"
    BY DEF NothingToShow, Looking
<1>3. Try(p)[nth[p]] \in Names
    BY <1>2, TryIs
<1>4. Meets(Try(p)[nth[p]]) = "ours" /\ Say(holder[Try(p)[nth[p]]], p, NoToken) /\ Goto(p, "gave up")
    BY DEF NothingToShow
<1>5. holder[Try(p)[nth[p]]] \in Procs
    BY <1>3, <1>4, OursIs
<1>6. "gave up" \in Places /\ NoToken \in Tokens
    BY DEF Tokens, Places, Asking, Becoming, Instance, Leaving, Over, Sending
<1>7. pc' \in [Procs -> Places]
    BY <1>4, <1>6, GotoIs
<1>8. waiting' \in [Procs -> Seq(Calls)]
    BY <1>4, <1>5, <1>6, SayTypes
<1>9. /\ loggedIn' \in BOOLEAN /\ locked' \in BOOLEAN /\ holder' \in [Names -> Holders]
      /\ claim' \in [Names -> Procs \cup {Nobody}] /\ keyring' \in Tokens /\ file' \in Tokens
      /\ own' \in [Procs -> {"runtime", "temp"}] /\ nth' \in [Procs -> 1..3]
      /\ has' \in [Procs -> Tokens] /\ mine' \in [Procs -> Tokens] /\ to' \in [Procs -> Procs]
      /\ restoring' \in [Procs -> {"no", "look", "write"}] /\ listening' \in [Procs -> BOOLEAN]
      /\ stalled' \in [Procs -> BOOLEAN] /\ recheck' \in [Procs -> BOOLEAN]
      /\ handedOver' \in [Procs -> BOOLEAN] /\ ran' \subseteq Procs /\ dropped' \subseteq Procs
      /\ \A q \in Procs : mine'[q] \in {q, NoToken}
    BY <1>1, TypesAre
<1> QED  BY <1>2, <1>3, <1>4, <1>5, <1>6, <1>7, <1>8, <1>9, TypesHold, Zenon

LEMMA ConnectTypes ==
    ASSUME LaunchTypeOK, NamesRight, NEW p \in Procs, Connect(p)
    PROVE  LaunchTypeOK'
<1>1. UNCHANGED <<loggedIn, locked, holder, claim, keyring, file, own, nth, has, mine, waiting, restoring, listening, stalled, recheck, handedOver, ran, dropped>>
    BY DEF Connect, world, store, asking, serving, history
<1>2. pc[p] # "off"
    BY DEF Connect, Looking
<1>3. Try(p)[nth[p]] \in Names
    BY <1>2, TryIs
<1>4. /\ Meets(Try(p)[nth[p]]) = "ours" /\ to' = [to EXCEPT ![p] = holder[Try(p)[nth[p]]]]
      /\ Goto(p, "send") \/ Goto(p, "send again")
    BY DEF Connect
<1>5. holder[Try(p)[nth[p]]] \in Procs
    BY <1>3, <1>4, OursIs
<1>6. "send" \in Places /\ "send again" \in Places
    BY DEF Places, Asking, Becoming, Instance, Leaving, Over, Sending
<1>7. pc' \in [Procs -> Places]
    BY <1>4, <1>6, GotoIs
<1>8. to' \in [Procs -> Procs]
    BY <1>4, <1>5, TypesAre
<1>9. /\ loggedIn' \in BOOLEAN /\ locked' \in BOOLEAN /\ holder' \in [Names -> Holders]
      /\ claim' \in [Names -> Procs \cup {Nobody}] /\ keyring' \in Tokens /\ file' \in Tokens
      /\ own' \in [Procs -> {"runtime", "temp"}] /\ nth' \in [Procs -> 1..3]
      /\ has' \in [Procs -> Tokens] /\ mine' \in [Procs -> Tokens]
      /\ waiting' \in [Procs -> Seq(Calls)] /\ restoring' \in [Procs -> {"no", "look", "write"}]
      /\ listening' \in [Procs -> BOOLEAN] /\ stalled' \in [Procs -> BOOLEAN]
      /\ recheck' \in [Procs -> BOOLEAN] /\ handedOver' \in [Procs -> BOOLEAN]
      /\ ran' \subseteq Procs /\ dropped' \subseteq Procs
      /\ \A q \in Procs : mine'[q] \in {q, NoToken}
    BY <1>1, TypesAre
<1> QED  BY <1>2, <1>3, <1>4, <1>5, <1>6, <1>7, <1>8, <1>9, TypesHold, Zenon

LEMMA TakenTypes ==
    ASSUME LaunchTypeOK, NEW p \in Procs, Taken(p)
    PROVE  LaunchTypeOK'
<1>1. UNCHANGED <<loggedIn, locked, holder, claim, keyring, file, own, nth, has, mine, to, restoring, listening, stalled, recheck, handedOver, ran, dropped>>
    BY DEF Taken, world, store, asking, serving, history
<1>2. Say(to[p], p, has[p]) /\ Goto(p, "told")
    BY DEF Taken
<1>3. to[p] \in Procs /\ has[p] \in Tokens
    BY TypesAre
<1>4. "told" \in Places
    BY DEF Places, Asking, Becoming, Instance, Leaving, Over, Sending
<1>5. pc' \in [Procs -> Places]
    BY <1>2, <1>4, GotoIs
<1>6. waiting' \in [Procs -> Seq(Calls)]
    BY <1>2, <1>3, SayTypes
<1>7. /\ loggedIn' \in BOOLEAN /\ locked' \in BOOLEAN /\ holder' \in [Names -> Holders]
      /\ claim' \in [Names -> Procs \cup {Nobody}] /\ keyring' \in Tokens /\ file' \in Tokens
      /\ own' \in [Procs -> {"runtime", "temp"}] /\ nth' \in [Procs -> 1..3]
      /\ has' \in [Procs -> Tokens] /\ mine' \in [Procs -> Tokens] /\ to' \in [Procs -> Procs]
      /\ restoring' \in [Procs -> {"no", "look", "write"}] /\ listening' \in [Procs -> BOOLEAN]
      /\ stalled' \in [Procs -> BOOLEAN] /\ recheck' \in [Procs -> BOOLEAN]
      /\ handedOver' \in [Procs -> BOOLEAN] /\ ran' \subseteq Procs /\ dropped' \subseteq Procs
      /\ \A q \in Procs : mine'[q] \in {q, NoToken}
    BY <1>1, TypesAre
<1> QED  BY <1>2, <1>3, <1>4, <1>5, <1>6, <1>7, TypesHold, Zenon

LEMMA WriteTokenTypes ==
    ASSUME LaunchTypeOK, NEW p \in Procs, WriteToken(p)
    PROVE  LaunchTypeOK'
<1>1. UNCHANGED <<loggedIn, claim, own, nth, has, to, waiting, restoring, listening, stalled, recheck, handedOver, ran, dropped>>
    BY DEF WriteToken, world, store, asking, serving, history
<1>2. /\ holder' = [holder EXCEPT ![own[p]] = IF Removable(own[p]) THEN Nobody ELSE @]
      /\ Goto(p, "listen")
      /\ \/ StoreToken(p) /\ mine' = [mine EXCEPT ![p] = p]
         \/ UNCHANGED <<store, mine>>
    BY DEF WriteToken
<1>3. "listen" \in Places /\ p \in Tokens /\ Nobody \in Holders
    BY DEF Tokens, Holders, Places, Asking, Becoming, Instance, Leaving, Over, Sending
<1>4. /\ holder \in [Names -> Holders] /\ mine \in [Procs -> Tokens]
      /\ \A q \in Procs : mine[q] \in {q, NoToken}
    BY TypesAre
<1>5. holder' = holder \/ holder' = [holder EXCEPT ![own[p]] = Nobody]
    BY <1>2, <1>4
<1>6. mine' = mine \/ mine' = [mine EXCEPT ![p] = p]
    BY <1>2 DEF store
<1>7. \A q \in Procs : mine'[q] \in {q, NoToken}
    BY <1>4, <1>6
<1>8. keyring' \in Tokens /\ file' \in Tokens /\ locked' \in BOOLEAN
    BY <1>2, <1>3, StoreTypes, TypesAre DEF store
<1>9. pc' \in [Procs -> Places]
    BY <1>2, <1>3, GotoIs
<1>10. holder' \in [Names -> Holders]
    BY <1>3, <1>4, <1>5, Zenon
<1>11. mine' \in [Procs -> Tokens]
    BY <1>3, <1>4, <1>6, Zenon
<1>12. /\ loggedIn' \in BOOLEAN /\ claim' \in [Names -> Procs \cup {Nobody}]
      /\ own' \in [Procs -> {"runtime", "temp"}] /\ nth' \in [Procs -> 1..3]
      /\ has' \in [Procs -> Tokens] /\ to' \in [Procs -> Procs]
      /\ waiting' \in [Procs -> Seq(Calls)] /\ restoring' \in [Procs -> {"no", "look", "write"}]
      /\ listening' \in [Procs -> BOOLEAN] /\ stalled' \in [Procs -> BOOLEAN]
      /\ recheck' \in [Procs -> BOOLEAN] /\ handedOver' \in [Procs -> BOOLEAN]
      /\ ran' \subseteq Procs /\ dropped' \subseteq Procs
    BY <1>1, TypesAre
<1> QED  BY <1>2, <1>3, <1>4, <1>5, <1>6, <1>7, <1>8, <1>9, <1>10, <1>11, <1>12, TypesHold, Zenon

LEMMA ListenTypes ==
    ASSUME LaunchTypeOK, NEW p \in Procs, Listen(p)
    PROVE  LaunchTypeOK'
<1>1. UNCHANGED <<loggedIn, locked, keyring, file, own, nth, has, mine, to, waiting, restoring, stalled, recheck, handedOver, ran, dropped>>
    BY DEF Listen, world, store, asking, serving, history
<1>2. /\ claim' = [claim EXCEPT ![own[p]] =
                    IF BusyIsRefused /\ ~ALiveInstanceClaims(own[p]) THEN p ELSE @]
      /\ Listens(p) /\ Goto(p, "loading")
    BY DEF Listen
<1>3. "loading" \in Places
    BY DEF Places, Asking, Becoming, Instance, Leaving, Over, Sending
<1>4. claim \in [Names -> Procs \cup {Nobody}]
    BY TypesAre
<1>5. claim' = claim \/ claim' = [claim EXCEPT ![own[p]] = p]
    BY <1>2, <1>4
<1>6. holder' \in [Names -> Holders] /\ listening' \in [Procs -> BOOLEAN]
    BY <1>2, ListensTypes
<1>7. pc' \in [Procs -> Places]
    BY <1>2, <1>3, GotoIs
<1>8. claim' \in [Names -> Procs \cup {Nobody}]
    BY <1>4, <1>5, Zenon
<1>9. /\ loggedIn' \in BOOLEAN /\ locked' \in BOOLEAN /\ keyring' \in Tokens /\ file' \in Tokens
      /\ own' \in [Procs -> {"runtime", "temp"}] /\ nth' \in [Procs -> 1..3]
      /\ has' \in [Procs -> Tokens] /\ mine' \in [Procs -> Tokens] /\ to' \in [Procs -> Procs]
      /\ waiting' \in [Procs -> Seq(Calls)] /\ restoring' \in [Procs -> {"no", "look", "write"}]
      /\ stalled' \in [Procs -> BOOLEAN] /\ recheck' \in [Procs -> BOOLEAN]
      /\ handedOver' \in [Procs -> BOOLEAN] /\ ran' \subseteq Procs /\ dropped' \subseteq Procs
      /\ \A q \in Procs : mine'[q] \in {q, NoToken}
    BY <1>1, TypesAre
<1> QED  BY <1>2, <1>3, <1>4, <1>5, <1>6, <1>7, <1>8, <1>9, TypesHold, Zenon

LEMMA DeliverTypes ==
    ASSUME LaunchTypeOK, NEW p \in Procs, Deliver(p)
    PROVE  LaunchTypeOK'
<1>1. UNCHANGED <<loggedIn, locked, holder, claim, keyring, file, pc, own, nth, has, mine, to, listening, stalled, recheck, handedOver, dropped>>
    BY DEF Deliver, world, store, asking, serving, history
<1>2. /\ waiting[p] # <<>> /\ waiting' = [waiting EXCEPT ![p] = Tail(@)]
      /\ \/ ran' = ran \cup {Head(waiting[p]).from} /\ restoring' = restoring
         \/ KeepTokenStored(p) /\ ran' = ran
    BY DEF Deliver
<1>3. waiting \in [Procs -> Seq(Calls)] /\ waiting[p] \in Seq(Calls)
    BY TypesAre
<1>4. Head(waiting[p]) \in Calls /\ Tail(waiting[p]) \in Seq(Calls)
    BY <1>2, <1>3
<1>5. Head(waiting[p]).from \in Procs
    BY <1>4 DEF Calls
<1>6. waiting' \in [Procs -> Seq(Calls)]
    BY <1>2, <1>3, <1>4
<1>7. ran' \subseteq Procs
    BY <1>2, <1>5, TypesAre
<1>8. restoring' \in [Procs -> {"no", "look", "write"}]
    BY <1>2, KeepTypes, TypesAre
<1>9. /\ loggedIn' \in BOOLEAN /\ locked' \in BOOLEAN /\ holder' \in [Names -> Holders]
      /\ claim' \in [Names -> Procs \cup {Nobody}] /\ keyring' \in Tokens /\ file' \in Tokens
      /\ pc' \in [Procs -> Places] /\ own' \in [Procs -> {"runtime", "temp"}]
      /\ nth' \in [Procs -> 1..3] /\ has' \in [Procs -> Tokens] /\ mine' \in [Procs -> Tokens]
      /\ to' \in [Procs -> Procs] /\ listening' \in [Procs -> BOOLEAN]
      /\ stalled' \in [Procs -> BOOLEAN] /\ recheck' \in [Procs -> BOOLEAN]
      /\ handedOver' \in [Procs -> BOOLEAN] /\ dropped' \subseteq Procs
      /\ \A q \in Procs : mine'[q] \in {q, NoToken}
    BY <1>1, TypesAre
<1> QED  BY <1>2, <1>3, <1>4, <1>5, <1>6, <1>7, <1>8, <1>9, TypesHold, Zenon

LEMMA RecheckTypes ==
    ASSUME LaunchTypeOK, NEW p \in Procs, Recheck(p)
    PROVE  LaunchTypeOK'
<1>1. UNCHANGED <<loggedIn, locked, holder, claim, keyring, file, pc, own, nth, has, mine, to, waiting, listening, stalled, handedOver, ran, dropped>>
    BY DEF Recheck, world, store, asking, serving, history
<1>2. recheck' = [recheck EXCEPT ![p] = FALSE] /\ KeepTokenStored(p)
    BY DEF Recheck
<1>3. recheck \in [Procs -> BOOLEAN]
    BY TypesAre
<1>4. recheck' \in [Procs -> BOOLEAN]
    BY <1>2, <1>3, Zenon
<1>5. restoring' \in [Procs -> {"no", "look", "write"}]
    BY <1>2, KeepTypes
<1>6. /\ loggedIn' \in BOOLEAN /\ locked' \in BOOLEAN /\ holder' \in [Names -> Holders]
      /\ claim' \in [Names -> Procs \cup {Nobody}] /\ keyring' \in Tokens /\ file' \in Tokens
      /\ pc' \in [Procs -> Places] /\ own' \in [Procs -> {"runtime", "temp"}]
      /\ nth' \in [Procs -> 1..3] /\ has' \in [Procs -> Tokens] /\ mine' \in [Procs -> Tokens]
      /\ to' \in [Procs -> Procs] /\ waiting' \in [Procs -> Seq(Calls)]
      /\ listening' \in [Procs -> BOOLEAN] /\ stalled' \in [Procs -> BOOLEAN]
      /\ handedOver' \in [Procs -> BOOLEAN] /\ ran' \subseteq Procs /\ dropped' \subseteq Procs
      /\ \A q \in Procs : mine'[q] \in {q, NoToken}
    BY <1>1, TypesAre
<1> QED  BY <1>2, <1>3, <1>4, <1>5, <1>6, TypesHold, Zenon

LEMMA RestoreWritesTypes ==
    ASSUME LaunchTypeOK, NEW p \in Procs, RestoreWrites(p)
    PROVE  LaunchTypeOK'
<1>1. UNCHANGED <<loggedIn, holder, claim, pc, own, nth, has, mine, to, waiting, listening, stalled, recheck, handedOver, ran, dropped>>
    BY DEF RestoreWrites, world, store, asking, serving, history
<1>2. /\ restoring' = [restoring EXCEPT ![p] = "no"]
      /\ StoreToken(mine[p]) \/ UNCHANGED store
    BY DEF RestoreWrites
<1>3. mine[p] \in Tokens /\ restoring \in [Procs -> {"no", "look", "write"}]
    BY TypesAre
<1>4. keyring' \in Tokens /\ file' \in Tokens /\ locked' \in BOOLEAN
    BY <1>2, <1>3, StoreTypes, TypesAre DEF store
<1>5. restoring' \in [Procs -> {"no", "look", "write"}]
    BY <1>2, <1>3
<1>6. /\ loggedIn' \in BOOLEAN /\ holder' \in [Names -> Holders]
      /\ claim' \in [Names -> Procs \cup {Nobody}] /\ pc' \in [Procs -> Places]
      /\ own' \in [Procs -> {"runtime", "temp"}] /\ nth' \in [Procs -> 1..3]
      /\ has' \in [Procs -> Tokens] /\ mine' \in [Procs -> Tokens] /\ to' \in [Procs -> Procs]
      /\ waiting' \in [Procs -> Seq(Calls)] /\ listening' \in [Procs -> BOOLEAN]
      /\ stalled' \in [Procs -> BOOLEAN] /\ recheck' \in [Procs -> BOOLEAN]
      /\ handedOver' \in [Procs -> BOOLEAN] /\ ran' \subseteq Procs /\ dropped' \subseteq Procs
      /\ \A q \in Procs : mine'[q] \in {q, NoToken}
    BY <1>1, TypesAre
<1> QED  BY <1>2, <1>3, <1>4, <1>5, <1>6, TypesHold, Zenon

LEMMA StopListeningTypes ==
    ASSUME LaunchTypeOK, NEW p \in Procs, StopListening(p)
    PROVE  LaunchTypeOK'
<1>1. UNCHANGED <<loggedIn, locked, keyring, file, own, nth, has, mine, to, restoring, stalled, recheck, handedOver, ran>>
    BY DEF StopListening, world, store, asking, serving, history
<1>2. /\ CloseListener(p) /\ (Goto(p, "gone") \/ Goto(p, "compare"))
      /\ claim' = [n \in Names |-> IF claim[n] = p THEN Nobody ELSE claim[n]]
    BY DEF StopListening
<1>3. "gone" \in Places /\ "compare" \in Places
    BY DEF Places, Asking, Becoming, Instance, Leaving, Over, Sending
<1>4. /\ holder' \in [Names -> Holders] /\ listening' \in [Procs -> BOOLEAN]
      /\ waiting' \in [Procs -> Seq(Calls)] /\ dropped' \subseteq Procs
    BY <1>2, CloseTypes
<1>5. pc' \in [Procs -> Places]
    BY <1>2, <1>3, GotoIs
<1>6. claim' \in [Names -> Procs \cup {Nobody}]
    BY <1>2, TypesAre
<1>7. /\ loggedIn' \in BOOLEAN /\ locked' \in BOOLEAN /\ keyring' \in Tokens /\ file' \in Tokens
      /\ own' \in [Procs -> {"runtime", "temp"}] /\ nth' \in [Procs -> 1..3]
      /\ has' \in [Procs -> Tokens] /\ mine' \in [Procs -> Tokens] /\ to' \in [Procs -> Procs]
      /\ restoring' \in [Procs -> {"no", "look", "write"}] /\ stalled' \in [Procs -> BOOLEAN]
      /\ recheck' \in [Procs -> BOOLEAN] /\ handedOver' \in [Procs -> BOOLEAN]
      /\ ran' \subseteq Procs /\ \A q \in Procs : mine'[q] \in {q, NoToken}
    BY <1>1, TypesAre
<1> QED  BY <1>2, <1>3, <1>4, <1>5, <1>6, <1>7, TypesHold, Zenon

LEMMA GiveUpTheNameTypes ==
    ASSUME LaunchTypeOK, NEW p \in Procs, GiveUpTheName(p)
    PROVE  LaunchTypeOK'
<1>1. UNCHANGED <<loggedIn, locked, claim, keyring, file, own, nth, has, mine, to, restoring, stalled, recheck, handedOver, ran>>
    BY DEF GiveUpTheName, world, store, asking, serving, history
<1>2. CloseListener(p) /\ Goto(p, "swapping")
    BY DEF GiveUpTheName
<1>3. "swapping" \in Places
    BY DEF Places, Asking, Becoming, Instance, Leaving, Over, Sending
<1>4. /\ holder' \in [Names -> Holders] /\ listening' \in [Procs -> BOOLEAN]
      /\ waiting' \in [Procs -> Seq(Calls)] /\ dropped' \subseteq Procs
    BY <1>2, CloseTypes
<1>5. pc' \in [Procs -> Places]
    BY <1>2, <1>3, GotoIs
<1>6. /\ loggedIn' \in BOOLEAN /\ locked' \in BOOLEAN
      /\ claim' \in [Names -> Procs \cup {Nobody}] /\ keyring' \in Tokens /\ file' \in Tokens
      /\ own' \in [Procs -> {"runtime", "temp"}] /\ nth' \in [Procs -> 1..3]
      /\ has' \in [Procs -> Tokens] /\ mine' \in [Procs -> Tokens] /\ to' \in [Procs -> Procs]
      /\ restoring' \in [Procs -> {"no", "look", "write"}] /\ stalled' \in [Procs -> BOOLEAN]
      /\ recheck' \in [Procs -> BOOLEAN] /\ handedOver' \in [Procs -> BOOLEAN]
      /\ ran' \subseteq Procs /\ \A q \in Procs : mine'[q] \in {q, NoToken}
    BY <1>1, TypesAre
<1> QED  BY <1>2, <1>3, <1>4, <1>5, <1>6, TypesHold, Zenon

LEMMA NewBuildFailsTypes ==
    ASSUME LaunchTypeOK, NEW p \in Procs, NewBuildFails(p)
    PROVE  LaunchTypeOK'
<1>1. UNCHANGED <<loggedIn, locked, claim, keyring, file, own, nth, has, mine, to, waiting, restoring, stalled, recheck, handedOver, ran, dropped>>
    BY DEF NewBuildFails, world, store, asking, serving, history
<1>2. Listens(p) /\ Goto(p, "up")
    BY DEF NewBuildFails
<1>3. "up" \in Places
    BY DEF Places, Asking, Becoming, Instance, Leaving, Over, Sending
<1>4. holder' \in [Names -> Holders] /\ listening' \in [Procs -> BOOLEAN]
    BY <1>2, ListensTypes
<1>5. pc' \in [Procs -> Places]
    BY <1>2, <1>3, GotoIs
<1>6. /\ loggedIn' \in BOOLEAN /\ locked' \in BOOLEAN
      /\ claim' \in [Names -> Procs \cup {Nobody}] /\ keyring' \in Tokens /\ file' \in Tokens
      /\ own' \in [Procs -> {"runtime", "temp"}] /\ nth' \in [Procs -> 1..3]
      /\ has' \in [Procs -> Tokens] /\ mine' \in [Procs -> Tokens] /\ to' \in [Procs -> Procs]
      /\ waiting' \in [Procs -> Seq(Calls)] /\ restoring' \in [Procs -> {"no", "look", "write"}]
      /\ stalled' \in [Procs -> BOOLEAN] /\ recheck' \in [Procs -> BOOLEAN]
      /\ handedOver' \in [Procs -> BOOLEAN] /\ ran' \subseteq Procs /\ dropped' \subseteq Procs
      /\ \A q \in Procs : mine'[q] \in {q, NoToken}
    BY <1>1, TypesAre
<1> QED  BY <1>2, <1>3, <1>4, <1>5, <1>6, TypesHold, Zenon

LEMMA CrashTypes ==
    ASSUME LaunchTypeOK, NEW p \in Procs, Crash(p)
    PROVE  LaunchTypeOK'
<1>1. UNCHANGED <<loggedIn, locked, claim, keyring, file, own, nth, has, mine, to, stalled, recheck, handedOver, ran>>
    BY DEF Crash, world, store, asking, serving, history
<1>2. /\ Goto(p, "crashed") /\ holder' = [n \in Names |-> IF holder[n] = p THEN Stale ELSE holder[n]]
      /\ dropped' = dropped \cup {waiting[p][i].from : i \in DOMAIN waiting[p]}
      /\ waiting' = [waiting EXCEPT ![p] = <<>>]
      /\ restoring' = [restoring EXCEPT ![p] = "no"]
    BY DEF Crash
<1>3. listening' = [listening EXCEPT ![p] = FALSE] /\ listening \in [Procs -> BOOLEAN]
    BY TypesAre DEF Crash
<1>4. "crashed" \in Places /\ Stale \in Holders
    BY DEF Holders, Places, Asking, Becoming, Instance, Leaving, Over, Sending
<1>5. pc' \in [Procs -> Places]
    BY <1>2, <1>4, GotoIs
<1>6. holder' \in [Names -> Holders]
    BY <1>2, <1>4, TypesAre
<1>7. listening' \in [Procs -> BOOLEAN]
    BY <1>3, Zenon
<1>8. dropped' \subseteq Procs
    BY <1>2, WaitersAre, TypesAre
<1>9. waiting' \in [Procs -> Seq(Calls)]
    BY <1>2, TypesAre
<1>10. restoring' \in [Procs -> {"no", "look", "write"}]
    BY <1>2, TypesAre
<1>11. /\ loggedIn' \in BOOLEAN /\ locked' \in BOOLEAN
      /\ claim' \in [Names -> Procs \cup {Nobody}] /\ keyring' \in Tokens /\ file' \in Tokens
      /\ own' \in [Procs -> {"runtime", "temp"}] /\ nth' \in [Procs -> 1..3]
      /\ has' \in [Procs -> Tokens] /\ mine' \in [Procs -> Tokens] /\ to' \in [Procs -> Procs]
      /\ stalled' \in [Procs -> BOOLEAN] /\ recheck' \in [Procs -> BOOLEAN]
      /\ handedOver' \in [Procs -> BOOLEAN] /\ ran' \subseteq Procs
      /\ \A q \in Procs : mine'[q] \in {q, NoToken}
    BY <1>1, TypesAre
<1> QED  BY <1>2, <1>3, <1>4, <1>5, <1>6, <1>7, <1>8, <1>9, <1>10, <1>11, TypesHold, Zenon

LEMMA NewBuildStartsTypes ==
    ASSUME LaunchTypeOK, NEW p \in Procs, NEW q \in Procs, NewBuildStarts(p, q)
    PROVE  LaunchTypeOK'
<1>1. UNCHANGED <<loggedIn, locked, holder, claim, keyring, file, nth, has, mine, to, waiting, restoring, listening, stalled, recheck, ran, dropped>>
    BY DEF NewBuildStarts, world, store, asking, serving, history
<1>2. /\ pc' = [pc EXCEPT ![p] = "leaving", ![q] = "read"]
      /\ own' = [own EXCEPT ![q] = IF loggedIn THEN "runtime" ELSE "temp"]
    BY DEF NewBuildStarts
<1>3. handedOver' = [handedOver EXCEPT ![p] = TRUE] /\ handedOver \in [Procs -> BOOLEAN]
    BY TypesAre DEF NewBuildStarts
<1>4. "leaving" \in Places /\ "read" \in Places
    BY DEF Places, Asking, Becoming, Instance, Leaving, Over, Sending
<1>5. pc' \in [Procs -> Places]
    BY <1>2, <1>4, TypesAre
<1>6. own' \in [Procs -> {"runtime", "temp"}]
    BY <1>2, TypesAre
<1>7. handedOver' \in [Procs -> BOOLEAN]
    BY <1>3, Zenon
<1>8. /\ loggedIn' \in BOOLEAN /\ locked' \in BOOLEAN /\ holder' \in [Names -> Holders]
      /\ claim' \in [Names -> Procs \cup {Nobody}] /\ keyring' \in Tokens /\ file' \in Tokens
      /\ nth' \in [Procs -> 1..3] /\ has' \in [Procs -> Tokens] /\ mine' \in [Procs -> Tokens]
      /\ to' \in [Procs -> Procs] /\ waiting' \in [Procs -> Seq(Calls)]
      /\ restoring' \in [Procs -> {"no", "look", "write"}] /\ listening' \in [Procs -> BOOLEAN]
      /\ stalled' \in [Procs -> BOOLEAN] /\ recheck' \in [Procs -> BOOLEAN]
      /\ ran' \subseteq Procs /\ dropped' \subseteq Procs
      /\ \A x \in Procs : mine'[x] \in {x, NoToken}
    BY <1>1, TypesAre
<1> QED  BY <1>2, <1>3, <1>4, <1>5, <1>6, <1>7, <1>8, TypesHold, Zenon

LEMMA LockTypes ==
    ASSUME LaunchTypeOK, LogIn \/ LockOrUnlock
    PROVE  LaunchTypeOK'
    BY DEF LaunchTypeOK, LogIn, LockOrUnlock, world, store, asking, serving, history

(***************************************************************************)
(* What a launch finds.                                                    *)
(***************************************************************************)
\* Who listens is met, or is busy and known to be.
LEMMA NobodyThere ==
    ASSUME LaunchTypeOK, LaunchRight, SingleInstanceAssumption, NEW p \in Procs,
           pc[p] \in Looking, nth[p] = 1, Meets("runtime") # "ours", ~MeansUnreachable(p)
    PROVE  \A q \in Procs : listening[q] = FALSE
<1>1. SUFFICES ASSUME NEW q \in Procs, listening[q] = TRUE PROVE FALSE
    BY TypesAre
<1>2. holder["runtime"] = q /\ (stalled[q] = TRUE => pc[q] \in Running)
    BY <1>1 DEF LaunchRight, ListenRight
<1>3. q \notin {Nobody, Stale, "open", "mute"}
    BY DEF SingleInstanceAssumption
<1>4. Try(p)[1] = "runtime" /\ HeldByThisUser("runtime")
    <2>1. pc[p] # "off"
        BY DEF Looking
    <2> QED  BY <1>2, <1>3, <2>1, TryIs DEF LaunchRight, HeldByThisUser
<1>5. stalled[q] = TRUE /\ Meets("runtime") = IF BusyIsRefused THEN "refusal" ELSE "silence"
    <2>1. PeerIsSameUser("runtime") /\ holder["runtime"] # Nobody /\ holder["runtime"] # Stale
          /\ holder["runtime"] # "mute"
        BY <1>2, <1>3 DEF PeerIsSameUser
    <2>2. Meets("runtime") = IF ~stalled[q] THEN "ours"
                             ELSE IF BusyIsRefused THEN "refusal" ELSE "silence"
        BY <1>2, <2>1, Zenon DEF Meets
    <2>3. stalled[q] \in BOOLEAN
        BY TypesAre
    <2> QED  BY <2>2, <2>3
<1>6. CASE ~BusyIsRefused
    BY <1>4, <1>5, <1>6 DEF MeansUnreachable
<1>7. CASE BusyIsRefused
    <2>1. claim["runtime"] = q
        BY <1>1, <1>7 DEF LaunchRight, ClaimRight
    <2>2. Alive(q) /\ q # Nobody
        BY <1>2, <1>3, <1>5 DEF Alive, Running, Over
    <2>3. RefusedByABusyOne("runtime")
        BY <1>5, <1>7, <2>1, <2>2 DEF RefusedByABusyOne, ALiveInstanceClaims
    <2> QED  BY <1>4, <2>3 DEF MeansUnreachable
<1> QED  BY <1>6, <1>7

(***************************************************************************)
(* Steps that move one process only.                                       *)
(***************************************************************************)
LEMMA QuietKeeps ==
    ASSUME LaunchRight,
           UNCHANGED <<loggedIn, holder, claim, pc, own, nth, listening, stalled>>
    PROVE  LaunchRight'
<1>1. NamesRight' /\ StartsRight'
    BY DEF LaunchRight, NamesRight, StartsRight
<1>2. ListenRight' /\ LookRight'
    BY DEF LaunchRight, ListenRight, LookRight, Past
<1>3. ClaimRight'
    BY DEF LaunchRight, ClaimRight, Alive
<1> QED  BY <1>1, <1>2, <1>3 DEF LaunchRight

Steady == {"off", "leaving", "swapping"} \cup Over

LEMMA MoveKeeps ==
    ASSUME LaunchTypeOK, LaunchRight, NEW p \in Procs, NEW l \in Places, Goto(p, l),
           pc[p] \notin Steady, l \notin {"off", "swapping"},
           UNCHANGED <<loggedIn, holder, claim, own, listening, stalled>>,
           \A q \in Procs : q # p => nth'[q] = nth[q],
           l \in Starting => pc[p] \in Starting,
           l \in Running => pc[p] \in Running,
           pc[p] \in Running => l \in Running \/ (l = "leaving" /\ stalled[p] = FALSE),
           l \in {"read", "move", "again"} \cup Sending => nth'[p] = 1,
           l \in Becoming \/ (l = "ask" /\ nth'[p] # 1) => \A q \in Procs : listening[q] = FALSE
    PROVE  LaunchRight'
<1>1. pc'[p] = l /\ \A q \in Procs : q # p => pc'[q] = pc[q]
    BY GotoIs
<1>2. NamesRight'
    BY <1>1 DEF LaunchRight, NamesRight, Steady
<1>3. StartsRight'
    BY <1>1 DEF LaunchRight, StartsRight
<1>4. ListenRight'
    <2>1. \A q \in Procs : listening'[q] = TRUE =>
              holder'["runtime"] = q /\ pc'[q] \in Running \cup {"leaving"}
        BY <1>1 DEF LaunchRight, ListenRight, Steady
    <2>2. \A q \in Procs : listening'[q] = TRUE /\ stalled'[q] = TRUE => pc'[q] \in Running
        BY <1>1 DEF LaunchRight, ListenRight
    <2>3. \A q \in Procs : holder'["runtime"] = q => listening'[q] = TRUE
        BY DEF LaunchRight, ListenRight
    <2>4. \A q \in Procs : pc'[q] \in Running => listening'[q] = TRUE
        BY <1>1 DEF LaunchRight, ListenRight
    <2> QED  BY <2>1, <2>2, <2>3, <2>4 DEF ListenRight
<1>5. LookRight'
    <2>1. \A q \in Procs : pc'[q] \in {"off", "read", "move", "again"} \cup Sending => nth'[q] = 1
        BY <1>1 DEF LaunchRight, LookRight
    <2>2. ASSUME NEW q \in Procs, Past(q)' PROVE \A x \in Procs : listening'[x] = FALSE
        <3>1. CASE q = p
            BY <1>1, <2>2, <3>1 DEF Past
        <3>2. CASE q # p
            BY <1>1, <2>2, <3>2 DEF Past, LaunchRight, LookRight
        <3> QED  BY <3>1, <3>2
    <2> QED  BY <2>1, <2>2 DEF LookRight
<1>6. ClaimRight'
    BY <1>1 DEF LaunchRight, ClaimRight, Alive, Steady
<1> QED  BY <1>2, <1>3, <1>4, <1>5, <1>6 DEF LaunchRight

LEMMA LaunchMovesKeep ==
    ASSUME LaunchTypeOK, LaunchRight, SingleInstanceAssumption, NEW p \in Procs,
           \/ ReadToken(p) \/ MoveToken(p) \/ NoInstance(p) \/ GiveWay(p) \/ NothingToShow(p)
           \/ Connect(p) \/ Taken(p) \/ Refused(p)
    PROVE  LaunchRight'
<1>1. UNCHANGED <<loggedIn, holder, claim, own, listening, stalled>>
    BY DEF ReadToken, MoveToken, NoInstance, GiveWay, NothingToShow, Connect, Taken, Refused,
           world, asking, serving
<1>2. nth[p] \in 1..3 /\ nth \in [Procs -> 1..3]
    BY TypesAre
<1>3. pc[p] \in {"read", "move", "again"} \cup Sending => nth[p] = 1
    BY DEF LaunchRight, LookRight
<1>4. CASE ReadToken(p) \/ MoveToken(p)
    <2>1. nth' = nth /\ pc[p] \in {"read", "move"} /\ (Goto(p, "ask") \/ Goto(p, "move"))
        BY <1>4 DEF ReadToken, MoveToken, asking
    <2> QED  BY <1>1, <1>3, <2>1, MoveKeeps DEF Steady, Starting, Running, Places, Asking, Becoming, Instance, Leaving, Over, Sending
<1>5. CASE NoInstance(p)
    <2>1. /\ pc[p] \in Looking /\ Meets(Try(p)[nth[p]]) # "ours" /\ ~MeansUnreachable(p)
          /\ \/ nth[p] < Len(Try(p)) /\ nth' = [nth EXCEPT ![p] = @ + 1] /\ Goto(p, "ask")
             \/ nth' = nth /\ Goto(p, "token")
        BY <1>5 DEF NoInstance
    <2>2. \A q \in Procs : listening[q] = FALSE
        <3>1. CASE nth[p] = 1
            <4>1. Try(p)[1] = "runtime"
                BY <2>1, TryIs DEF Looking, LaunchRight
            <4> QED  BY <2>1, <3>1, <4>1, NobodyThere
        <3>2. CASE nth[p] # 1
            <4>1. Past(p)
                BY <1>3, <2>1, <3>2 DEF Past, Looking
            <4> QED  BY <4>1 DEF LaunchRight, LookRight
        <3> QED  BY <3>1, <3>2
    <2>3. \A q \in Procs : q # p => nth'[q] = nth[q]
        BY <1>2, <2>1
    <2> QED  BY <1>1, <2>1, <2>2, <2>3, MoveKeeps DEF Looking, Steady, Starting, Running, Places, Asking, Becoming, Instance, Leaving, Over, Sending
<1>6. CASE GiveWay(p) \/ NothingToShow(p)
    <2>1. nth' = nth /\ pc[p] \in Looking /\ Goto(p, "gave up")
        BY <1>6 DEF GiveWay, NothingToShow, asking
    <2> QED  BY <1>1, <2>1, MoveKeeps DEF Looking, Steady, Starting, Running, Places, Asking, Becoming, Instance, Leaving, Over, Sending
<1>7. CASE Connect(p)
    <2>1. /\ pc[p] \in Looking /\ Meets(Try(p)[nth[p]]) = "ours" /\ nth' = nth
          /\ Goto(p, "send") \/ Goto(p, "send again")
        BY <1>7 DEF Connect
    <2>2. nth[p] = 1
        <3>1. pc[p] # "off"
            BY <2>1 DEF Looking
        <3>2. nth[p] # 1 => Try(p)[nth[p]] \in {"temp", "shared"}
            BY <3>1, TryIs DEF LaunchRight
        <3> QED  BY <2>1, <3>2, OthersAre DEF LaunchRight
    <2> QED  BY <1>1, <2>1, <2>2, MoveKeeps DEF Looking, Steady, Starting, Running, Places, Asking, Becoming, Instance, Leaving, Over, Sending
<1>8. CASE Taken(p)
    <2>1. nth' = nth /\ pc[p] \in Sending /\ Goto(p, "told")
        BY <1>8 DEF Taken, asking
    <2> QED  BY <1>1, <2>1, MoveKeeps DEF Steady, Starting, Running, Places, Asking, Becoming, Instance, Leaving, Over, Sending
<1>9. CASE Refused(p)
    <2>1. nth' = nth /\ pc[p] \in Sending /\ (Goto(p, "again") \/ Goto(p, "gave up"))
        BY <1>9 DEF Refused, asking
    <2>2. nth'[p] = 1
        BY <1>3, <2>1
    <2> QED  BY <1>1, <2>1, <2>2, MoveKeeps DEF Steady, Starting, Running, Places, Asking, Becoming, Instance, Leaving, Over, Sending
<1> QED  BY <1>4, <1>5, <1>6, <1>7, <1>8, <1>9

LEMMA InstanceMovesKeep ==
    ASSUME LaunchTypeOK, LaunchRight, NEW p \in Procs,
           Wire(p) \/ Quit(p) \/ Compare(p) \/ Delete(p)
    PROVE  LaunchRight'
<1>1. UNCHANGED <<loggedIn, holder, claim, own, nth, listening, stalled>>
    BY DEF Wire, Quit, Compare, Delete, world, asking, serving
<1>2. CASE Wire(p)
    <2>1. pc[p] = "loading" /\ Goto(p, "up")
        BY <1>2 DEF Wire
    <2> QED  BY <1>1, <2>1, MoveKeeps DEF Steady, Starting, Running, Places, Asking, Becoming, Instance, Leaving, Over, Sending
<1>3. CASE Quit(p)
    <2>1. pc[p] = "up" /\ ~stalled[p] /\ Goto(p, "leaving")
        BY <1>3 DEF Quit, IsUp
    <2>2. stalled[p] = FALSE
        BY <2>1, TypesAre
    <2> QED  BY <1>1, <2>1, <2>2, MoveKeeps DEF Steady, Starting, Running, Places, Asking, Becoming, Instance, Leaving, Over, Sending
<1>4. CASE Compare(p) \/ Delete(p)
    <2>1. pc[p] \in {"compare", "delete"} /\ (Goto(p, "gone") \/ Goto(p, "delete"))
        BY <1>4 DEF Compare, Delete
    <2> QED  BY <1>1, <2>1, MoveKeeps DEF Steady, Starting, Running, Places, Asking, Becoming, Instance, Leaving, Over, Sending
<1> QED  BY <1>2, <1>3, <1>4

LEMMA QuietStepsKeep ==
    ASSUME LaunchRight,
           \/ \E p \in Procs : Deliver(p) \/ Recheck(p) \/ RestoreLooks(p) \/ RestoreWrites(p)
           \/ LockOrUnlock \/ UNCHANGED launch_vars
    PROVE  LaunchRight'
<1>1. UNCHANGED <<loggedIn, holder, claim, pc, own, nth, listening, stalled>>
    BY DEF Deliver, Recheck, RestoreLooks, RestoreWrites, LockOrUnlock, launch_vars, world, store, asking, serving, history
<1> QED  BY <1>1, QuietKeeps

(***************************************************************************)
(* Steps that take or give up the name.                                    *)
(***************************************************************************)
LEMMA LaunchKeeps ==
    ASSUME LaunchTypeOK, LaunchRight, "overlap" \notin Incidents, NEW p \in Procs, Launch(p)
    PROVE  LaunchRight'
<1>1. /\ pc[p] = "off" /\ NoneStarting /\ Goto(p, "read")
      /\ own' = [own EXCEPT ![p] = IF loggedIn THEN "runtime" ELSE "temp"]
      /\ UNCHANGED <<loggedIn, holder, claim, nth, listening, stalled>>
    BY DEF Launch, world, serving
<1>2. pc'[p] = "read" /\ \A q \in Procs : q # p => pc'[q] = pc[q]
    <2>1. "read" \in Places
        BY DEF Places, Asking, Becoming, Instance, Leaving, Over, Sending
    <2> QED  BY <1>1, <2>1, GotoIs
<1>3. \A q \in Procs : pc[q] \notin Starting
    BY <1>1 DEF NoneStarting, Starting
<1>4. listening[p] # TRUE /\ nth[p] = 1 /\ loggedIn = TRUE
    BY <1>1 DEF LaunchRight, ListenRight, LookRight, NamesRight, Running
<1>5. own'[p] = "runtime" /\ \A q \in Procs : q # p => own'[q] = own[q]
    BY <1>1, <1>4, TypesAre
<1>6. NamesRight'
    BY <1>1, <1>2, <1>4, <1>5 DEF LaunchRight, NamesRight
<1>7. StartsRight'
    BY <1>2, <1>3 DEF StartsRight
<1>8. ListenRight'
    BY <1>1, <1>2, <1>4 DEF LaunchRight, ListenRight, Running
<1>9. LookRight'
    BY <1>1, <1>2, <1>4 DEF LaunchRight, LookRight, Past, Becoming
<1>10. ClaimRight'
    BY <1>1, <1>2 DEF LaunchRight, ClaimRight, Alive
<1> QED  BY <1>6, <1>7, <1>8, <1>9, <1>10 DEF LaunchRight

LEMMA WriteTokenKeeps ==
    ASSUME LaunchTypeOK, LaunchRight, SingleInstanceAssumption, NEW p \in Procs, WriteToken(p)
    PROVE  LaunchRight'
<1>1. /\ pc[p] = "token" /\ Goto(p, "listen")
      /\ holder' = [holder EXCEPT ![own[p]] = IF Removable(own[p]) THEN Nobody ELSE @]
      /\ UNCHANGED <<loggedIn, claim, own, nth, listening, stalled>>
    BY DEF WriteToken, asking
<1>2. pc'[p] = "listen" /\ \A q \in Procs : q # p => pc'[q] = pc[q]
    <2>1. "listen" \in Places
        BY DEF Places, Asking, Becoming, Instance, Leaving, Over, Sending
    <2> QED  BY <1>1, <2>1, GotoIs
<1>3. own[p] = "runtime"
    BY <1>1 DEF LaunchRight, NamesRight
<1>4. \A q \in Procs : listening[q] = FALSE
    BY <1>1 DEF LaunchRight, LookRight, Past, Becoming
<1>5. holder["runtime"] \in {Nobody, Stale}
    BY <1>4 DEF LaunchRight, NamesRight, ListenRight
<1>6. /\ holder'["runtime"] \in {Nobody, Stale}
      /\ \A n \in {"temp", "shared"} : holder'[n] = holder[n]
    BY <1>1, <1>3, <1>5, TypesAre DEF Names
<1>7. \A q \in Procs : holder'["runtime"] # q
    BY <1>6 DEF SingleInstanceAssumption
<1>8. NamesRight'
    BY <1>1, <1>2, <1>6 DEF LaunchRight, NamesRight
<1>9. StartsRight'
    BY <1>1, <1>2 DEF LaunchRight, StartsRight, Starting, Becoming
<1>10. ListenRight'
    BY <1>1, <1>2, <1>4, <1>7 DEF LaunchRight, ListenRight, Running
<1>11. LookRight'
    BY <1>1, <1>2, <1>4 DEF LaunchRight, LookRight, Sending
<1>12. ClaimRight'
    BY <1>1, <1>2 DEF LaunchRight, ClaimRight, Alive, Over
<1> QED  BY <1>8, <1>9, <1>10, <1>11, <1>12 DEF LaunchRight

\* Taking the name, at start and after an update that failed.
LEMMA NameTakenKeeps ==
    ASSUME LaunchTypeOK, LaunchRight, SingleInstanceAssumption, NEW p \in Procs,
           pc[p] \in {"listen", "swapping"}, Listens(p), NEW l \in Running, Goto(p, l),
           UNCHANGED <<loggedIn, own, nth, stalled>>,
           BusyIsRefused => claim'["runtime"] = p
    PROVE  LaunchRight'
<1>1. pc'[p] = l /\ \A q \in Procs : q # p => pc'[q] = pc[q]
    <2>1. l \in Places
        BY DEF Running, Places, Asking, Becoming, Instance, Leaving, Over, Sending
    <2> QED  BY <2>1, GotoIs
<1>2. own[p] = "runtime"
    BY DEF LaunchRight, NamesRight
<1>3. \A q \in Procs : listening[q] = FALSE
    BY DEF LaunchRight, LookRight, Past, Becoming
<1>4. HeldByThisUser("runtime")
    BY DEF LaunchRight, NamesRight, HeldByThisUser, SingleInstanceAssumption, Nobody, Stale
<1>5. holder' = [holder EXCEPT !["runtime"] = p]
    BY <1>2, <1>4 DEF Listens
<1>6. listening' = [listening EXCEPT ![p] = TRUE]
    BY <1>2, <1>4 DEF Listens
<1>7. holder'["runtime"] = p /\ \A n \in {"temp", "shared"} : holder'[n] = holder[n]
    BY <1>5, TypesAre DEF Names
<1>8. listening'[p] = TRUE /\ \A q \in Procs : q # p => listening'[q] = FALSE
    BY <1>3, <1>6, TypesAre
<1>9. NamesRight'
    BY <1>1, <1>2, <1>7 DEF LaunchRight, NamesRight
<1>10. \A q \in Procs : q # p => pc[q] \notin Starting
    BY DEF LaunchRight, StartsRight, Starting, Becoming
<1>11. l \notin Starting \cup {"off"} \cup Over
    BY DEF Starting, Running, Places, Asking, Becoming, Instance, Leaving, Over, Sending
<1>12. StartsRight'
    BY <1>1, <1>10, <1>11 DEF StartsRight
<1>13. ListenRight'
    <2>1. \A q \in Procs : pc'[q] \in Running => q = p
        BY <1>1, <1>3 DEF LaunchRight, ListenRight
    <2> QED  BY <1>1, <1>7, <1>8, <2>1 DEF ListenRight
<1>14. LookRight'
    <2>1. \A q \in Procs : ~Past(q)'
        BY <1>1, <1>10, <1>11 DEF Past, Starting, Asking
    <2>2. \A q \in Procs : pc'[q] \in {"off", "read", "move", "again"} \cup Sending => nth'[q] = 1
        <3>1. l \notin {"off", "read", "move", "again"} \cup Sending
            BY DEF Running, Sending
        <3> QED  BY <1>1, <3>1 DEF LaunchRight, LookRight
    <2> QED  BY <2>1, <2>2 DEF LookRight
<1>15. ClaimRight'
    <2>1. BusyIsRefused => \A q \in Procs : pc'[q] # "swapping"
        BY <1>1, <1>11 DEF LaunchRight, ClaimRight, Starting
    <2>2. BusyIsRefused => \A q \in Procs : listening'[q] = TRUE => claim'["runtime"] = q
        BY <1>8
    <2>3. BusyIsRefused => \A q \in Procs : claim'["runtime"] = q => listening'[q] = TRUE /\ pc'[q] # "off"
        BY <1>1, <1>8, <1>11
    <2> QED  BY <2>1, <2>2, <2>3 DEF ClaimRight
<1> QED  BY <1>9, <1>12, <1>13, <1>14, <1>15 DEF LaunchRight

LEMMA ListenKeeps ==
    ASSUME LaunchTypeOK, LaunchRight, SingleInstanceAssumption, NEW p \in Procs, Listen(p)
    PROVE  LaunchRight'
<1>1. /\ pc[p] = "listen" /\ Listens(p) /\ Goto(p, "loading")
      /\ claim' = [claim EXCEPT ![own[p]] =
                      IF BusyIsRefused /\ ~ALiveInstanceClaims(own[p]) THEN p ELSE @]
      /\ UNCHANGED <<loggedIn, own, nth, stalled>>
    BY DEF Listen, asking
<1>2. own[p] = "runtime"
    BY <1>1 DEF LaunchRight, NamesRight
<1>3. \A q \in Procs : listening[q] = FALSE
    BY <1>1 DEF LaunchRight, LookRight, Past, Becoming
<1>4. claim["runtime"] \in Procs \cup {Nobody}
    BY TypesAre DEF Names
<1>5. BusyIsRefused => ~ALiveInstanceClaims("runtime")
    BY <1>3, <1>4 DEF LaunchRight, ClaimRight, ALiveInstanceClaims
<1>6. BusyIsRefused => claim'["runtime"] = p
    BY <1>1, <1>2, <1>5, TypesAre DEF Names
<1> QED  BY <1>1, <1>6, NameTakenKeeps DEF Running

LEMMA NewBuildFailsKeeps ==
    ASSUME LaunchTypeOK, LaunchRight, SingleInstanceAssumption, NEW p \in Procs, NewBuildFails(p)
    PROVE  LaunchRight'
<1>1. /\ pc[p] = "swapping" /\ Listens(p) /\ Goto(p, "up")
      /\ UNCHANGED <<loggedIn, own, nth, stalled>>
    BY DEF NewBuildFails, asking
<1>2. ~BusyIsRefused
    BY <1>1 DEF LaunchRight, ClaimRight
<1> QED  BY <1>1, <1>2, NameTakenKeeps DEF Running

\* The listener is gone, and the name with it.
LEMMA NameLostKeeps ==
    ASSUME LaunchTypeOK, LaunchRight, SingleInstanceAssumption, NEW p \in Procs,
           NEW l \in Places, Goto(p, l), pc[p] \in Running \cup Leaving,
           l \notin Running \cup {"off", "leaving"} \cup Asking \cup Becoming,
           l = "swapping" => NoneStarting /\ "overlap" \notin Incidents /\ ~BusyIsRefused
                             /\ listening[p] = TRUE,
           listening' = [listening EXCEPT ![p] = FALSE],
           NEW left \in {Nobody, Stale},
           holder' = [holder EXCEPT !["runtime"] = IF listening[p] = TRUE THEN left ELSE @],
           UNCHANGED <<loggedIn, own, nth, stalled>>,
           \A q \in Procs : q # p => (claim'["runtime"] = q <=> claim["runtime"] = q),
           BusyIsRefused /\ claim'["runtime"] = p => claim["runtime"] = p /\ l \in Over
    PROVE  LaunchRight'
<1>1. pc'[p] = l /\ \A q \in Procs : q # p => pc'[q] = pc[q]
    BY GotoIs
<1>2. listening'[p] = FALSE /\ \A q \in Procs : q # p => listening'[q] = listening[q]
    BY TypesAre
<1>3. /\ listening[p] = TRUE => holder["runtime"] = p /\ holder'["runtime"] = left
      /\ listening[p] # TRUE => holder["runtime"] # p /\ holder'["runtime"] = holder["runtime"]
      /\ \A n \in {"temp", "shared"} : holder'[n] = holder[n]
    BY TypesAre DEF LaunchRight, ListenRight, Names
<1>4. left \notin Procs
    BY DEF SingleInstanceAssumption
<1>5. NamesRight'
    BY <1>1, <1>3 DEF LaunchRight, NamesRight, Running, Leaving
<1>6. StartsRight'
    <2>1. CASE l = "swapping"
        BY <1>1, <2>1 DEF NoneStarting, StartsRight, Starting
    <2>2. CASE l # "swapping"
        BY <1>1, <2>2 DEF LaunchRight, StartsRight, Starting
    <2> QED  BY <2>1, <2>2
<1>7. ListenRight'
    <2>1. \A q \in Procs : listening'[q] = TRUE =>
              holder'["runtime"] = q /\ pc'[q] \in Running \cup {"leaving"}
        BY <1>1, <1>2, <1>3 DEF LaunchRight, ListenRight
    <2>2. \A q \in Procs : listening'[q] = TRUE /\ stalled'[q] = TRUE => pc'[q] \in Running
        BY <1>1, <1>2 DEF LaunchRight, ListenRight
    <2>3. \A q \in Procs : holder'["runtime"] = q => listening'[q] = TRUE
        BY <1>2, <1>3, <1>4 DEF LaunchRight, ListenRight
    <2>4. \A q \in Procs : pc'[q] \in Running => listening'[q] = TRUE
        BY <1>1, <1>2 DEF LaunchRight, ListenRight
    <2> QED  BY <2>1, <2>2, <2>3, <2>4 DEF ListenRight
<1>8. LookRight'
    <2>1. \A q \in Procs : pc'[q] \in {"off", "read", "move", "again"} \cup Sending => nth'[q] = 1
        BY <1>1 DEF LaunchRight, LookRight, Asking
    <2>2. ASSUME NEW q \in Procs, Past(q)' PROVE \A x \in Procs : listening'[x] = FALSE
        <3>1. CASE q = p
            <4>1. l = "swapping"
                BY <1>1, <2>2, <3>1 DEF Past, Asking
            <4>2. holder["runtime"] = p
                BY <1>3, <4>1
            <4>3. \A x \in Procs : x # p => listening[x] # TRUE
                BY <4>2 DEF LaunchRight, ListenRight
            <4>4. \A x \in Procs : listening'[x] \in BOOLEAN
                BY <1>2, TypesAre
            <4> QED  BY <1>2, <4>3, <4>4
        <3>2. CASE q # p
            <4>1. Past(q)
                BY <1>1, <2>2, <3>2 DEF Past
            <4> QED  BY <1>2, <4>1 DEF LaunchRight, LookRight
        <3> QED  BY <3>1, <3>2
    <2> QED  BY <2>1, <2>2 DEF LookRight
<1>9. ClaimRight'
    <2>1. ASSUME BusyIsRefused
          PROVE  /\ \A q \in Procs : pc'[q] # "swapping"
                 /\ \A q \in Procs : listening'[q] = TRUE => claim'["runtime"] = q
                 /\ \A q \in Procs : claim'["runtime"] = q /\ Alive(q)' => listening'[q] = TRUE
                 /\ \A q \in Procs : claim'["runtime"] = q => pc'[q] # "off"
        BY <1>1, <1>2, <2>1 DEF LaunchRight, ClaimRight, Alive
    <2> QED  BY <2>1 DEF ClaimRight
<1> QED  BY <1>5, <1>6, <1>7, <1>8, <1>9 DEF LaunchRight

LEMMA StopListeningKeeps ==
    ASSUME LaunchTypeOK, LaunchRight, SingleInstanceAssumption, NEW p \in Procs, StopListening(p)
    PROVE  LaunchRight'
<1>1. /\ pc[p] = "leaving" /\ CloseListener(p)
      /\ claim' = [n \in Names |-> IF claim[n] = p THEN Nobody ELSE claim[n]]
      /\ Goto(p, "gone") \/ Goto(p, "compare")
      /\ UNCHANGED <<loggedIn, own, nth, stalled>>
    BY DEF StopListening, asking
<1>2. own[p] = "runtime"
    BY <1>1 DEF LaunchRight, NamesRight
<1>3. /\ listening' = [listening EXCEPT ![p] = FALSE]
      /\ holder' = [holder EXCEPT !["runtime"] = IF listening[p] = TRUE THEN Nobody ELSE @]
    BY <1>1, <1>2 DEF CloseListener
<1>4. /\ \A q \in Procs : q # p => (claim'["runtime"] = q <=> claim["runtime"] = q)
      /\ claim'["runtime"] # p
    BY <1>1 DEF Names, SingleInstanceAssumption
<1>5. /\ {"gone", "compare"} \subseteq Places /\ pc[p] \in Leaving
      /\ {"gone", "compare"} \cap (Running \cup {"off", "leaving", "swapping"} \cup Asking \cup Becoming) = {}
    BY <1>1 DEF Running, Places, Asking, Becoming, Instance, Leaving, Over, Sending
<1>6. CASE Goto(p, "gone")
    BY <1>1, <1>3, <1>4, <1>5, <1>6, NameLostKeeps
<1>7. CASE Goto(p, "compare")
    BY <1>1, <1>3, <1>4, <1>5, <1>7, NameLostKeeps
<1> QED  BY <1>1, <1>6, <1>7

LEMMA GiveUpTheNameKeeps ==
    ASSUME LaunchTypeOK, LaunchRight, SingleInstanceAssumption, "overlap" \notin Incidents,
           NEW p \in Procs, GiveUpTheName(p)
    PROVE  LaunchRight'
<1>1. /\ "update" \in Incidents /\ pc[p] = "up" /\ NoneStarting /\ CloseListener(p)
      /\ Goto(p, "swapping")
      /\ UNCHANGED <<loggedIn, claim, own, nth, stalled>>
    BY DEF GiveUpTheName, asking, IsUp
<1>2. own[p] = "runtime" /\ listening[p] = TRUE
    BY <1>1 DEF LaunchRight, NamesRight, ListenRight, Running
<1>3. /\ listening' = [listening EXCEPT ![p] = FALSE]
      /\ holder' = [holder EXCEPT !["runtime"] = IF listening[p] = TRUE THEN Nobody ELSE @]
    BY <1>1, <1>2 DEF CloseListener
<1>4. ~BusyIsRefused
    BY <1>1 DEF SingleInstanceAssumption
<1>5. /\ "swapping" \in Places /\ pc[p] \in Running
      /\ "swapping" \notin Running \cup {"off", "leaving"} \cup Asking \cup Becoming
    BY <1>1 DEF Running, Places, Asking, Becoming, Instance, Leaving, Over, Sending
<1> QED  BY <1>1, <1>2, <1>3, <1>4, <1>5, NameLostKeeps

LEMMA CrashKeeps ==
    ASSUME LaunchTypeOK, LaunchRight, SingleInstanceAssumption, NEW p \in Procs, Crash(p)
    PROVE  LaunchRight'
<1>1. /\ pc[p] \in {"loading", "up", "leaving", "compare"} /\ Goto(p, "crashed")
      /\ holder' = [n \in Names |-> IF holder[n] = p THEN Stale ELSE holder[n]]
      /\ listening' = [listening EXCEPT ![p] = FALSE]
      /\ UNCHANGED <<loggedIn, claim, own, nth, stalled>>
    BY DEF Crash, asking
<1>2. holder["runtime"] = p <=> listening[p] = TRUE
    BY DEF LaunchRight, ListenRight
<1>3. \A n \in {"temp", "shared"} : holder[n] # p
    BY OthersAre DEF LaunchRight
<1>4. holder' = [holder EXCEPT !["runtime"] = IF listening[p] = TRUE THEN Stale ELSE @]
    <2>1. holder \in [Names -> Holders]
        BY TypesAre
    <2> QED  BY <1>1, <1>2, <1>3, <2>1 DEF Names
<1>5. /\ "crashed" \in Places /\ "crashed" \in Over /\ pc[p] \in Running \cup Leaving
      /\ "crashed" \notin Running \cup {"off", "leaving", "swapping"} \cup Asking \cup Becoming
    BY <1>1 DEF Running, Places, Asking, Becoming, Instance, Leaving, Over, Sending
<1> QED  BY <1>1, <1>4, <1>5, NameLostKeeps

LEMMA NewBuildStartsKeeps ==
    ASSUME LaunchTypeOK, LaunchRight, NEW p \in Procs, NEW q \in Procs, NewBuildStarts(p, q)
    PROVE  LaunchRight'
<1>1. /\ pc[p] = "swapping" /\ pc[q] = "off"
      /\ pc' = [pc EXCEPT ![p] = "leaving", ![q] = "read"]
      /\ own' = [own EXCEPT ![q] = IF loggedIn THEN "runtime" ELSE "temp"]
      /\ UNCHANGED <<loggedIn, holder, claim, nth, listening, stalled>>
    BY DEF NewBuildStarts, world, serving
<1>2. /\ pc'[p] = "leaving" /\ pc'[q] = "read"
      /\ \A x \in Procs : x # p /\ x # q => pc'[x] = pc[x]
    BY <1>1, TypesAre
<1>3. /\ \A x \in Procs : listening[x] = FALSE
      /\ \A x \in Procs : x # p => pc[x] \notin Starting
      /\ nth[q] = 1 /\ loggedIn = TRUE /\ ~BusyIsRefused
    BY <1>1 DEF LaunchRight, NamesRight, LookRight, StartsRight, ClaimRight, Past, Starting
<1>4. own'[q] = "runtime" /\ \A x \in Procs : x # q => own'[x] = own[x]
    BY <1>1, <1>3, TypesAre
<1>5. NamesRight'
    BY <1>1, <1>2, <1>3, <1>4 DEF LaunchRight, NamesRight
<1>6. StartsRight'
    <2>1. "leaving" \notin Starting
        BY DEF Starting, Asking, Becoming, Sending
    <2> QED  BY <1>2, <1>3, <2>1 DEF StartsRight
<1>7. ListenRight'
    BY <1>1, <1>2, <1>3 DEF LaunchRight, ListenRight, Running
<1>8. LookRight'
    BY <1>1, <1>2, <1>3 DEF LaunchRight, LookRight, Sending
<1>9. ClaimRight'
    BY <1>3 DEF ClaimRight
<1> QED  BY <1>5, <1>6, <1>7, <1>8, <1>9 DEF LaunchRight

LEMMA StallKeeps ==
    ASSUME LaunchTypeOK, LaunchRight, NEW p \in Procs, Stall(p)
    PROVE  LaunchRight'
<1>1. /\ pc[p] \in Running /\ UNCHANGED <<loggedIn, holder, claim, pc, own, nth, listening>>
      /\ \A q \in Procs : q # p => stalled'[q] = stalled[q]
    BY TypesAre DEF Stall, Running, world, asking
<1>2. \A q \in Procs : listening'[q] = TRUE /\ stalled'[q] = TRUE => pc'[q] \in Running
    BY <1>1 DEF LaunchRight, ListenRight
<1>3. ListenRight'
    BY <1>1, <1>2 DEF LaunchRight, ListenRight
<1>4. NamesRight' /\ StartsRight' /\ LookRight' /\ ClaimRight'
    BY <1>1 DEF LaunchRight, NamesRight, StartsRight, LookRight, ClaimRight, Past, Alive
<1> QED  BY <1>3, <1>4 DEF LaunchRight

(***************************************************************************)
(* The invariant, and what it says.                                        *)
(***************************************************************************)
LEMMA LaunchInitRight ==
    ASSUME LaunchInit, SingleInstanceAssumption, "login" \notin Incidents
    PROVE  LaunchInv
<1>1. LaunchTypeOK
    <2>1. \A n \in Names : (IF n \in DOMAIN Foreign THEN Foreign[n] ELSE Nobody) \in Holders
        BY DEF SingleInstanceAssumption, Holders
    <2>2. holder \in [Names -> Holders] /\ waiting \in [Procs -> Seq(Calls)]
        BY <2>1 DEF LaunchInit
    <2>3. /\ claim \in [Names -> Procs \cup {Nobody}] /\ keyring \in Tokens /\ file \in Tokens
          /\ pc \in [Procs -> Places] /\ own \in [Procs -> {"runtime", "temp"}]
          /\ nth \in [Procs -> 1..3] /\ has \in [Procs -> Tokens] /\ mine \in [Procs -> Tokens]
          /\ to \in [Procs -> Procs] /\ restoring \in [Procs -> {"no", "look", "write"}]
          /\ ran \subseteq Procs /\ dropped \subseteq Procs
          /\ \A p \in Procs : mine[p] \in {p, NoToken}
        BY DEF LaunchInit, Tokens, Places
    <2>4. /\ listening \in [Procs -> BOOLEAN] /\ stalled \in [Procs -> BOOLEAN]
          /\ recheck \in [Procs -> BOOLEAN] /\ handedOver \in [Procs -> BOOLEAN]
        BY DEF LaunchInit
    <2>5. loggedIn \in BOOLEAN /\ locked \in BOOLEAN
        BY DEF LaunchInit
    <2> QED  BY <2>2, <2>3, <2>4, <2>5, TypesAre, Zenon
<1>2. \A p \in Procs : pc[p] = "off" /\ nth[p] = 1 /\ listening[p] = FALSE
    BY DEF LaunchInit
<1>3. /\ loggedIn = TRUE /\ holder["runtime"] = Nobody /\ claim["runtime"] = Nobody
      /\ \A n \in {"temp", "shared"} : holder[n] \in {Nobody, "open", "mute"}
    BY DEF LaunchInit, Names, SingleInstanceAssumption
<1>4. Nobody \notin Procs
    BY DEF SingleInstanceAssumption
<1>5. NamesRight /\ ListenRight /\ ClaimRight
    BY <1>2, <1>3, <1>4 DEF NamesRight, ListenRight, ClaimRight, Running
<1>6. StartsRight /\ LookRight
    BY <1>2 DEF StartsRight, LookRight, Past, Starting, Asking, Becoming, Sending
<1> QED  BY <1>1, <1>5, <1>6 DEF LaunchInv, LaunchRight

LEMMA LaunchNextTypes ==
    ASSUME LaunchInv, LaunchNext, "login" \notin Incidents
    PROVE  LaunchTypeOK'
<1>1. LaunchTypeOK /\ NamesRight
    BY DEF LaunchInv, LaunchRight
<1>2. ASSUME NEW p \in Procs, LaunchStep(p) PROVE LaunchTypeOK'
    BY <1>1, <1>2, PlainTypes, ReadTokenTypes, NoInstanceTypes, NothingToShowTypes, ConnectTypes,
       TakenTypes, WriteTokenTypes, ListenTypes DEF LaunchStep
<1>3. ASSUME NEW p \in Procs, InstanceStep(p) PROVE LaunchTypeOK'
    BY <1>1, <1>3, PlainTypes, DeliverTypes, RecheckTypes, RestoreWritesTypes, StopListeningTypes,
       GiveUpTheNameTypes, NewBuildFailsTypes, NewBuildStartsTypes DEF InstanceStep
<1>4. CASE Environment
    BY <1>1, <1>4, PlainTypes, CrashTypes, LockTypes DEF Environment, LogIn
<1> QED  BY <1>2, <1>3, <1>4 DEF LaunchNext

LEMMA LaunchNextKeeps ==
    ASSUME LaunchInv, LaunchNext, SingleInstanceAssumption,
           "overlap" \notin Incidents, "login" \notin Incidents
    PROVE  LaunchRight'
<1>1. LaunchTypeOK /\ LaunchRight
    BY DEF LaunchInv
<1>2. ASSUME NEW p \in Procs, LaunchStep(p) PROVE LaunchRight'
    BY <1>1, <1>2, LaunchKeeps, LaunchMovesKeep, WriteTokenKeeps, ListenKeeps, InstanceMovesKeep
       DEF LaunchStep
<1>3. ASSUME NEW p \in Procs, InstanceStep(p) PROVE LaunchRight'
    BY <1>1, <1>3, QuietStepsKeep, InstanceMovesKeep, StopListeningKeeps, GiveUpTheNameKeeps,
       NewBuildFailsKeeps, NewBuildStartsKeeps DEF InstanceStep
<1>4. CASE Environment
    BY <1>1, <1>4, CrashKeeps, StallKeeps, QuietStepsKeep DEF Environment, LogIn
<1> QED  BY <1>2, <1>3, <1>4 DEF LaunchNext

LEMMA LaunchStepsKeep ==
    ASSUME SingleInstanceAssumption, "overlap" \notin Incidents, "login" \notin Incidents
    PROVE  LaunchInv /\ [LaunchNext]_launch_vars => LaunchInv'
<1>1. ASSUME LaunchInv, LaunchNext PROVE LaunchInv'
    BY <1>1, LaunchNextTypes, LaunchNextKeeps DEF LaunchInv
<1>2. ASSUME LaunchInv, UNCHANGED launch_vars PROVE LaunchInv'
    <2>1. LaunchRight'
        BY <1>2, QuietStepsKeep DEF LaunchInv
    <2>2. LaunchTypeOK'
        BY <1>2 DEF LaunchInv, LaunchTypeOK, launch_vars, world, store, asking, serving, history
    <2> QED  BY <2>1, <2>2 DEF LaunchInv
<1> QED  BY <1>1, <1>2

\* What the invariant says of the launches that became instances.
LEMMA InstancesAreOne ==
    ASSUME LaunchInv
    PROVE  OneInstance
<1>1. LaunchTypeOK /\ LaunchRight
    BY DEF LaunchInv
<1>2. ASSUME NEW p \in Procs, NEW q \in Procs, {pc[p], pc[q]} \subseteq Instance
      PROVE  p = q
    <2>1. /\ pc[p] \in Running \/ (pc[p] \in Starting /\ Past(p))
          /\ pc[q] \in Running \/ (pc[q] \in Starting /\ Past(q))
        BY <1>2 DEF Instance, Running, Starting, Past
    <2>2. CASE pc[p] \in Running /\ pc[q] \in Running
        BY <1>1, <2>2 DEF LaunchRight, ListenRight
    <2>3. CASE pc[p] \in Starting /\ pc[q] \in Starting
        BY <1>1, <2>3 DEF LaunchRight, StartsRight
    <2>4. CASE (Past(p) /\ pc[q] \in Running) \/ (Past(q) /\ pc[p] \in Running)
        BY <1>1, <2>4 DEF LaunchRight, ListenRight, LookRight
    <2> QED  BY <2>1, <2>2, <2>3, <2>4
<1>3. Alone
    BY <1>2 DEF Alone
<1>4. Findable
    <2>1. ASSUME NEW p \in Procs, listening[p] PROVE holder[own[p]] = p
        <3>1. listening[p] = TRUE
            BY <1>1, <2>1, TypesAre
        <3>2. holder["runtime"] = p /\ pc[p] # "off"
            BY <1>1, <3>1 DEF LaunchRight, ListenRight, Running
        <3> QED  BY <1>1, <3>2 DEF LaunchRight, NamesRight
    <2> QED  BY <2>1 DEF Findable
<1> QED  BY <1>3, <1>4 DEF OneInstance

\* However many launches come and whatever other accounts hold in /tmp, where each launch ends
\* its start before the next begins and the session's own directory is there, a launch never
\* becomes an instance beside one that stalled, was updated, or is not yet on its way out, and
\* the listener of the one instance stays at the name a launch asks first, through quits,
\* crashes, updates that fail and credential stores that lock
\* (forwardToRunningInstance, startSingleInstanceServer, applyLinuxUpdate, aboutToQuit).
THEOREM LaunchesAreOneInstance ==
    ASSUME "overlap" \notin Incidents, "login" \notin Incidents
    PROVE  LaunchSpec => [](LaunchTypeOK /\ OneInstance)
<1>1. SingleInstanceAssumption
    BY LaunchConstants
<1>2. LaunchInit => LaunchInv
    BY <1>1, LaunchInitRight
<1>3. LaunchInv /\ [LaunchNext]_launch_vars => LaunchInv'
    BY <1>1, LaunchStepsKeep
<1>4. LaunchInv => LaunchTypeOK /\ OneInstance
    BY InstancesAreOne DEF LaunchInv
<1> QED  BY <1>2, <1>3, <1>4, PTL DEF LaunchSpec

(***************************************************************************)
(* Commands that are handed over.                                          *)
(***************************************************************************)
Sends == {"ask", "again"} \cup Sending

\* A launch moves on and holds what it read; the store keeps its token or forgets it.
LEMMA TokensMove ==
    ASSUME LaunchTypeOK, TokensRight, NEW p \in Procs, NEW l \in Places, Goto(p, l),
           UNCHANGED <<mine, listening, restoring, has>>, keyring' \in {keyring, NoToken},
           locked' = FALSE, file' = NoToken, l \notin {"swapping", "move", "listen"},
           l \in Sends => pc[p] \in Sends, l \in Sending => has[p] = to'[p],
           \A q \in Procs : q # p => to'[q] = to[q]
    PROVE  TokensRight'
<1>1. pc'[p] = l /\ \A q \in Procs : q # p => pc'[q] = pc[q]
    BY GotoIs
<1>2. \A q \in Procs : pc'[q] # "swapping" /\ pc'[q] # "move"
    BY <1>1 DEF TokensRight
<1>3. \A q \in Procs : listening'[q] = TRUE \/ pc'[q] = "listen" =>
                            mine'[q] = q /\ keyring' \in {q, NoToken}
    BY <1>1 DEF TokensRight
<1>4. \A q \in Procs : restoring'[q] # "no" => listening'[q] = TRUE
    BY DEF TokensRight
<1>5. \A q, r \in Procs : pc'[r] \in Sends /\ listening'[q] = TRUE => has'[r] \in {q, NoToken}
    BY <1>1 DEF TokensRight, Sends
<1>6. \A r \in Procs : pc'[r] \in Sending => has'[r] = to'[r]
    BY <1>1 DEF TokensRight
<1> QED  BY <1>2, <1>3, <1>4, <1>5, <1>6 DEF TokensRight, Sends

\* A process looks at its token, or is only slow.
LEMMA TokensStay ==
    ASSUME TokensRight, UNCHANGED <<keyring, file, locked, pc, mine, listening, has, to>>,
           \A q \in Procs : restoring'[q] # "no" => restoring[q] # "no" \/ listening[q] = TRUE
    PROVE  TokensRight'
    BY DEF TokensRight

LEMMA LaunchTokens ==
    ASSUME LaunchTypeOK, LaunchRight, TokensRight, SingleInstanceAssumption, NEW p \in Procs,
           LaunchStep(p)
    PROVE  TokensRight'
<1>0. locked = FALSE /\ file = NoToken /\ pc[p] # "move" /\ StoredToken = keyring
    BY DEF TokensRight, StoredToken, Loaded
<1>1. CASE Launch(p)
    <2>1. Goto(p, "read") /\ UNCHANGED <<keyring, file, locked, mine, listening, restoring, has, to>>
        BY <1>1 DEF Launch, store, serving
    <2> QED  BY <1>0, <2>1, TokensMove DEF Sends, Places, Asking, Sending
<1>2. CASE ReadToken(p)
    <2>1. /\ pc[p] = "read" /\ has' = [has EXCEPT ![p] = keyring] /\ Goto(p, "ask")
          /\ file' = NoToken /\ locked' = FALSE
          /\ UNCHANGED <<keyring, mine, listening, restoring, to>>
        BY <1>0, <1>2 DEF ReadToken, serving
    <2>2. pc'[p] = "ask" /\ \A q \in Procs : q # p => pc'[q] = pc[q]
        <3>1. "ask" \in Places
            BY DEF Places, Asking
        <3> QED  BY <2>1, <3>1, GotoIs
    <2>3. has'[p] = keyring /\ \A q \in Procs : q # p => has'[q] = has[q]
        BY <2>1, TypesAre
    <2>4. \A q \in Procs : pc'[q] # "swapping" /\ pc'[q] # "move"
        BY <2>2 DEF TokensRight
    <2>5. \A q \in Procs : listening'[q] = TRUE \/ pc'[q] = "listen" =>
                                mine'[q] = q /\ keyring' \in {q, NoToken}
        BY <2>1, <2>2 DEF TokensRight
    <2>6. \A q, r \in Procs : pc'[r] \in Sends /\ listening'[q] = TRUE => has'[r] \in {q, NoToken}
        BY <2>1, <2>2, <2>3 DEF TokensRight, Sends
    <2>7. \A r \in Procs : pc'[r] \in Sending => has'[r] = to'[r]
        BY <2>1, <2>2, <2>3 DEF TokensRight, Sending
    <2> QED  BY <2>1, <2>4, <2>5, <2>6, <2>7 DEF TokensRight, Sends
<1>3. CASE MoveToken(p)
    BY <1>0, <1>3 DEF MoveToken
<1>4. CASE NoInstance(p)
    <2>1. /\ pc[p] \in Looking /\ (Goto(p, "ask") \/ Goto(p, "token"))
          /\ UNCHANGED <<keyring, file, locked, mine, listening, restoring, has, to>>
        BY <1>4 DEF NoInstance, store, serving
    <2>2. CASE Goto(p, "ask")
        BY <1>0, <2>1, <2>2, TokensMove DEF Sends, Looking, Places, Asking, Sending
    <2>3. CASE Goto(p, "token")
        BY <1>0, <2>1, <2>3, TokensMove DEF Sends, Places, Instance, Becoming, Sending
    <2> QED  BY <2>1, <2>2, <2>3
<1>5. CASE GiveWay(p) \/ NothingToShow(p)
    <2>1. /\ Goto(p, "gave up")
          /\ UNCHANGED <<keyring, file, locked, mine, listening, restoring, has, to>>
        BY <1>5 DEF GiveWay, NothingToShow, store, serving, asking
    <2> QED  BY <1>0, <2>1, TokensMove DEF Sends, Places, Over, Sending
<1>6. CASE Connect(p)
    <2>1. /\ pc[p] \in Looking /\ Meets(Try(p)[nth[p]]) = "ours" /\ has[p] # NoToken
          /\ to' = [to EXCEPT ![p] = holder[Try(p)[nth[p]]]]
          /\ Goto(p, "send") \/ Goto(p, "send again")
          /\ UNCHANGED <<keyring, file, locked, mine, listening, restoring, has>>
        BY <1>6 DEF Connect, store, serving
    <2>2. pc[p] # "off"
        BY <2>1 DEF Looking
    <2>3. Try(p)[nth[p]] = "runtime"
        BY <2>1, <2>2, TryIs, OthersAre DEF LaunchRight
    <2>4. holder["runtime"] \in Procs
        BY <2>1, <2>3, OursIs DEF Names
    <2>5. listening[holder["runtime"]] = TRUE
        BY <2>4 DEF LaunchRight, ListenRight
    <2>6. has[p] = holder["runtime"]
        BY <2>1, <2>4, <2>5 DEF TokensRight, Looking
    <2>7. to'[p] = has[p] /\ \A q \in Procs : q # p => to'[q] = to[q]
        BY <2>1, <2>3, <2>6, TypesAre
    <2>8. /\ {"send", "send again"} \subseteq Places /\ pc[p] \in Sends
          /\ "send" \notin {"swapping", "move", "listen"}
          /\ "send again" \notin {"swapping", "move", "listen"}
        BY <2>1 DEF Sends, Looking, Places, Asking, Sending
    <2> QED  BY <1>0, <2>1, <2>7, <2>8, TokensMove
<1>7. CASE Taken(p)
    <2>1. /\ Goto(p, "told")
          /\ UNCHANGED <<keyring, file, locked, mine, listening, restoring, has, to>>
        BY <1>7 DEF Taken, store, asking
    <2> QED  BY <1>0, <2>1, TokensMove DEF Sends, Places, Over, Sending
<1>8. CASE Refused(p)
    <2>1. /\ pc[p] \in Sending /\ (Goto(p, "again") \/ Goto(p, "gave up"))
          /\ UNCHANGED <<keyring, file, locked, mine, listening, restoring, has, to>>
        BY <1>8 DEF Refused, store, asking, serving
    <2>2. CASE Goto(p, "again")
        BY <1>0, <2>1, <2>2, TokensMove DEF Sends, Places, Asking, Sending
    <2>3. CASE Goto(p, "gave up")
        BY <1>0, <2>1, <2>3, TokensMove DEF Sends, Places, Over, Sending
    <2> QED  BY <2>1, <2>2, <2>3
<1>9. CASE WriteToken(p)
    <2>1. /\ pc[p] = "token" /\ Goto(p, "listen") /\ keyring' = p /\ file' = NoToken
          /\ locked' = FALSE /\ mine' = [mine EXCEPT ![p] = p]
          /\ UNCHANGED <<listening, restoring, has, to>>
        BY <1>0, <1>9 DEF WriteToken, StoreToken, asking
    <2>2. pc'[p] = "listen" /\ \A q \in Procs : q # p => pc'[q] = pc[q]
        <3>1. "listen" \in Places
            BY DEF Places, Instance, Becoming
        <3> QED  BY <2>1, <3>1, GotoIs
    <2>3. mine'[p] = p
        BY <2>1, TypesAre
    <2>4. /\ \A q \in Procs : listening'[q] = FALSE
          /\ \A q \in Procs : q # p => pc[q] \notin Starting
        BY <2>1 DEF LaunchRight, LookRight, StartsRight, Past, Starting, Becoming
    <2>5. \A q \in Procs : pc'[q] = "listen" => q = p
        BY <2>2, <2>4 DEF Starting, Becoming
    <2>6. \A q \in Procs : listening'[q] = TRUE \/ pc'[q] = "listen" =>
                                mine'[q] = q /\ keyring' \in {q, NoToken}
        BY <2>1, <2>3, <2>4, <2>5
    <2>7. \A q \in Procs : restoring'[q] = "no"
        BY <2>1, <2>4 DEF TokensRight
    <2>8. \A r \in Procs : pc'[r] \in Sending => has'[r] = to'[r]
        BY <2>1, <2>2 DEF TokensRight, Sending
    <2>9. \A q \in Procs : pc'[q] # "swapping" /\ pc'[q] # "move"
        BY <2>2 DEF TokensRight
    <2>10. \A q, r \in Procs : pc'[r] \in Sends /\ listening'[q] = TRUE => has'[r] \in {q, NoToken}
        BY <2>4
    <2> QED  BY <2>1, <2>6, <2>7, <2>8, <2>9, <2>10 DEF TokensRight, Sends
<1>10. CASE Listen(p)
    <2>1. /\ pc[p] = "listen" /\ Goto(p, "loading") /\ UNCHANGED <<keyring, file, locked, mine, restoring, has, to>>
          /\ listening' = listening \/ listening' = [listening EXCEPT ![p] = TRUE]
        BY <1>10 DEF Listen, Listens, store, asking
    <2>2. pc'[p] = "loading" /\ \A q \in Procs : q # p => pc'[q] = pc[q]
        <3>1. "loading" \in Places
            BY DEF Places, Instance
        <3> QED  BY <2>1, <3>1, GotoIs
    <2>3. \A q \in Procs : listening'[q] = TRUE => q = p \/ listening[q] = TRUE
        BY <2>1, TypesAre
    <2>4. \A q \in Procs : listening[q] = TRUE => listening'[q] = TRUE
        BY <2>1, TypesAre
    <2>5. \A q \in Procs : q # p => pc[q] \notin Starting
        BY <2>1 DEF LaunchRight, StartsRight, Starting, Becoming
    <2>6. \A q \in Procs : pc'[q] \notin Sends
        BY <2>2, <2>5 DEF Sends, Starting, Asking, Sending
    <2>7. \A q \in Procs : listening'[q] = TRUE \/ pc'[q] = "listen" =>
                                mine'[q] = q /\ keyring' \in {q, NoToken}
        BY <2>1, <2>2, <2>3 DEF TokensRight
    <2>8. \A q \in Procs : restoring'[q] # "no" => listening'[q] = TRUE
        BY <2>1, <2>4 DEF TokensRight
    <2>9. \A q \in Procs : pc'[q] # "swapping" /\ pc'[q] # "move"
        BY <2>2 DEF TokensRight
    <2> QED  BY <1>0, <2>1, <2>6, <2>7, <2>8, <2>9 DEF TokensRight, Sends
<1>11. CASE Wire(p)
    <2>1. /\ Goto(p, "up")
          /\ UNCHANGED <<keyring, file, locked, mine, listening, restoring, has, to>>
        BY <1>11 DEF Wire, store, asking
    <2> QED  BY <1>0, <2>1, TokensMove DEF Sends, Places, Instance, Sending
<1> QED  BY <1>1, <1>2, <1>3, <1>4, <1>5, <1>6, <1>7, <1>8, <1>9, <1>10, <1>11 DEF LaunchStep

\* A listener that closes: its token is not being written, and is asked for no more.
LEMMA TokensClose ==
    ASSUME LaunchTypeOK, TokensRight, NEW p \in Procs,
           NEW l \in {"gone", "compare", "crashed"}, Goto(p, l),
           UNCHANGED <<keyring, file, locked, mine, has, to>>,
           listening' = [listening EXCEPT ![p] = FALSE],
           restoring'[p] = "no", \A q \in Procs : q # p => restoring'[q] = restoring[q]
    PROVE  TokensRight'
<1>1. pc'[p] = l /\ \A q \in Procs : q # p => pc'[q] = pc[q]
    <2>1. l \in Places
        BY DEF Places, Over, Leaving
    <2> QED  BY <2>1, GotoIs
<1>2. listening'[p] = FALSE /\ \A q \in Procs : q # p => listening'[q] = listening[q]
    BY TypesAre
<1>3. \A q \in Procs : pc'[q] # "swapping" /\ pc'[q] # "move"
    BY <1>1 DEF TokensRight
<1>4. \A q \in Procs : listening'[q] = TRUE \/ pc'[q] = "listen" =>
                            mine'[q] = q /\ keyring' \in {q, NoToken}
    BY <1>1, <1>2 DEF TokensRight
<1>5. \A q \in Procs : restoring'[q] # "no" => listening'[q] = TRUE
    BY <1>2 DEF TokensRight
<1>6. \A q, r \in Procs : pc'[r] \in Sends /\ listening'[q] = TRUE => has'[r] \in {q, NoToken}
    BY <1>1, <1>2 DEF TokensRight, Sends, Sending
<1>7. \A r \in Procs : pc'[r] \in Sending => has'[r] = to'[r]
    BY <1>1 DEF TokensRight, Sending
<1>8. locked' = FALSE /\ file' = NoToken
    BY DEF TokensRight
<1> QED  BY <1>3, <1>4, <1>5, <1>6, <1>7, <1>8 DEF TokensRight, Sends

LEMMA InstanceTokens ==
    ASSUME LaunchTypeOK, LaunchRight, TokensRight, SingleInstanceAssumption,
           "update" \notin Incidents, NEW p \in Procs, InstanceStep(p)
    PROVE  TokensRight'
<1>0. locked = FALSE /\ file = NoToken /\ pc[p] # "swapping"
    BY DEF TokensRight
<1>1. CASE Deliver(p) \/ Recheck(p) \/ RestoreLooks(p)
    <2>1. UNCHANGED <<keyring, file, locked, pc, mine, listening, has, to>>
        BY <1>1 DEF Deliver, Recheck, RestoreLooks, store, asking
    <2>2. \A q \in Procs : restoring'[q] # "no" => restoring[q] # "no" \/ listening[q] = TRUE
        BY <1>1, TypesAre DEF Deliver, Recheck, RestoreLooks, KeepTokenStored
    <2> QED  BY <2>1, <2>2, TokensStay
<1>2. CASE RestoreWrites(p)
    <2>1. /\ restoring[p] = "write" /\ restoring' = [restoring EXCEPT ![p] = "no"]
          /\ keyring' = mine[p] /\ file' = NoToken /\ locked' = FALSE
          /\ UNCHANGED <<pc, mine, listening, has, to>>
        BY <1>0, <1>2 DEF RestoreWrites, StoreToken, asking
    <2>2. listening[p] = TRUE /\ mine[p] = p
        BY <2>1 DEF TokensRight
    <2>3. \A q \in Procs : listening[q] = TRUE => q = p
        BY <2>2 DEF LaunchRight, ListenRight
    <2>4. \A q \in Procs : pc[q] # "listen"
        BY <2>2 DEF LaunchRight, LookRight, Past, Becoming
    <2>5. \A q \in Procs : restoring'[q] # "no" => restoring[q] # "no"
        BY <2>1, TypesAre
    <2>6. \A q \in Procs : listening'[q] = TRUE \/ pc'[q] = "listen" =>
                                mine'[q] = q /\ keyring' \in {q, NoToken}
        BY <2>1, <2>2, <2>3, <2>4
    <2>7. \A q \in Procs : restoring'[q] # "no" => listening'[q] = TRUE
        BY <2>1, <2>5 DEF TokensRight
    <2>8. /\ \A q \in Procs : pc'[q] # "swapping" /\ pc'[q] # "move"
          /\ \A q, r \in Procs : pc'[r] \in Sends /\ listening'[q] = TRUE => has'[r] \in {q, NoToken}
          /\ \A r \in Procs : pc'[r] \in Sending => has'[r] = to'[r]
        BY <2>1 DEF TokensRight, Sends
    <2> QED  BY <2>1, <2>6, <2>7, <2>8 DEF TokensRight, Sends
<1>3. CASE Quit(p)
    <2>1. /\ Goto(p, "leaving")
          /\ UNCHANGED <<keyring, file, locked, mine, listening, restoring, has, to>>
        BY <1>3 DEF Quit, store, asking, serving
    <2> QED  BY <1>0, <2>1, TokensMove DEF Sends, Places, Leaving, Sending
<1>4. CASE StopListening(p)
    <2>1. /\ restoring[p] = "no" /\ (Goto(p, "gone") \/ Goto(p, "compare"))
          /\ listening' = [listening EXCEPT ![p] = FALSE]
          /\ UNCHANGED <<keyring, file, locked, mine, restoring, has, to>>
        BY <1>4 DEF StopListening, CloseListener, store, asking
    <2> QED  BY <2>1, TokensClose
<1>5. CASE Compare(p)
    <2>1. /\ Goto(p, "gone") \/ Goto(p, "delete")
          /\ UNCHANGED <<keyring, file, locked, mine, listening, restoring, has, to>>
        BY <1>5 DEF Compare, store, asking, serving
    <2>2. CASE Goto(p, "gone")
        BY <1>0, <2>1, <2>2, TokensMove DEF Sends, Places, Over, Sending
    <2>3. CASE Goto(p, "delete")
        BY <1>0, <2>1, <2>3, TokensMove DEF Sends, Places, Leaving, Sending
    <2> QED  BY <2>1, <2>2, <2>3
<1>6. CASE Delete(p)
    <2>1. /\ Goto(p, "gone") /\ keyring' \in {keyring, NoToken} /\ file' = NoToken
          /\ UNCHANGED <<locked, mine, listening, restoring, has, to>>
        BY <1>6 DEF Delete, asking, serving
    <2> QED  BY <1>0, <2>1, TokensMove DEF Sends, Places, Over, Sending
<1>7. ~GiveUpTheName(p) /\ ~NewBuildFails(p) /\ \A q \in Procs : ~NewBuildStarts(p, q)
    BY <1>0 DEF GiveUpTheName, NewBuildFails, NewBuildStarts
<1> QED  BY <1>1, <1>2, <1>3, <1>4, <1>5, <1>6, <1>7 DEF InstanceStep

LEMMA OtherTokens ==
    ASSUME LaunchTypeOK, TokensRight, {"login", "lock"} \cap Incidents = {},
           Environment \/ UNCHANGED launch_vars
    PROVE  TokensRight'
<1>1. ASSUME NEW p \in Procs, Crash(p) PROVE TokensRight'
    <2>1. /\ Goto(p, "crashed") /\ listening' = [listening EXCEPT ![p] = FALSE]
          /\ restoring' = [restoring EXCEPT ![p] = "no"]
          /\ UNCHANGED <<keyring, file, locked, mine, has, to>>
        BY <1>1 DEF Crash, store, asking
    <2>2. restoring'[p] = "no" /\ \A q \in Procs : q # p => restoring'[q] = restoring[q]
        BY <2>1, TypesAre
    <2> QED  BY <2>1, <2>2, TokensClose
<1>2. ASSUME UNCHANGED launch_vars \/ \E p \in Procs : Stall(p) PROVE TokensRight'
    <2>1. UNCHANGED <<keyring, file, locked, pc, mine, listening, restoring, has, to>>
        BY <1>2 DEF Stall, launch_vars, world, store, asking, serving, history
    <2> QED  BY <2>1, TokensStay
<1> QED  BY <1>1, <1>2 DEF Environment, LogIn, LockOrUnlock

\* A command that waits goes on waiting while its instance listens and its queue only grows.
LEMMA WaitsOn ==
    ASSUME LaunchTypeOK, NEW r \in Procs, Waits(r),
           \A q \in Procs : listening[q] = TRUE => listening'[q] = TRUE,
           \A q \in Procs : waiting'[q] = waiting[q] \/ \E c \in Calls : waiting'[q] = Append(waiting[q], c)
    PROVE  Waits(r)'
<1>1. PICK q \in Procs : \E i \in DOMAIN waiting[q] :
                waiting[q][i].from = r /\ waiting[q][i].token = q /\ listening[q] = TRUE
    BY DEF Waits
<1>2. PICK i \in DOMAIN waiting[q] :
                waiting[q][i].from = r /\ waiting[q][i].token = q /\ listening[q] = TRUE
    BY <1>1
<1>3. waiting[q] \in Seq(Calls)
    BY TypesAre
<1>4. i \in DOMAIN waiting'[q] /\ waiting'[q][i] = waiting[q][i]
    BY <1>2, <1>3
<1>5. listening'[q] = TRUE
    BY <1>2
<1> QED  BY <1>2, <1>4, <1>5 DEF Waits

\* A step that acts on no command and closes no listener.
LEMMA CommandsWait ==
    ASSUME LaunchTypeOK, CommandsRight, UNCHANGED <<ran, dropped>>,
           \A q \in Procs : listening[q] = TRUE => listening'[q] = TRUE,
           \A q \in Procs : waiting'[q] = waiting[q] \/ \E c \in Calls : waiting'[q] = Append(waiting[q], c),
           \A r \in Procs : pc'[r] = "told" => pc[r] = "told" \/ Waits(r)'
    PROVE  CommandsRight'
    BY WaitsOn DEF CommandsRight

\* A listener that closes drops what it has not read.
LEMMA CommandsClose ==
    ASSUME LaunchTypeOK, CommandsRight, NEW p \in Procs, ran' = ran,
           dropped' = dropped \cup {waiting[p][i].from : i \in DOMAIN waiting[p]},
           \A q \in Procs : q # p => waiting'[q] = waiting[q] /\ listening'[q] = listening[q],
           \A r \in Procs : pc'[r] = "told" => pc[r] = "told"
    PROVE  CommandsRight'
<1>1. SUFFICES ASSUME NEW r \in Procs, pc'[r] = "told"
               PROVE  r \in ran' \cup dropped' \/ Waits(r)'
    BY DEF CommandsRight
<1>2. r \in ran \cup dropped \/ Waits(r)
    BY <1>1 DEF CommandsRight
<1>3. CASE Waits(r)
    <2>1. PICK q \in Procs : \E i \in DOMAIN waiting[q] :
                waiting[q][i].from = r /\ waiting[q][i].token = q /\ listening[q] = TRUE
        BY <1>3 DEF Waits
    <2>2. CASE q = p
        BY <2>1, <2>2
    <2>3. CASE q # p
        BY <2>1, <2>3 DEF Waits
    <2> QED  BY <2>2, <2>3
<1> QED  BY <1>2, <1>3

\* A command that was taken waits where its token is right.
LEMMA CommandTaken ==
    ASSUME LaunchTypeOK, TokensRight, CommandsRight, NEW p \in Procs, Taken(p)
    PROVE  CommandsRight'
<1>1. /\ pc[p] \in Sending /\ listening[to[p]] /\ Say(to[p], p, has[p]) /\ Goto(p, "told")
      /\ UNCHANGED <<ran, dropped, listening>>
    BY DEF Taken, history
<1>2. to[p] \in Procs /\ has[p] = to[p] /\ has[p] \in Tokens /\ listening[to[p]] = TRUE
    BY <1>1, TypesAre DEF TokensRight
<1> DEFINE call == [from |-> p, token |-> has[p]]
<1>3. call \in Calls /\ waiting' = [waiting EXCEPT ![to[p]] = Append(waiting[to[p]], call)]
    BY <1>1, <1>2 DEF Say, Calls
<1>4. waiting \in [Procs -> Seq(Calls)]
    BY TypesAre
<1>5. \A q \in Procs : waiting'[q] = waiting[q] \/ \E c \in Calls : waiting'[q] = Append(waiting[q], c)
    BY <1>2, <1>3, <1>4
<1>6. Waits(p)'
    <2>1. waiting'[to[p]] = Append(waiting[to[p]], call) /\ waiting[to[p]] \in Seq(Calls)
        BY <1>2, <1>3, <1>4
    <2> DEFINE last == Len(waiting[to[p]]) + 1
    <2>2. last \in DOMAIN waiting'[to[p]] /\ waiting'[to[p]][last] = call
        BY <1>3, <2>1
    <2> QED  BY <1>1, <1>2, <2>2 DEF Waits
<1>7. \A r \in Procs : r # p => pc'[r] = pc[r]
    <2>1. "told" \in Places
        BY DEF Places, Over
    <2> QED  BY <1>1, <2>1, GotoIs
<1> QED  BY <1>1, <1>5, <1>6, <1>7, CommandsWait

\* A command that is looked at with its token is acted on.
LEMMA CommandDelivered ==
    ASSUME LaunchTypeOK, SingleInstanceAssumption, TokensRight, CommandsRight, NEW p \in Procs, Deliver(p)
    PROVE  CommandsRight'
<1> DEFINE head == Head(waiting[p])
<1>1. /\ waiting[p] # <<>> /\ waiting' = [waiting EXCEPT ![p] = Tail(waiting[p])]
      /\ ran' = IF mine[p] # NoToken /\ head.token = mine[p] THEN ran \cup {head.from} ELSE ran
      /\ UNCHANGED <<pc, listening, dropped>>
    BY DEF Deliver
<1>2. waiting \in [Procs -> Seq(Calls)] /\ waiting[p] \in Seq(Calls)
    BY TypesAre
<1>3. waiting'[p] = Tail(waiting[p]) /\ \A q \in Procs : q # p => waiting'[q] = waiting[q]
    BY <1>1, <1>2
<1>4. SUFFICES ASSUME NEW r \in Procs, pc[r] = "told", Waits(r)
               PROVE  r \in ran' \/ Waits(r)'
    BY <1>1 DEF CommandsRight
<1>5. PICK q \in Procs : \E i \in DOMAIN waiting[q] :
                waiting[q][i].from = r /\ waiting[q][i].token = q /\ listening[q] = TRUE
    BY <1>4 DEF Waits
<1>6. PICK i \in DOMAIN waiting[q] :
                waiting[q][i].from = r /\ waiting[q][i].token = q /\ listening[q] = TRUE
    BY <1>5
<1>7. CASE q # p
    BY <1>1, <1>3, <1>6, <1>7 DEF Waits
<1>8. CASE q = p /\ i = 1
    <2>1. head = waiting[p][1]
        BY <1>1, <1>2
    <2>2. mine[p] = p /\ p # NoToken
        BY <1>6, <1>8 DEF TokensRight, SingleInstanceAssumption
    <2> QED  BY <1>1, <1>6, <1>8, <2>1, <2>2
<1>9. CASE q = p /\ i # 1
    <2>1. i \in 2..Len(waiting[p])
        BY <1>2, <1>6, <1>9
    <2>2. i - 1 \in DOMAIN Tail(waiting[p]) /\ Tail(waiting[p])[i - 1] = waiting[p][i]
        BY <1>2, <2>1
    <2> QED  BY <1>1, <1>3, <1>6, <1>9, <2>2 DEF Waits
<1> QED  BY <1>7, <1>8, <1>9

LEMMA CommandsKeep ==
    ASSUME LaunchTypeOK, SingleInstanceAssumption, TokensRight, CommandsRight,
           {"login", "lock", "update"} \cap Incidents = {}, LaunchNext \/ UNCHANGED launch_vars
    PROVE  CommandsRight'
<1>0. \A p \in Procs : pc[p] # "swapping"
    BY DEF TokensRight
<1>1. ASSUME NEW p \in Procs, LaunchStep(p) PROVE CommandsRight'
    <2>1. CASE Taken(p)
        BY <2>1, CommandTaken
    <2>2. CASE ~Taken(p)
        <3>1. ran' = ran /\ dropped' = dropped
            BY <1>1, <2>2 DEF LaunchStep, Launch, ReadToken, MoveToken, NoInstance, GiveWay, NothingToShow, Connect,
               Refused, WriteToken, Listen, Wire, history
        <3>2. \A q \in Procs : listening[q] = TRUE => listening'[q] = TRUE
            BY <1>1, <2>2, TypesAre DEF LaunchStep, Launch, ReadToken, MoveToken, NoInstance, GiveWay, NothingToShow,
               Connect, Refused, WriteToken, Listen, Listens, Wire, serving
        <3>3. \A r \in Procs : pc'[r] = "told" => pc[r] = "told"
            BY <1>1, <2>2, TypesAre DEF LaunchStep, Launch, ReadToken, MoveToken, NoInstance, GiveWay, NothingToShow,
               Connect, Refused, WriteToken, Listen, Wire, Goto
        <3>4. \A q \in Procs : waiting'[q] = waiting[q] \/ \E c \in Calls : waiting'[q] = Append(waiting[q], c)
            <4>1. CASE NothingToShow(p)
                <5>1. [from |-> p, token |-> NoToken] \in Calls
                    BY DEF Calls, Tokens
                <5> QED  BY <4>1, <5>1, TypesAre DEF NothingToShow, Say
            <4>2. CASE ~NothingToShow(p)
                BY <1>1, <2>2, <4>2 DEF LaunchStep, Launch, ReadToken, MoveToken, NoInstance, GiveWay,
                   Connect, Refused, WriteToken, Listen, Wire, serving
            <4> QED  BY <4>1, <4>2
        <3> QED  BY <3>1, <3>2, <3>3, <3>4, CommandsWait
    <2> QED  BY <2>1, <2>2
<1>2. ASSUME NEW p \in Procs, StopListening(p) \/ Crash(p) PROVE CommandsRight'
    <2>1. /\ dropped' = dropped \cup {waiting[p][i].from : i \in DOMAIN waiting[p]} /\ ran' = ran
          /\ waiting' = [waiting EXCEPT ![p] = <<>>] /\ listening' = [listening EXCEPT ![p] = FALSE]
          /\ Goto(p, "gone") \/ Goto(p, "compare") \/ Goto(p, "crashed")
        BY <1>2 DEF StopListening, Crash, CloseListener
    <2>2. \A q \in Procs : q # p => waiting'[q] = waiting[q] /\ listening'[q] = listening[q]
        BY <2>1, TypesAre
    <2>3. \A r \in Procs : pc'[r] = "told" => pc[r] = "told"
        BY <2>1, TypesAre DEF Goto
    <2> QED  BY <2>1, <2>2, <2>3, CommandsClose
<1>3. ASSUME UNCHANGED launch_vars \/ \E p \in Procs : Recheck(p) \/ RestoreLooks(p) \/ RestoreWrites(p) \/ Quit(p)
                 \/ Compare(p) \/ Delete(p) \/ Stall(p)
      PROVE  CommandsRight'
    <2>1. UNCHANGED <<ran, dropped, waiting, listening>>
        BY <1>3 DEF Recheck, RestoreLooks, RestoreWrites, Quit, Compare, Delete, Stall, launch_vars,
           serving, history
    <2>2. \A r \in Procs : pc'[r] = "told" => pc[r] = "told"
        BY <1>3, TypesAre DEF Recheck, RestoreLooks, RestoreWrites, Quit, Compare, Delete, Stall, launch_vars, Goto
    <2> QED  BY <2>1, <2>2, CommandsWait
<1>4. ASSUME NEW p \in Procs
      PROVE  ~GiveUpTheName(p) /\ ~NewBuildFails(p) /\ \A q \in Procs : ~NewBuildStarts(p, q)
    BY <1>0 DEF GiveUpTheName, NewBuildFails, NewBuildStarts
<1> QED  BY <1>1, <1>2, <1>3, <1>4, CommandDelivered
         DEF LaunchNext, InstanceStep, Environment, LogIn, LockOrUnlock

\* Where the credential store answers and no new build takes over, a launch that ended as
\* handed over was acted on, still waits at the instance that listens, with the token that
\* instance checks, or went down with it: the token a launch read is the listener's own, from
\* the moment it listens, and no quit, crash or restore of the token makes it another's
\* (handOverInstanceMessage, handleInstanceConnection, keepInstanceTokenStored).
THEOREM WhatIsHandedOverIsRun ==
    ASSUME {"overlap", "login", "lock", "update"} \cap Incidents = {}
    PROVE  LaunchSpec => []ForwardedIsRun
<1> DEFINE Inv == LaunchInv /\ TokensRight /\ CommandsRight
<1>0. /\ SingleInstanceAssumption /\ "overlap" \notin Incidents /\ "login" \notin Incidents
      /\ "update" \notin Incidents
    BY LaunchConstants
<1>1. LaunchInit => Inv
    <2>1. ASSUME LaunchInit PROVE TokensRight
        <3>1. /\ locked = FALSE /\ file = NoToken
              /\ \A p \in Procs : pc[p] = "off" /\ listening[p] = FALSE /\ restoring[p] = "no"
            BY <2>1 DEF LaunchInit
        <3> QED  BY <3>1 DEF TokensRight, Sending
    <2>2. ASSUME LaunchInit PROVE CommandsRight
        BY <2>2 DEF LaunchInit, CommandsRight
    <2> QED  BY <1>0, <2>1, <2>2, LaunchInitRight
<1>2. Inv /\ [LaunchNext]_launch_vars => Inv'
    <2>1. SUFFICES ASSUME Inv, LaunchNext \/ UNCHANGED launch_vars PROVE Inv'
        OBVIOUS
    <2>2. LaunchTypeOK /\ LaunchRight /\ TokensRight
        BY <2>1 DEF LaunchInv
    <2>3. LaunchInv'
        BY <1>0, <2>1, LaunchStepsKeep
    <2>4. TokensRight'
        <3>1. CASE \E p \in Procs : LaunchStep(p) \/ InstanceStep(p)
            BY <1>0, <2>2, <3>1, LaunchTokens, InstanceTokens
        <3>2. CASE Environment \/ UNCHANGED launch_vars
            BY <2>2, <3>2, OtherTokens
        <3> QED  BY <2>1, <3>1, <3>2 DEF LaunchNext
    <2>5. CommandsRight'
        BY <1>0, <2>1, <2>2, CommandsKeep
    <2> QED  BY <2>3, <2>4, <2>5
<1>3. Inv => ForwardedIsRun
    BY DEF CommandsRight, Waits, ForwardedIsRun
<1> QED  BY <1>1, <1>2, <1>3, PTL DEF LaunchSpec

\* Only these two steps end a launch at the look for an instance.
LEMMA GivesWayBy ==
    ASSUME LaunchTypeOK, LaunchNext \/ UNCHANGED launch_vars, NEW p \in Procs, pc[p] \in Looking,
           pc'[p] = "gave up"
    PROVE  GiveWay(p) \/ NothingToShow(p)
<1>1. ASSUME NEW x \in Procs, LaunchStep(x), ~GiveWay(x), ~NothingToShow(x) PROVE FALSE
    BY <1>1, TypesAre DEF LaunchStep, Launch, ReadToken, MoveToken, NoInstance, Connect, Taken, Refused,
       WriteToken, Listen, Wire, Goto, Looking, Sending
<1>2. ASSUME NEW x \in Procs, InstanceStep(x) PROVE FALSE
    BY <1>2, TypesAre DEF InstanceStep, Deliver, Recheck, RestoreLooks, RestoreWrites, Quit, StopListening,
       Compare, Delete, GiveUpTheName, NewBuildFails, NewBuildStarts, IsUp, Goto, Looking
<1>3. ~Environment /\ ~UNCHANGED launch_vars
    BY TypesAre DEF Environment, Crash, Stall, LogIn, LockOrUnlock, Goto, Looking, launch_vars
<1>4. ASSUME NEW x \in Procs, GiveWay(x) \/ NothingToShow(x) PROVE x = p
    BY <1>4, TypesAre DEF GiveWay, NothingToShow, Goto, Looking
<1> QED  BY <1>1, <1>2, <1>3, <1>4 DEF LaunchNext

\* A launch that closes because it was let in nowhere closes beside a running FreeTunnel of
\* this user's, never for another account's listener, for its silence, or for the file a crash
\* left, and on macOS never for a claim nobody alive holds
\* (whatAFailedConnectMeans, refusedByABusyInstanceOfOurs).
THEOREM LaunchesGiveWayToOurs ==
    ASSUME "overlap" \notin Incidents, "login" \notin Incidents
    PROVE  LaunchSpec => [][GivesWayToOurs]_launch_vars
<1>1. SingleInstanceAssumption
    BY LaunchConstants
<1>2. LaunchInit => LaunchInv
    BY <1>1, LaunchInitRight
<1>3. LaunchInv /\ [LaunchNext]_launch_vars => LaunchInv'
    BY <1>1, LaunchStepsKeep
<1>4. LaunchInv /\ [LaunchNext]_launch_vars => GivesWayToOurs
    <2>1. SUFFICES ASSUME LaunchInv, LaunchNext \/ UNCHANGED launch_vars,
                          NEW p \in Procs, pc[p] \in Looking, pc'[p] = "gave up"
                   PROVE  \E q \in Procs \ {p} : pc[q] \in Instance \cup Leaving
        BY DEF GivesWayToOurs
    <2>2. LaunchTypeOK /\ LaunchRight /\ pc[p] # "off" /\ nth[p] \in 1..3
        BY <2>1, TypesAre DEF LaunchInv, Looking
    <2>3. ASSUME NEW q \in Procs, listening[q] = TRUE
          PROVE  q # p /\ pc[q] \in Instance \cup Leaving
        BY <2>1, <2>2, <2>3 DEF LaunchRight, ListenRight, Running, Looking, Instance, Leaving
    <2>4. \E q \in Procs : listening[q] = TRUE
        <3>1. CASE NothingToShow(p)
            <4>1. Meets(Try(p)[nth[p]]) = "ours"
                BY <3>1 DEF NothingToShow
            <4>2. Try(p)[nth[p]] = "runtime"
                BY <2>2, <4>1, TryIs, OthersAre, <1>1 DEF LaunchRight
            <4> QED  BY <2>2, <4>1, <4>2, OursIs DEF LaunchRight, ListenRight, Names
        <3>2. CASE GiveWay(p)
            <4>1. Try(p)[nth[p]] = "runtime" /\ MeansUnreachable(p)
                BY <2>2, <3>2, TryIs DEF GiveWay, MeansUnreachable, LaunchRight
            <4>2. CASE Meets("runtime") = "silence"
                <5>1. holder["runtime"] \in Procs
                    BY <2>2, <4>2 DEF Meets, LaunchRight, NamesRight, Nobody, Stale
                <5> QED  BY <2>2, <5>1 DEF LaunchRight, ListenRight
            <4>3. CASE RefusedByABusyOne("runtime")
                <5>1. BusyIsRefused /\ claim["runtime"] \in Procs /\ Alive(claim["runtime"])
                    BY <2>2, <4>3, TypesAre DEF RefusedByABusyOne, ALiveInstanceClaims, Names
                <5> QED  BY <2>2, <5>1 DEF LaunchRight, ClaimRight
            <4> QED  BY <4>1, <4>2, <4>3 DEF MeansUnreachable
        <3> QED  BY <2>1, <2>2, <3>1, <3>2, GivesWayBy
    <2> QED  BY <2>3, <2>4
<1> QED  BY <1>2, <1>3, <1>4, PTL DEF LaunchSpec
=============================================================================
