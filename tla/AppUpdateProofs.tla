--------------------------- MODULE AppUpdateProofs ---------------------------
(***************************************************************************)
(* Theorems about AppUpdate, for every platform, any number of versions,   *)
(* checks and uploads, and crashes at any step, as long as no click comes  *)
(* before the check the application starts by itself.                      *)
(***************************************************************************)
EXTENDS AppUpdate, TLAPS

(***************************************************************************)
(* The inductive invariant.                                                *)
(***************************************************************************)
Checking == \E r \in Requests : replies[r] > 0
Fetching == \E s \in Stages : fetching[s] > 0

\* One request of a check is out, and the row offers nothing meanwhile.
CheckRight ==
    /\ Checking => busy = TRUE
    /\ busy = TRUE => Checking
    /\ \A r, q \in Requests : replies[r] > 0 /\ replies[q] > 0 => r = q
    /\ Checking => /\ row \in {"", "checking"}
                   /\ errDown = FALSE /\ ~Fetching /\ step = "no"

\* One request of a download is out, and the row says so; an installer is fetched
\* only for a manifest of the release's version.
DownloadRight ==
    /\ \A s, q \in Stages : fetching[s] > 0 /\ fetching[q] > 0 => s = q
    /\ Fetching => row = "downloading" /\ step = "no"
    /\ fetching["installer"] > 0 => ManifestVersion(sums) = release.version

\* What is offered, fetched, tried again or installed is a newer release that was
\* announced and not refused.
Offers == row \in {"available", "ready"} \/ errDown = TRUE \/ Fetching \/ step # "no"
OfferRight ==
    /\ Offers => /\ release \in Release /\ announced = release.version
                 /\ announced > build /\ refused = FALSE
    /\ row = "ready" \/ step # "no" => staged = announced

\* Before a run's own check nothing has happened in it.
EarlyRight ==
    /\ startup = FALSE => row = "" /\ errDown = FALSE /\ ~Checking /\ ~Fetching /\ step = "no"
    /\ build = 0 => startup = FALSE

\* Where a whole build is at each step of the swap, and what a way back that failed
\* leaves of that.
DiskRight ==
    /\ Platform \in {"mac", "package"} => step = "no"
    /\ Platform = "windows" => step \in {"no", "install"}
    /\ stranded = "no" /\ build # 0 /\ step \in {"no", "install", "aside"} => Whole(current)
    /\ stranded = "no" /\ step \in {"copy", "copying", "start", "restore", "back"}
          => Whole(backup)
    /\ stranded # "retried" /\ build = 0 => Whole(current) \/ Whole(backup)
    /\ stranded = "kept" => step \in {"no", "install"} /\ (Whole(current) \/ Whole(backup))
    /\ step \in {"start", "leave"} => current = announced

UpdateInv ==
    /\ UpdateTypeOK
    /\ CheckRight /\ DownloadRight /\ OfferRight /\ EarlyRight /\ DiskRight

(***************************************************************************)
(* Types, requests and stages.                                             *)
(***************************************************************************)
Rows == {"", "checking", "current", "available", "downloading", "error", "ready"}
Steps == {"no", "install", "aside", "copy", "copying", "start", "leave", "restore", "back"}
Ways == {"no", "kept", "retried"}

LEMMA TypesAre ==
    UpdateTypeOK <=>
        /\ row \in Rows /\ step \in Steps
        /\ byUser \in BOOLEAN /\ errDown \in BOOLEAN /\ errPage \in BOOLEAN
        /\ startup \in BOOLEAN /\ busy \in BOOLEAN /\ diverted \in BOOLEAN
        /\ refused \in BOOLEAN
        /\ announced \in 0 .. MaxVersion
        /\ replies \in [Requests -> 0 .. 1] /\ fetching \in [Stages -> 0 .. 1]
        /\ release \in Release \union {NoRelease} /\ sums \in Release \union {NoRelease}
        /\ published \in Release /\ uploads \in 0 .. MaxUploads
        /\ staged \in 0 .. Torn /\ current \in 0 .. Torn /\ backup \in 0 .. Torn
        /\ build \in 0 .. MaxVersion /\ checks \in 0 .. MaxChecks /\ stranded \in Ways
    BY DEF UpdateTypeOK, Rows, Steps, Ways

LEMMA TypesHold ==
    ASSUME row' \in Rows, step' \in Steps, byUser' \in BOOLEAN, errDown' \in BOOLEAN,
           errPage' \in BOOLEAN, startup' \in BOOLEAN, busy' \in BOOLEAN, diverted' \in BOOLEAN,
           refused' \in BOOLEAN, announced' \in 0 .. MaxVersion,
           replies' \in [Requests -> 0 .. 1], fetching' \in [Stages -> 0 .. 1],
           release' \in Release \union {NoRelease}, sums' \in Release \union {NoRelease},
           published' \in Release, uploads' \in 0 .. MaxUploads, staged' \in 0 .. Torn,
           current' \in 0 .. Torn, backup' \in 0 .. Torn, build' \in 0 .. MaxVersion,
           checks' \in 0 .. MaxChecks, stranded' \in Ways
    PROVE  UpdateTypeOK'
<1>1. {byUser', errDown', errPage', startup', busy', diverted'} \subseteq BOOLEAN
    OBVIOUS
<1>2. {staged', current', backup'} \subseteq 0 .. Torn
    OBVIOUS
<1> QED  BY <1>1, <1>2, Zenon DEF UpdateTypeOK, Rows, Steps, Ways

LEMMA NothingOut ==
    /\ Fresh \in [Requests -> 0 .. 1] /\ NoFetch \in [Stages -> 0 .. 1]
    /\ \A r \in Requests : Fresh[r] = 0
    /\ \A s \in Stages : NoFetch[s] = 0
    BY DEF Fresh, NoFetch

LEMMA VersionsAre ==
    ASSUME UpdateAssumption
    PROVE  /\ MaxVersion \in Nat \ {0} /\ Torn = MaxVersion + 1 /\ Nothing = 0
           /\ \A v \in 1 .. MaxVersion : v \in 0 .. Torn /\ v # Torn /\ v # Nothing
           /\ Nothing \in 0 .. Torn /\ Torn \in 0 .. Torn /\ 0 \in 0 .. MaxVersion
           /\ \A x \in Release : /\ x.version \in 1 .. MaxVersion /\ x.version \in 0 .. MaxVersion
                                 /\ x.flaw \in Flaws /\ x.upload \in 0 .. MaxUploads
    BY DEF UpdateAssumption, Torn, Nothing, Release

\* What holds while a download is out.
LEMMA FetchIs ==
    ASSUME UpdateInv, NEW s \in Stages, fetching[s] > 0
    PROVE  /\ fetching[s] = 1 /\ \A q \in Stages : q # s => fetching[q] = 0
           /\ row = "downloading" /\ step = "no" /\ ~Checking /\ startup = TRUE
           /\ release \in Release /\ announced = release.version /\ announced > build
           /\ refused = FALSE
<1>1. fetching \in [Stages -> 0 .. 1] /\ startup \in BOOLEAN
    BY TypesAre DEF UpdateInv
<1>2. Fetching
    BY DEF Fetching
<1>3. fetching[s] = 1 /\ \A q \in Stages : q # s => fetching[q] = 0
    <2>1. \A q \in Stages : q # s => ~(fetching[q] > 0)
        BY DEF UpdateInv, DownloadRight
    <2>2. \A q \in Stages : fetching[q] \in 0 .. 1
        BY <1>1
    <2> QED  BY <2>1, <2>2
<1>4. row = "downloading" /\ step = "no"
    BY <1>2 DEF UpdateInv, DownloadRight
<1>5. ~Checking /\ startup = TRUE
    BY <1>1, <1>2 DEF UpdateInv, CheckRight, EarlyRight
<1>6. Offers
    BY <1>2 DEF Offers
<1> QED  BY <1>3, <1>4, <1>5, <1>6 DEF UpdateInv, OfferRight

LEMMA OverIs ==
    ASSUME UpdateInv, NEW s \in Stages, fetching[s] > 0, FetchOver(s)
    PROVE  fetching' \in [Stages -> 0 .. 1] /\ \A q \in Stages : fetching'[q] = 0
<1>1. fetching[s] = 1 /\ \A q \in Stages : q # s => fetching[q] = 0
    BY FetchIs
<1>2. fetching \in [Stages -> 0 .. 1]
    BY TypesAre DEF UpdateInv
<1> QED  BY <1>1, <1>2 DEF FetchOver

LEMMA OnwardsIs ==
    ASSUME UpdateInv, NEW s \in Stages, NEW q \in Stages, s # q, fetching[s] > 0, Onwards(s, q)
    PROVE  /\ fetching' \in [Stages -> 0 .. 1] /\ fetching'[q] = 1
           /\ \A x \in Stages : x # q => fetching'[x] = 0
<1>1. fetching[s] = 1 /\ \A x \in Stages : x # s => fetching[x] = 0
    BY FetchIs
<1>2. fetching \in [Stages -> 0 .. 1]
    BY TypesAre DEF UpdateInv
<1> QED  BY <1>1, <1>2 DEF Onwards

LEMMA ServesARelease ==
    ASSUME UpdateInv
    PROVE  Serves \in Release \union {NoRelease}
    BY TypesAre DEF UpdateInv, Serves

LEMMA StutterKeeps ==
    ASSUME UpdateInv, UNCHANGED update_vars
    PROVE  UpdateInv'
<1>1. UNCHANGED <<row, byUser, errDown, errPage, announced, startup, busy, replies, checks,
                  release, fetching, sums, staged, published, diverted, uploads, step, current,
                  backup, build, stranded, refused>>
    BY DEF update_vars, rowVars, checkVars, worldVars, diskVars
<1>2. UpdateTypeOK'
    BY <1>1 DEF UpdateInv, UpdateTypeOK
<1>3. CheckRight' /\ DownloadRight'
    BY <1>1 DEF UpdateInv, CheckRight, Checking, DownloadRight, Fetching, ManifestVersion
<1>4. OfferRight' /\ EarlyRight'
    BY <1>1 DEF UpdateInv, OfferRight, Offers, EarlyRight, Checking, Fetching
<1>5. DiskRight'
    BY <1>1 DEF UpdateInv, DiskRight, Whole
<1> QED  BY <1>2, <1>3, <1>4, <1>5 DEF UpdateInv

(***************************************************************************)
(* Checks.                                                                 *)
(***************************************************************************)
\* A request goes out when none is.
LEMMA CheckNowIs ==
    ASSUME UpdateAssumption, UpdateInv, CheckNow, checks < MaxChecks
    PROVE  /\ replies' \in [Requests -> 0 .. 1] /\ busy' = TRUE /\ checks' \in 0 .. MaxChecks
           /\ Checking' /\ \A r, q \in Requests : replies'[r] > 0 /\ replies'[q] > 0 => r = q
<1>1. replies \in [Requests -> 0 .. 1] /\ checks \in 0 .. MaxChecks /\ MaxChecks \in Nat
    BY TypesAre DEF UpdateInv, UpdateAssumption
<1>2. busy \in BOOLEAN
    BY TypesAre DEF UpdateInv
<1>3. CASE busy = TRUE
    <2>1. busy' = busy /\ replies' = replies /\ checks' = checks
        BY <1>3 DEF CheckNow, checkVars
    <2>2. Checking /\ \A r, q \in Requests : replies[r] > 0 /\ replies[q] > 0 => r = q
        BY <1>3 DEF UpdateInv, CheckRight
    <2>3. Checking' /\ \A r, q \in Requests : replies'[r] > 0 /\ replies'[q] > 0 => r = q
        BY <2>1, <2>2 DEF Checking
    <2> QED  BY <1>1, <1>3, <2>1, <2>3
<1>4. CASE busy = FALSE
    <2>1. busy' = TRUE
        BY <1>4 DEF CheckNow
    <2>2. checks' = checks + 1 /\ replies' = [replies EXCEPT !["latest"] = @ + 1]
        BY <1>4 DEF CheckNow
    <2>3. ~Checking
        BY <1>4 DEF UpdateInv, CheckRight
    <2>4. replies["latest"] = 0 /\ replies["list"] = 0
        BY <1>1, <2>3 DEF Checking, Requests
    <2>5. /\ replies' \in [Requests -> 0 .. 1]
          /\ replies'["latest"] = 1 /\ replies'["list"] = 0
        BY <1>1, <2>2, <2>4 DEF Requests
    <2>6. Checking' /\ \A r, q \in Requests : replies'[r] > 0 /\ replies'[q] > 0 => r = q
        BY <2>5 DEF Checking, Requests
    <2>7. checks' \in 0 .. MaxChecks
        BY <1>1, <2>2
    <2> QED  BY <2>1, <2>5, <2>6, <2>7
<1> QED  BY <1>2, <1>3, <1>4

LEMMA CheckForUpdatesKeeps ==
    ASSUME UpdateAssumption, UpdateInv, NEW user \in BOOLEAN, CheckForUpdates(user),
           AtRest, user = TRUE \/ row = "", startup' = TRUE
    PROVE  UpdateInv'
<1>1. /\ checks < MaxChecks /\ row \notin {"checking", "downloading"} /\ build # 0 /\ step = "no"
      /\ staged' = Discarded /\ byUser' = user /\ errDown' = FALSE /\ errPage' = FALSE
      /\ row' = IF user THEN "checking" ELSE row
      /\ CheckNow
      /\ UNCHANGED <<announced, release, fetching, sums, published, diverted, uploads,
                     step, current, backup, build, stranded, refused>>
    BY DEF CheckForUpdates, AtRest, worldVars, diskVars
<1>2. row' \in {"", "checking"}
    BY <1>1
<1>3. ~Fetching /\ ~Fetching' /\ fetching["installer"] \in 0 .. 1
    <2>1. ~Fetching
        BY <1>1 DEF UpdateInv, DownloadRight
    <2>2. fetching \in [Stages -> 0 .. 1]
        BY TypesAre DEF UpdateInv
    <2> QED  BY <1>1, <2>1, <2>2 DEF Fetching, Stages
<1>4. /\ replies' \in [Requests -> 0 .. 1] /\ busy' = TRUE /\ checks' \in 0 .. MaxChecks
      /\ Checking' /\ \A r, q \in Requests : replies'[r] > 0 /\ replies'[q] > 0 => r = q
    BY <1>1, CheckNowIs
<1>5. UpdateTypeOK'
    <2>1. staged' \in 0 .. Torn
        BY <1>1, VersionsAre, TypesAre DEF UpdateInv, Discarded
    <2>2. row' \in Rows
        BY <1>2 DEF Rows
    <2>3. /\ step' \in Steps /\ refused' \in BOOLEAN /\ diverted' \in BOOLEAN
          /\ announced' \in 0 .. MaxVersion /\ fetching' \in [Stages -> 0 .. 1]
          /\ release' \in Release \union {NoRelease} /\ sums' \in Release \union {NoRelease}
          /\ published' \in Release /\ uploads' \in 0 .. MaxUploads
          /\ current' \in 0 .. Torn /\ backup' \in 0 .. Torn /\ build' \in 0 .. MaxVersion
          /\ stranded' \in Ways
        BY <1>1, TypesAre DEF UpdateInv
    <2>4. byUser' \in BOOLEAN /\ errDown' \in BOOLEAN /\ errPage' \in BOOLEAN
          /\ startup' \in BOOLEAN /\ busy' \in BOOLEAN
        BY <1>1, <1>4
    <2> QED  BY <1>4, <2>1, <2>2, <2>3, <2>4, TypesHold, Zenon
<1>6. CheckRight'
    BY <1>1, <1>2, <1>3, <1>4 DEF CheckRight
<1>7. DownloadRight'
    BY <1>1, <1>3 DEF DownloadRight, Fetching, Stages
<1>8. OfferRight'
    BY <1>1, <1>2, <1>3 DEF OfferRight, Offers
<1>9. EarlyRight' /\ DiskRight'
    BY <1>1 DEF UpdateInv, EarlyRight, DiskRight, Whole
<1> QED  BY <1>5, <1>6, <1>7, <1>8, <1>9 DEF UpdateInv

LEMMA StartupCheckKeeps ==
    ASSUME UpdateAssumption, UpdateInv, StartupCheck
    PROVE  UpdateInv'
<1>1. startup = FALSE /\ startup' = TRUE /\ AtRest
    BY TypesAre DEF StartupCheck, UpdateInv
<1>2. row = ""
    BY <1>1 DEF UpdateInv, EarlyRight
<1>3. CheckForUpdates(FALSE)
    BY <1>2 DEF StartupCheck
<1> QED  BY <1>1, <1>2, <1>3, CheckForUpdatesKeeps

LEMMA ClickCheckKeeps ==
    ASSUME UpdateAssumption, UpdateInv, "earlyClick" \notin Happens, ClickCheck
    PROVE  UpdateInv'
<1>1. AtRest /\ startup' = TRUE /\ CheckForUpdates(TRUE)
    BY TypesAre DEF ClickCheck, InTime, UpdateInv
<1> QED  BY <1>1, CheckForUpdatesKeeps

\* The reply that was out is in.
LEMMA CheckOver ==
    ASSUME UpdateInv, NEW r \in Requests, replies[r] > 0,
           replies' = [replies EXCEPT ![r] = @ - 1]
    PROVE  /\ replies' \in [Requests -> 0 .. 1] /\ ~Checking'
           /\ row \in {"", "checking"} /\ errDown = FALSE /\ ~Fetching /\ step = "no"
           /\ startup = TRUE /\ build # 0
<1>1. replies \in [Requests -> 0 .. 1] /\ startup \in BOOLEAN
    BY TypesAre DEF UpdateInv
<1>2. Checking
    BY DEF Checking
<1>3. replies[r] = 1 /\ \A q \in Requests : q # r => replies[q] = 0
    <2>1. \A q \in Requests : q # r => ~(replies[q] > 0)
        BY DEF UpdateInv, CheckRight
    <2>2. \A q \in Requests : replies[q] \in 0 .. 1
        BY <1>1
    <2> QED  BY <2>1, <2>2
<1>4. replies' \in [Requests -> 0 .. 1] /\ \A q \in Requests : replies'[q] = 0
    BY <1>1, <1>3
<1>5. ~Checking'
    BY <1>4 DEF Checking
<1> QED  BY <1>1, <1>2, <1>4, <1>5 DEF UpdateInv, CheckRight, EarlyRight

\* What an answer leaves: a row that offers nothing, or the newer release.
LEMMA AnsweredKeeps ==
    ASSUME UpdateAssumption, UpdateInv, NEW r \in Requests, replies[r] > 0,
           replies' = [replies EXCEPT ![r] = @ - 1], busy' = FALSE,
           row' \in Rows, announced' \in 0 .. MaxVersion, refused' \in BOOLEAN,
           release' \in Release \union {NoRelease},
           \/ row' \in {"", "checking", "current", "error"}
           \/ /\ row' = "available" /\ release' \in Release /\ announced' = release'.version
              /\ announced' > build /\ refused' = FALSE,
           UNCHANGED <<byUser, errDown, errPage, startup, checks, fetching, sums, staged,
                       worldVars, diskVars>>
    PROVE  UpdateInv'
<1>1. /\ replies' \in [Requests -> 0 .. 1] /\ ~Checking' /\ errDown = FALSE /\ ~Fetching
      /\ step = "no" /\ startup = TRUE /\ build # 0
    BY CheckOver
<1>2. UNCHANGED <<published, diverted, uploads, step, current, backup, build, stranded>>
    BY DEF worldVars, diskVars
<1>3. UpdateTypeOK'
    <2>1. /\ step' \in Steps /\ diverted' \in BOOLEAN /\ byUser' \in BOOLEAN
          /\ errDown' \in BOOLEAN /\ errPage' \in BOOLEAN /\ startup' \in BOOLEAN
          /\ busy' \in BOOLEAN
          /\ fetching' \in [Stages -> 0 .. 1] /\ sums' \in Release \union {NoRelease}
          /\ published' \in Release /\ uploads' \in 0 .. MaxUploads
          /\ staged' \in 0 .. Torn /\ current' \in 0 .. Torn /\ backup' \in 0 .. Torn
          /\ build' \in 0 .. MaxVersion /\ checks' \in 0 .. MaxChecks
          /\ stranded' \in Ways
        BY <1>2, TypesAre DEF UpdateInv
    <2> QED  BY <1>1, <2>1, TypesHold, Zenon
<1>4. ~Fetching' /\ ~(fetching'["installer"] > 0)
    BY <1>1 DEF Fetching, Stages
<1>5. CheckRight'
    <2>1. \A q \in Requests : ~(replies'[q] > 0)
        BY <1>1 DEF Checking
    <2> QED  BY <1>1, <2>1 DEF CheckRight
<1>6. DownloadRight'
    BY <1>4 DEF DownloadRight, Fetching
<1>7. OfferRight'
    BY <1>1, <1>2, <1>4 DEF OfferRight, Offers
<1>8. EarlyRight' /\ DiskRight'
    BY <1>1, <1>2 DEF UpdateInv, EarlyRight, DiskRight, Whole
<1> QED  BY <1>3, <1>5, <1>6, <1>7, <1>8 DEF UpdateInv

LEMMA NoUpdateIs ==
    ASSUME NEW upToDate \in BOOLEAN, NoUpdate(upToDate)
    PROVE  /\ row' \in {"current", "error", row}
           /\ UNCHANGED <<byUser, errDown, errPage, announced, startup>>
    BY DEF NoUpdate

LEMMA CheckFailsKeeps ==
    ASSUME UpdateAssumption, UpdateInv, NEW r \in Requests, CheckFails(r)
    PROVE  UpdateInv'
<1>1. /\ replies[r] > 0 /\ replies' = [replies EXCEPT ![r] = @ - 1] /\ busy' = FALSE
      /\ NoUpdate(FALSE)
      /\ UNCHANGED <<checks, release, fetching, sums, staged, worldVars, diskVars, refused>>
    BY DEF CheckFails
<1>2. row \in {"", "checking"}
    BY <1>1, CheckOver
<1>3. /\ row' \in {"", "checking", "current", "error"}
      /\ UNCHANGED <<byUser, errDown, errPage, announced, startup>>
    BY <1>1, <1>2, NoUpdateIs
<1>4. /\ row' \in Rows /\ announced' \in 0 .. MaxVersion /\ refused' \in BOOLEAN
      /\ release' \in Release \union {NoRelease}
    BY <1>1, <1>3, TypesAre DEF UpdateInv, Rows
<1> QED  BY <1>1, <1>3, <1>4, AnsweredKeeps

LEMMA CheckAnsweredKeeps ==
    ASSUME UpdateAssumption, UpdateInv, NEW r \in Requests, CheckAnswered(r)
    PROVE  UpdateInv'
<1>1. /\ replies[r] > 0 /\ replies' = [replies EXCEPT ![r] = @ - 1] /\ busy' = FALSE
      /\ OfferRelease
      /\ UNCHANGED <<checks, fetching, sums, staged, worldVars, diskVars>>
    BY DEF CheckAnswered
<1>2. row \in {"", "checking"}
    BY <1>1, CheckOver
<1>3. published \in Release /\ release' = published /\ refused' = FALSE
    BY <1>1, TypesAre DEF UpdateInv, OfferRelease
<1>4. CASE published.version > build
    <2>1. /\ row' = "available" /\ announced' = published.version
          /\ UNCHANGED <<byUser, errDown, errPage, startup>>
        BY <1>1, <1>4 DEF OfferRelease
    <2>2. announced' \in 0 .. MaxVersion /\ row' \in Rows
        BY <1>3, <2>1, VersionsAre DEF Rows
    <2> QED  BY <1>1, <1>3, <1>4, <2>1, <2>2, AnsweredKeeps
<1>5. CASE ~(published.version > build)
    <2>1. NoUpdate(TRUE)
        BY <1>1, <1>5 DEF OfferRelease
    <2>2. /\ row' \in {"", "checking", "current", "error"}
          /\ UNCHANGED <<byUser, errDown, errPage, announced, startup>>
        BY <1>2, <2>1, NoUpdateIs
    <2>3. row' \in Rows /\ announced' \in 0 .. MaxVersion
        BY <2>2, TypesAre DEF UpdateInv, Rows
    <2> QED  BY <1>1, <1>3, <2>2, <2>3, AnsweredKeeps
<1> QED  BY <1>4, <1>5

LEMMA CheckDivertedKeeps ==
    ASSUME UpdateAssumption, UpdateInv, CheckDiverted
    PROVE  UpdateInv'
<1>1. /\ replies["latest"] > 0 /\ busy' = TRUE
      /\ replies' = [replies EXCEPT !["latest"] = @ - 1, !["list"] = @ + 1]
      /\ UNCHANGED <<row, byUser, errDown, errPage, announced, startup, checks, release, fetching,
                     sums, staged, published, diverted, uploads, step, current, backup, build,
                     stranded, refused>>
    BY DEF CheckDiverted, rowVars, worldVars, diskVars
<1>2. Checking
    BY <1>1 DEF Checking, Requests
<1>3. replies \in [Requests -> 0 .. 1]
    BY TypesAre DEF UpdateInv
<1>4. replies["latest"] = 1 /\ replies["list"] = 0
    <2>1. ~(replies["list"] > 0)
        BY <1>1 DEF UpdateInv, CheckRight, Requests
    <2> QED  BY <1>1, <1>3, <2>1 DEF Requests
<1>5. /\ replies' \in [Requests -> 0 .. 1]
      /\ replies'["latest"] = 0 /\ replies'["list"] = 1
    BY <1>1, <1>3, <1>4 DEF Requests
<1>6. Checking' /\ \A r, q \in Requests : replies'[r] > 0 /\ replies'[q] > 0 => r = q
    BY <1>5 DEF Checking, Requests
<1>7. UpdateTypeOK'
    <2>1. /\ row' \in Rows /\ step' \in Steps /\ byUser' \in BOOLEAN /\ errDown' \in BOOLEAN
          /\ errPage' \in BOOLEAN /\ startup' \in BOOLEAN /\ diverted' \in BOOLEAN
          /\ refused' \in BOOLEAN /\ busy' \in BOOLEAN
          /\ announced' \in 0 .. MaxVersion /\ fetching' \in [Stages -> 0 .. 1]
          /\ release' \in Release \union {NoRelease} /\ sums' \in Release \union {NoRelease}
          /\ published' \in Release /\ uploads' \in 0 .. MaxUploads
          /\ staged' \in 0 .. Torn /\ current' \in 0 .. Torn /\ backup' \in 0 .. Torn
          /\ build' \in 0 .. MaxVersion /\ checks' \in 0 .. MaxChecks
          /\ stranded' \in Ways
        BY <1>1, TypesAre DEF UpdateInv
    <2> QED  BY <1>5, <2>1, TypesHold, Zenon
<1>8. /\ row \in {"", "checking"} /\ errDown = FALSE /\ ~Fetching /\ step = "no"
      /\ startup # FALSE
    BY <1>2 DEF UpdateInv, CheckRight, EarlyRight
<1>9. ~Fetching'
    BY <1>1, <1>8 DEF Fetching
<1>10. CheckRight'
    BY <1>1, <1>6, <1>8, <1>9 DEF CheckRight
<1>11. DownloadRight'
    BY <1>1, <1>9 DEF UpdateInv, DownloadRight, ManifestVersion
<1>12. OfferRight'
    BY <1>1, <1>8, <1>9 DEF OfferRight, Offers
<1>13. EarlyRight' /\ DiskRight'
    BY <1>1, <1>8 DEF UpdateInv, EarlyRight, DiskRight, Whole
<1> QED  BY <1>7, <1>10, <1>11, <1>12, <1>13 DEF UpdateInv

(***************************************************************************)
(* Downloads.                                                              *)
(***************************************************************************)

\* A download that is over, failed or not, and one that was refused at once.
LEMMA DownloadOverKeeps ==
    ASSUME UpdateAssumption, UpdateInv, ~Checking, startup = TRUE, step = "no", build # 0,
           release \in Release, announced = release.version, announced > build,
           fetching' \in [Stages -> 0 .. 1], \A s \in Stages : fetching'[s] = 0,
           row' \in {"error", "ready"}, errDown' \in BOOLEAN, errPage' \in BOOLEAN,
           refused' \in BOOLEAN, row' = "ready" \/ errDown' = TRUE => refused' = FALSE,
           row' = "ready" => staged' = announced, staged' \in 0 .. Torn,
           sums' \in Release \union {NoRelease},
           \/ step' = "no"
           \/ step' = "install" /\ row' = "ready" /\ Platform \in {"windows", "appimage"},
           UNCHANGED <<byUser, announced, startup, busy, replies, checks, release, published,
                       diverted, uploads, current, backup, build, stranded>>
    PROVE  UpdateInv'
<1>1. UpdateTypeOK'
    <2>1. /\ byUser' \in BOOLEAN /\ startup' \in BOOLEAN /\ diverted' \in BOOLEAN
          /\ busy' \in BOOLEAN /\ replies' \in [Requests -> 0 .. 1]
          /\ announced' \in 0 .. MaxVersion /\ release' \in Release \union {NoRelease}
          /\ published' \in Release /\ uploads' \in 0 .. MaxUploads
          /\ current' \in 0 .. Torn /\ backup' \in 0 .. Torn
          /\ build' \in 0 .. MaxVersion /\ checks' \in 0 .. MaxChecks
          /\ stranded' \in Ways
        BY TypesAre DEF UpdateInv
    <2>2. row' \in Rows /\ step' \in Steps
        BY DEF Rows, Steps
    <2> QED  BY <2>1, <2>2, TypesHold, Zenon
<1>2. ~Fetching' /\ ~(fetching'["installer"] > 0)
    BY DEF Fetching, Stages
<1>3. ~Checking'
    BY DEF Checking
<1>4. busy' # TRUE
    BY DEF UpdateInv, CheckRight
<1>5. CheckRight'
    BY <1>3, <1>4 DEF CheckRight, Checking
<1>6. DownloadRight'
    BY <1>2 DEF DownloadRight, Fetching
<1>7. OfferRight'
    BY <1>2 DEF OfferRight, Offers
<1>8. EarlyRight'
    BY DEF EarlyRight
<1>9. DiskRight'
    BY DEF UpdateInv, DiskRight, Whole
<1> QED  BY <1>1, <1>5, <1>6, <1>7, <1>8, <1>9 DEF UpdateInv

LEMMA DownloadFailedKeeps ==
    ASSUME UpdateAssumption, UpdateInv, ~Checking, startup = TRUE, step = "no", build # 0,
           release \in Release, announced = release.version, announced > build, refused = FALSE,
           NEW kind, DownloadFailed(kind),
           fetching' \in [Stages -> 0 .. 1], \A s \in Stages : fetching'[s] = 0,
           staged' \in 0 .. Torn, sums' \in Release \union {NoRelease},
           UNCHANGED <<checkVars, release, worldVars, diskVars>>
    PROVE  UpdateInv'
<1>1. /\ row' = "error" /\ errDown' \in BOOLEAN /\ errPage' \in BOOLEAN /\ refused' \in BOOLEAN
      /\ errDown' = TRUE => refused' = FALSE
      /\ UNCHANGED <<byUser, announced, startup>>
    BY Zenon DEF DownloadFailed
<1>2. UNCHANGED <<busy, replies, checks, release, published, diverted, uploads, step, current,
                  backup, build, stranded>>
    BY DEF checkVars, worldVars, diskVars
<1> QED  BY <1>1, <1>2, DownloadOverKeeps

\* Any failure of a stage.
LEMMA StageFailedKeeps ==
    ASSUME UpdateAssumption, UpdateInv, AtRest, NEW s \in Stages, fetching[s] > 0, FetchOver(s),
           NEW kind, DownloadFailed(kind),
           staged' \in 0 .. Torn, sums' \in Release \union {NoRelease},
           UNCHANGED <<checkVars, release, worldVars, diskVars>>
    PROVE  UpdateInv'
<1>1. /\ ~Checking /\ startup = TRUE /\ step = "no" /\ build # 0
      /\ release \in Release /\ announced = release.version /\ announced > build
      /\ refused = FALSE
    BY FetchIs DEF AtRest
<1>2. fetching' \in [Stages -> 0 .. 1] /\ \A q \in Stages : fetching'[q] = 0
    BY OverIs
<1> QED  BY <1>1, <1>2, DownloadFailedKeeps

\* The next stage of a download.
LEMMA StageBegunKeeps ==
    ASSUME UpdateAssumption, UpdateInv, ~Checking, startup = TRUE, step = "no", build # 0,
           release \in Release, announced = release.version, announced > build, refused = FALSE,
           NEW s \in Stages, fetching' \in [Stages -> 0 .. 1], fetching'[s] = 1,
           \A q \in Stages : q # s => fetching'[q] = 0,
           s = "installer" => ManifestVersion(sums') = release.version,
           row' = "downloading", errPage' \in BOOLEAN,
           staged' \in 0 .. Torn, sums' \in Release \union {NoRelease},
           UNCHANGED <<byUser, errDown, announced, startup, busy, replies, checks, release,
                       published, diverted, uploads, step, current, backup, build, stranded,
                       refused>>
    PROVE  UpdateInv'
<1>1. UpdateTypeOK'
    <2>1. /\ byUser' \in BOOLEAN /\ startup' \in BOOLEAN /\ diverted' \in BOOLEAN
          /\ errDown' \in BOOLEAN /\ refused' \in BOOLEAN /\ step' \in Steps
          /\ busy' \in BOOLEAN /\ replies' \in [Requests -> 0 .. 1]
          /\ announced' \in 0 .. MaxVersion /\ release' \in Release \union {NoRelease}
          /\ published' \in Release /\ uploads' \in 0 .. MaxUploads
          /\ current' \in 0 .. Torn /\ backup' \in 0 .. Torn
          /\ build' \in 0 .. MaxVersion /\ checks' \in 0 .. MaxChecks
          /\ stranded' \in Ways
        BY TypesAre DEF UpdateInv
    <2>2. row' \in Rows
        BY DEF Rows
    <2> QED  BY <2>1, <2>2, TypesHold, Zenon
<1>2. CheckRight'
    <2>1. ~Checking'
        BY DEF Checking
    <2>2. busy' # TRUE
        BY DEF UpdateInv, CheckRight
    <2> QED  BY <2>1, <2>2 DEF CheckRight, Checking
<1>3. DownloadRight'
    <2>1. \A x, q \in Stages : fetching'[x] > 0 /\ fetching'[q] > 0 => x = q
        <3>1. \A x \in Stages : fetching'[x] > 0 => x = s
            OBVIOUS
        <3> QED  BY <3>1
    <2>2. fetching'["installer"] > 0 => ManifestVersion(sums') = release'.version
        BY DEF Stages
    <2>3. ManifestVersion(sums)' = ManifestVersion(sums')
        BY DEF ManifestVersion
    <2> QED  BY <2>1, <2>2, <2>3 DEF DownloadRight
<1>4. OfferRight'
    BY DEF OfferRight
<1>5. EarlyRight' /\ DiskRight'
    BY DEF UpdateInv, EarlyRight, DiskRight, Whole
<1> QED  BY <1>1, <1>2, <1>3, <1>4, <1>5 DEF UpdateInv

LEMMA ClickDownloadKeeps ==
    ASSUME UpdateAssumption, UpdateInv, ClickDownload
    PROVE  UpdateInv'
<1>1. /\ build # 0 /\ step = "no" /\ row \in {"available", "error"}
      /\ row = "available" \/ errDown = TRUE
      /\ DownloadLatest
      /\ UNCHANGED <<checkVars, release, staged, worldVars, diskVars>>
    BY TypesAre DEF ClickDownload, AtRest, DownloadUpdate, UpdateInv
<1>2. /\ ~Checking /\ ~Fetching /\ startup # FALSE
      /\ release \in Release /\ announced = release.version /\ announced > build
      /\ refused = FALSE
    BY <1>1 DEF UpdateInv, CheckRight, DownloadRight, EarlyRight, OfferRight, Offers
<1>3. startup = TRUE
    BY <1>2, TypesAre DEF UpdateInv
<1>4. fetching \in [Stages -> 0 .. 1] /\ \A s \in Stages : fetching[s] = 0
    <2>1. fetching \in [Stages -> 0 .. 1]
        BY TypesAre DEF UpdateInv
    <2>2. \A s \in Stages : ~(fetching[s] > 0)
        BY <1>2 DEF Fetching
    <2> QED  BY <2>1, <2>2
<1>5. staged' \in 0 .. Torn /\ sums \in Release \union {NoRelease}
    BY <1>1, TypesAre DEF UpdateInv
<1>6. CASE \E kind \in {"noInstaller", "refused", "transient"} :
              DownloadFailed(kind) /\ UNCHANGED <<fetching, sums>>
    <2>1. PICK kind \in {"noInstaller", "refused", "transient"} :
              DownloadFailed(kind) /\ UNCHANGED <<fetching, sums>>
        BY <1>6
    <2>2. /\ fetching' \in [Stages -> 0 .. 1] /\ \A s \in Stages : fetching'[s] = 0
          /\ sums' \in Release \union {NoRelease}
        BY <1>4, <1>5, <2>1
    <2> QED  BY <1>1, <1>2, <1>3, <1>5, <2>1, <2>2, DownloadFailedKeeps
<1>7. CASE /\ row' = "downloading" /\ errPage' = FALSE /\ sums' = NoRelease
           /\ fetching' = [fetching EXCEPT !["sums"] = @ + 1]
           /\ UNCHANGED <<byUser, errDown, announced, startup, refused>>
    <2>1. /\ fetching' \in [Stages -> 0 .. 1] /\ fetching'["sums"] = 1
          /\ \A q \in Stages : q # "sums" => fetching'[q] = 0
        <3>1. fetching["sums"] = 0 /\ fetching' = [fetching EXCEPT !["sums"] = @ + 1]
            BY <1>4, <1>7 DEF Stages
        <3> QED  BY <1>4, <3>1 DEF Stages
    <2>2. UNCHANGED <<busy, replies, checks, release, published, diverted, uploads, step, current,
                      backup, build, stranded>>
        BY <1>1 DEF checkVars, worldVars, diskVars
    <2>3. "sums" \in Stages
        BY DEF Stages
    <2> QED  BY <1>1, <1>2, <1>3, <1>5, <1>7, <2>1, <2>2, <2>3, StageBegunKeeps
<1> QED  BY <1>1, <1>6, <1>7 DEF DownloadLatest

LEMMA ProgressKeeps ==
    ASSUME UpdateAssumption, UpdateInv, NEW s \in Stages, Progress(s)
    PROVE  UpdateInv'
<1>1. /\ fetching[s] > 0 /\ row' = "downloading"
      /\ UNCHANGED <<byUser, errDown, errPage, announced, startup, busy, replies, checks, release,
                     fetching, sums, staged, published, diverted, uploads, step, current, backup,
                     build, stranded, refused>>
    BY DEF Progress, checkVars, worldVars, diskVars
<1>2. row = "downloading"
    BY <1>1, FetchIs
<1>3. UNCHANGED update_vars
    BY <1>1, <1>2 DEF update_vars, rowVars, checkVars, worldVars, diskVars
<1> QED  BY <1>3, StutterKeeps

LEMMA FetchFailsKeeps ==
    ASSUME UpdateAssumption, UpdateInv, NEW s \in Stages, FetchFails(s)
    PROVE  UpdateInv'
<1>1. /\ AtRest /\ fetching[s] > 0 /\ FetchOver(s) /\ DownloadFailed("transient")
      /\ staged' = IF s = "installer" THEN Nothing ELSE staged
      /\ UNCHANGED <<checkVars, release, sums, worldVars, diskVars>>
    BY DEF FetchFails
<1>2. staged' \in 0 .. Torn /\ sums' \in Release \union {NoRelease}
    BY <1>1, VersionsAre, TypesAre DEF UpdateInv
<1> QED  BY <1>1, <1>2, StageFailedKeeps

LEMMA SumsFetchedKeeps ==
    ASSUME UpdateAssumption, UpdateInv, SumsFetched
    PROVE  UpdateInv'
<1>1. /\ AtRest /\ fetching["sums"] > 0 /\ sums' = Serves /\ "sums" \in Stages
      /\ "signature" \in Stages
      /\ UNCHANGED <<checkVars, release, staged, worldVars, diskVars>>
    BY DEF SumsFetched, Stages
<1>2. staged' \in 0 .. Torn /\ sums' \in Release \union {NoRelease}
    BY <1>1, ServesARelease, TypesAre DEF UpdateInv
<1>3. CASE FetchOver("sums") /\ DownloadFailed("refused")
    BY <1>1, <1>2, <1>3, StageFailedKeeps
<1>4. CASE Onwards("sums", "signature") /\ UNCHANGED <<rowVars, refused>>
    <2>1. /\ ~Checking /\ startup = TRUE /\ step = "no" /\ build # 0 /\ row = "downloading"
          /\ release \in Release /\ announced = release.version /\ announced > build
          /\ refused = FALSE
        BY <1>1, FetchIs DEF AtRest
    <2>2. /\ fetching' \in [Stages -> 0 .. 1] /\ fetching'["signature"] = 1
          /\ \A q \in Stages : q # "signature" => fetching'[q] = 0
        BY <1>1, <1>4, OnwardsIs
    <2>3. /\ row' = "downloading" /\ errPage' \in BOOLEAN
          /\ UNCHANGED <<byUser, errDown, announced, startup, busy, replies, checks, release,
                         published, diverted, uploads, step, current, backup, build, stranded,
                         refused>>
        BY <1>1, <1>4, <2>1, TypesAre DEF UpdateInv, rowVars, checkVars, worldVars, diskVars
    <2> QED  BY <1>1, <1>2, <2>1, <2>2, <2>3, StageBegunKeeps
<1> QED  BY <1>3, <1>4 DEF SumsFetched

LEMMA SignatureFetchedKeeps ==
    ASSUME UpdateAssumption, UpdateInv, SignatureFetched
    PROVE  UpdateInv'
<1>1. /\ AtRest /\ fetching["signature"] > 0 /\ "signature" \in Stages /\ "installer" \in Stages
      /\ UNCHANGED <<checkVars, release, sums, worldVars, diskVars>>
    BY DEF SignatureFetched, Stages
<1>2. sums' \in Release \union {NoRelease} /\ staged \in 0 .. Torn
    BY <1>1, TypesAre DEF UpdateInv
<1>3. Nothing \in 0 .. Torn /\ Torn \in 0 .. Torn
    BY VersionsAre
<1>4. CASE FetchOver("signature") /\ DownloadFailed("refused") /\ UNCHANGED staged
    BY <1>1, <1>2, <1>4, StageFailedKeeps
<1>5. CASE FetchOver("signature") /\ DownloadFailed("transient") /\ staged' = Nothing
    BY <1>1, <1>2, <1>3, <1>5, StageFailedKeeps
<1>6. CASE /\ ManifestIsForTheOffer /\ Onwards("signature", "installer") /\ staged' = Torn
           /\ UNCHANGED <<rowVars, refused>>
    <2>1. /\ ~Checking /\ startup = TRUE /\ step = "no" /\ build # 0 /\ row = "downloading"
          /\ release \in Release /\ announced = release.version /\ announced > build
          /\ refused = FALSE
        BY <1>1, FetchIs DEF AtRest
    <2>2. /\ fetching' \in [Stages -> 0 .. 1] /\ fetching'["installer"] = 1
          /\ \A q \in Stages : q # "installer" => fetching'[q] = 0
        BY <1>1, <1>6, OnwardsIs
    <2>3. /\ row' = "downloading" /\ errPage' \in BOOLEAN
          /\ UNCHANGED <<byUser, errDown, announced, startup, busy, replies, checks, release,
                         published, diverted, uploads, step, current, backup, build, stranded,
                         refused>>
        BY <1>1, <1>6, <2>1, TypesAre DEF UpdateInv, rowVars, checkVars, worldVars, diskVars
    <2>4. ManifestVersion(sums') = release.version
        BY <1>1, <1>6 DEF ManifestIsForTheOffer
    <2>5. staged' \in 0 .. Torn
        BY <1>3, <1>6
    <2> QED  BY <1>1, <1>2, <2>1, <2>2, <2>3, <2>4, <2>5, StageBegunKeeps
<1> QED  BY <1>4, <1>5, <1>6 DEF SignatureFetched

LEMMA InstallerFetchedKeeps ==
    ASSUME UpdateAssumption, UpdateInv, NEW whole \in BOOLEAN, InstallerFetched(whole)
    PROVE  UpdateInv'
<1>1. /\ AtRest /\ fetching["installer"] > 0 /\ FetchOver("installer") /\ "installer" \in Stages
      /\ UNCHANGED <<checkVars, release, sums, worldVars, current, backup, build, stranded>>
    BY DEF InstallerFetched, Stages
<1>2. /\ ~Checking /\ startup = TRUE /\ step = "no" /\ build # 0
      /\ release \in Release /\ announced = release.version /\ announced > build
      /\ refused = FALSE
    BY <1>1, FetchIs DEF AtRest
<1>3. fetching' \in [Stages -> 0 .. 1] /\ \A q \in Stages : fetching'[q] = 0
    BY <1>1, OverIs
<1>4. ManifestVersion(sums) = announced /\ announced \in 0 .. Torn
    <2>1. ManifestVersion(sums) = announced
        BY <1>1, <1>2 DEF UpdateInv, DownloadRight
    <2> QED  BY <1>2, <2>1, VersionsAre
<1>5. sums' \in Release \union {NoRelease} /\ Nothing \in 0 .. Torn
    BY <1>1, VersionsAre, TypesAre DEF UpdateInv
<1>6. errDown \in BOOLEAN /\ errPage \in BOOLEAN
    BY TypesAre DEF UpdateInv
<1>7. CASE staged' = Nothing /\ DownloadFailed("transient") /\ UNCHANGED step
    <2>1. staged' \in 0 .. Torn /\ UNCHANGED diskVars
        BY <1>1, <1>5, <1>7 DEF diskVars
    <2> QED  BY <1>1, <1>5, <1>7, <2>1, StageFailedKeeps
<1>8. CASE /\ staged' = ManifestVersion(sums) /\ row' = "ready"
           /\ step' = IF InstallsItself THEN "install" ELSE "no"
           /\ UNCHANGED <<byUser, errDown, errPage, announced, startup, refused>>
    <2>1. step' = "no" \/ (step' = "install" /\ Platform \in {"windows", "appimage"})
        <3>1. InstallsItself \in BOOLEAN /\ (InstallsItself => Platform \in {"windows", "appimage"})
            BY DEF InstallsItself
        <3>2. step' = IF InstallsItself THEN "install" ELSE "no"
            BY <1>8
        <3> QED  BY <3>1, <3>2, Zenon
    <2>2. /\ UNCHANGED <<byUser, announced, startup, busy, replies, checks, release, published,
                         diverted, uploads, current, backup, build, stranded>>
          /\ row' = "ready" /\ errDown' \in BOOLEAN /\ errPage' \in BOOLEAN /\ refused' = FALSE
          /\ staged' = announced /\ staged' \in 0 .. Torn
        BY <1>1, <1>2, <1>4, <1>6, <1>8 DEF checkVars, worldVars
    <2> QED  BY <1>2, <1>3, <1>5, <2>1, <2>2, DownloadOverKeeps
<1>9. CASE /\ staged' = ManifestVersion(sums) /\ row' = "error" /\ errDown' = TRUE
           /\ UNCHANGED <<byUser, errPage, announced, startup, step, refused>>
    BY <1>1, <1>2, <1>3, <1>4, <1>5, <1>6, <1>9, DownloadOverKeeps DEF checkVars, worldVars
<1>10. CASE /\ staged' = ManifestVersion(sums) /\ row' = "error" /\ errDown' = FALSE
            /\ errPage' = TRUE /\ UNCHANGED <<byUser, announced, startup, step, refused>>
    BY <1>1, <1>2, <1>3, <1>4, <1>5, <1>6, <1>10, DownloadOverKeeps DEF checkVars, worldVars
<1> QED  BY <1>7, <1>8, <1>9, <1>10 DEF InstallerFetched

(***************************************************************************)
(* The swap of an AppImage.                                                *)
(***************************************************************************)

\* While a build is being installed, nothing is asked for, and what is staged is
\* the newer release that was announced.
LEMMA InstallingIs ==
    ASSUME UpdateAssumption, UpdateInv, step # "no"
    PROVE  /\ ~Checking /\ ~Fetching /\ startup = TRUE /\ build # 0 /\ busy = FALSE
           /\ release \in Release /\ announced = release.version /\ announced > build
           /\ refused = FALSE /\ staged = announced
           /\ announced \in 1 .. MaxVersion /\ build \in 1 .. MaxVersion
           /\ Whole(announced) /\ Whole(build)
           /\ Platform \in {"windows", "appimage"}
<1>1. /\ ~Checking /\ ~Fetching /\ startup # FALSE /\ build # 0 /\ Offers
      /\ staged = announced
    <2>1. ~Checking
        BY DEF UpdateInv, CheckRight
    <2>2. ~Fetching
        BY DEF UpdateInv, DownloadRight
    <2>3. startup # FALSE /\ build # 0
        BY DEF UpdateInv, EarlyRight
    <2>4. Offers /\ staged = announced
        BY DEF UpdateInv, OfferRight, Offers
    <2> QED  BY <2>1, <2>2, <2>3, <2>4
<1>2. startup = TRUE /\ busy = FALSE
    <2>1. busy # TRUE
        BY <1>1 DEF UpdateInv, CheckRight
    <2> QED  BY <1>1, <2>1, TypesAre DEF UpdateInv
<1>3. /\ release \in Release /\ announced = release.version /\ announced > build
      /\ refused = FALSE
    BY <1>1 DEF UpdateInv, OfferRight
<1>4. announced \in 1 .. MaxVersion
    BY <1>3, VersionsAre
<1>5. build \in 1 .. MaxVersion
    <2>1. build \in 0 .. MaxVersion /\ MaxVersion \in Nat
        BY TypesAre, VersionsAre DEF UpdateInv
    <2> QED  BY <1>1, <2>1
<1>6. Whole(announced) /\ Whole(build)
    BY <1>4, <1>5, VersionsAre DEF Whole
<1>7. Platform \in {"windows", "appimage"}
    BY DEF UpdateInv, DiskRight, UpdateAssumption
<1> QED  BY <1>1, <1>2, <1>3, <1>4, <1>5, <1>6, <1>7

\* A step of the swap: what is on disk is right again, and the row is as it was or
\* says that the update failed.
LEMMA SwapKeeps ==
    ASSUME UpdateAssumption, UpdateInv, NEW from, NEW to \in Steps, from # "no",
           Doing(from, to),
           \/ to # "no" /\ UNCHANGED rowVars
           \/ ApplyFailed,
           current' \in 0 .. Torn, backup' \in 0 .. Torn, stranded' \in Ways,
           UNCHANGED <<staged, build>>,
           DiskRight'
    PROVE  UpdateInv'
<1>1. /\ step = from /\ step' = to /\ step # "no"
      /\ UNCHANGED <<busy, replies, checks, release, fetching, sums, published, diverted, uploads,
                     refused>>
    BY DEF Doing, checkVars, worldVars
<1>2. /\ UNCHANGED <<byUser, errPage, announced, startup>>
      /\ \/ to # "no" /\ row' = row /\ errDown' = errDown
         \/ row' = "error" /\ errDown' = TRUE
    BY DEF rowVars, ApplyFailed
<1>3. /\ ~Checking /\ ~Fetching /\ startup = TRUE /\ build # 0 /\ busy = FALSE
      /\ release \in Release /\ announced = release.version /\ announced > build
      /\ refused = FALSE /\ staged = announced
    BY <1>1, InstallingIs
<1>4. UpdateTypeOK'
    <2>1. /\ byUser' \in BOOLEAN /\ startup' \in BOOLEAN /\ diverted' \in BOOLEAN
          /\ errPage' \in BOOLEAN /\ refused' \in BOOLEAN
          /\ busy' \in BOOLEAN /\ replies' \in [Requests -> 0 .. 1]
          /\ fetching' \in [Stages -> 0 .. 1] /\ sums' \in Release \union {NoRelease}
          /\ announced' \in 0 .. MaxVersion /\ release' \in Release \union {NoRelease}
          /\ published' \in Release /\ uploads' \in 0 .. MaxUploads
          /\ staged' \in 0 .. Torn
          /\ build' \in 0 .. MaxVersion /\ checks' \in 0 .. MaxChecks
          /\ stranded' \in Ways
        BY <1>1, <1>2, TypesAre DEF UpdateInv
    <2>2. row' \in Rows /\ errDown' \in BOOLEAN
        BY <1>2, TypesAre DEF UpdateInv, Rows
    <2>3. step' \in Steps
        BY <1>1
    <2> QED  BY <2>1, <2>2, <2>3, TypesHold, Zenon
<1>5. ~Checking' /\ ~Fetching'
    BY <1>1, <1>3 DEF Checking, Fetching
<1>6. CheckRight'
    BY <1>1, <1>3, <1>5 DEF CheckRight, Checking
<1>7. DownloadRight'
    BY <1>1, <1>3, <1>5 DEF UpdateInv, DownloadRight, ManifestVersion
<1>8. OfferRight'
    BY <1>1, <1>2, <1>3 DEF OfferRight
<1>9. EarlyRight'
    BY <1>2, <1>3 DEF EarlyRight
<1> QED  BY <1>4, <1>6, <1>7, <1>8, <1>9 DEF UpdateInv

LEMMA SwapStepsKeep ==
    ASSUME UpdateAssumption, UpdateInv,
           \/ RemoveOldBackup \/ PutAside \/ AsideFails \/ CopyBegins \/ CopyDone \/ CopyFails
           \/ StartedRemoveBackup \/ StartFails \/ RestoreRemoves \/ RestoreRenames
    PROVE  UpdateInv'
<1>1. /\ Nothing \in 0 .. Torn /\ Torn \in 0 .. Torn /\ stranded \in Ways
      /\ current \in 0 .. Torn /\ backup \in 0 .. Torn /\ staged \in 0 .. Torn
    BY VersionsAre, TypesAre DEF UpdateInv
<1>2. CASE RemoveOldBackup
    <2>1. /\ Doing("install", "aside") /\ Platform = "appimage"
          /\ backup' \in {Nothing, backup}
          /\ stranded' = IF stranded = "no" THEN "no" ELSE "retried"
          /\ UNCHANGED <<rowVars, staged, current, build>>
        BY <1>2 DEF RemoveOldBackup
    <2>2. step = "install" /\ step' = "aside" /\ build # 0
        BY <2>1 DEF Doing
    <2>8. DiskRight'
        BY <2>1, <2>2 DEF UpdateInv, DiskRight, Whole, Nothing, Torn
    <2>9. current' \in 0 .. Torn /\ backup' \in 0 .. Torn /\ stranded' \in Ways
        BY <1>1, <2>1 DEF Ways
    <2> QED  BY <2>1, <2>8, <2>9, SwapKeeps DEF Steps
<1>3. CASE PutAside
    <2>1. /\ Doing("aside", "copy")
          /\ backup' = current /\ current' = Nothing
          /\ UNCHANGED <<rowVars, staged, build, stranded>>
        BY <1>3 DEF PutAside
    <2>2. step = "aside" /\ step' = "copy" /\ build # 0
        BY <2>1 DEF Doing
    <2>8. DiskRight'
        BY <2>1, <2>2 DEF UpdateInv, DiskRight, Whole, Nothing, Torn
    <2>9. current' \in 0 .. Torn /\ backup' \in 0 .. Torn /\ stranded' \in Ways
        BY <1>1, <2>1 DEF Ways
    <2> QED  BY <2>1, <2>8, <2>9, SwapKeeps DEF Steps
<1>4. CASE AsideFails
    <2>1. /\ Doing("aside", "no") /\ ApplyFailed
          /\ UNCHANGED <<staged, current, backup, build, stranded>>
        BY <1>4 DEF AsideFails
    <2>2. step = "aside" /\ step' = "no" /\ build # 0
        BY <2>1 DEF Doing
    <2>8. DiskRight'
        BY <2>1, <2>2 DEF UpdateInv, DiskRight, Whole, Nothing, Torn
    <2>9. current' \in 0 .. Torn /\ backup' \in 0 .. Torn /\ stranded' \in Ways
        BY <1>1, <2>1 DEF Ways
    <2> QED  BY <2>1, <2>8, <2>9, SwapKeeps DEF Steps
<1>5. CASE CopyBegins
    <2>1. /\ Doing("copy", "copying")
          /\ current' = Torn
          /\ UNCHANGED <<rowVars, staged, backup, build, stranded>>
        BY <1>5 DEF CopyBegins
    <2>2. step = "copy" /\ step' = "copying" /\ build # 0
        BY <2>1 DEF Doing
    <2>8. DiskRight'
        BY <2>1, <2>2 DEF UpdateInv, DiskRight, Whole, Nothing, Torn
    <2>9. current' \in 0 .. Torn /\ backup' \in 0 .. Torn /\ stranded' \in Ways
        BY <1>1, <2>1 DEF Ways
    <2> QED  BY <2>1, <2>8, <2>9, SwapKeeps DEF Steps
<1>6. CASE CopyDone
    <2>1. /\ Doing("copying", "start")
          /\ current' = staged
          /\ UNCHANGED <<rowVars, staged, backup, build, stranded>>
        BY <1>6 DEF CopyDone
    <2>2. step = "copying" /\ step' = "start" /\ build # 0 /\ announced' = announced
        BY <2>1 DEF Doing, rowVars
    <2>3. staged = announced
        BY <2>2, InstallingIs
    <2>8. DiskRight'
        BY <2>1, <2>2, <2>3 DEF UpdateInv, DiskRight, Whole, Nothing, Torn
    <2>9. current' \in 0 .. Torn /\ backup' \in 0 .. Torn /\ stranded' \in Ways
        BY <1>1, <2>1 DEF Ways
    <2> QED  BY <2>1, <2>8, <2>9, SwapKeeps DEF Steps
<1>7. CASE CopyFails
    <2>1. /\ Doing("copying", "restore")
          /\ UNCHANGED <<rowVars, staged, current, backup, build, stranded>>
        BY <1>7 DEF CopyFails
    <2>2. step = "copying" /\ step' = "restore" /\ build # 0
        BY <2>1 DEF Doing
    <2>8. DiskRight'
        BY <2>1, <2>2 DEF UpdateInv, DiskRight, Whole, Nothing, Torn
    <2>9. current' \in 0 .. Torn /\ backup' \in 0 .. Torn /\ stranded' \in Ways
        BY <1>1, <2>1 DEF Ways
    <2> QED  BY <2>1, <2>8, <2>9, SwapKeeps DEF Steps
<1>8. CASE StartedRemoveBackup
    <2>1. /\ Doing("start", "leave")
          /\ backup' \in {Nothing, backup}
          /\ UNCHANGED <<rowVars, staged, current, build, stranded>>
        BY <1>8 DEF StartedRemoveBackup
    <2>2. step = "start" /\ step' = "leave" /\ build # 0 /\ announced' = announced
        BY <2>1 DEF Doing, rowVars
    <2>8. DiskRight'
        BY <2>1, <2>2 DEF UpdateInv, DiskRight, Whole, Nothing, Torn
    <2>9. current' \in 0 .. Torn /\ backup' \in 0 .. Torn /\ stranded' \in Ways
        BY <1>1, <2>1 DEF Ways
    <2> QED  BY <2>1, <2>8, <2>9, SwapKeeps DEF Steps
<1>9. CASE StartFails
    <2>1. /\ Doing("start", "restore")
          /\ UNCHANGED <<rowVars, staged, current, backup, build, stranded>>
        BY <1>9 DEF StartFails
    <2>2. step = "start" /\ step' = "restore" /\ build # 0
        BY <2>1 DEF Doing
    <2>8. DiskRight'
        BY <2>1, <2>2 DEF UpdateInv, DiskRight, Whole, Nothing, Torn
    <2>9. current' \in 0 .. Torn /\ backup' \in 0 .. Torn /\ stranded' \in Ways
        BY <1>1, <2>1 DEF Ways
    <2> QED  BY <2>1, <2>8, <2>9, SwapKeeps DEF Steps
<1>10. CASE RestoreRemoves
    <2>1. /\ Doing("restore", "back")
          /\ current' \in {Nothing, current}
          /\ UNCHANGED <<rowVars, staged, backup, build, stranded>>
        BY <1>10 DEF RestoreRemoves
    <2>2. step = "restore" /\ step' = "back" /\ build # 0
        BY <2>1 DEF Doing
    <2>8. DiskRight'
        BY <2>1, <2>2 DEF UpdateInv, DiskRight, Whole, Nothing, Torn
    <2>9. current' \in 0 .. Torn /\ backup' \in 0 .. Torn /\ stranded' \in Ways
        BY <1>1, <2>1 DEF Ways
    <2> QED  BY <2>1, <2>8, <2>9, SwapKeeps DEF Steps
<1>11. CASE RestoreRenames
    <2>1. /\ Doing("back", "no") /\ ApplyFailed
          /\ \/ current' = backup /\ backup' = Nothing /\ UNCHANGED stranded
             \/ /\ stranded' = IF stranded = "no" THEN "kept" ELSE stranded
                /\ UNCHANGED <<current, backup>>
          /\ UNCHANGED <<staged, build>>
        BY <1>11 DEF RestoreRenames
    <2>2. step = "back" /\ step' = "no" /\ build # 0
        BY <2>1 DEF Doing
    <2>8. DiskRight'
        BY <2>1, <2>2 DEF UpdateInv, DiskRight, Whole, Nothing, Torn
    <2>9. current' \in 0 .. Torn /\ backup' \in 0 .. Torn /\ stranded' \in Ways
        BY <1>1, <2>1 DEF Ways
    <2> QED  BY <2>1, <2>8, <2>9, SwapKeeps DEF Steps
<1> QED  BY <1>2, <1>3, <1>4, <1>5, <1>6, <1>7, <1>8, <1>9, <1>10, <1>11

(***************************************************************************)
(* Runs that end and start, and what is published.                         *)
(***************************************************************************)

\* At every step of the swap one of the two files is a whole program.
LEMMA WholeIsKept ==
    ASSUME UpdateAssumption, UpdateInv, stranded # "retried"
    PROVE  Whole(current) \/ Whole(backup)
<1>1. stranded \in {"no", "kept"} /\ step \in Steps
    BY TypesAre DEF UpdateInv, Ways
<1>2. CASE stranded = "kept" \/ build = 0
    BY <1>2 DEF UpdateInv, DiskRight
<1>3. CASE stranded = "no" /\ build # 0 /\ step # "leave"
    BY <1>1, <1>3 DEF UpdateInv, DiskRight, Steps
<1>4. CASE step = "leave"
    BY <1>4, InstallingIs DEF UpdateInv, DiskRight
<1> QED  BY <1>1, <1>2, <1>3, <1>4

LEMMA EndedKeeps ==
    ASSUME UpdateAssumption, UpdateInv, Ended,
           staged' \in 0 .. Torn, current' \in 0 .. Torn, backup' \in 0 .. Torn,
           UNCHANGED <<checks, worldVars>>,
           stranded' \in Ways, stranded' # "retried" => Whole(current') \/ Whole(backup')
    PROVE  UpdateInv'
<1>1. /\ row' = "" /\ byUser' = FALSE /\ errDown' = FALSE /\ errPage' = FALSE /\ announced' = 0
      /\ startup' = FALSE /\ busy' = FALSE /\ replies' = Fresh /\ release' = NoRelease
      /\ fetching' = NoFetch /\ sums' = NoRelease /\ step' = "no" /\ build' = 0 /\ refused' = FALSE
    BY DEF Ended
<1>2. UpdateTypeOK'
    <2>1. /\ diverted' \in BOOLEAN /\ published' \in Release /\ uploads' \in 0 .. MaxUploads
          /\ checks' \in 0 .. MaxChecks
        BY TypesAre DEF UpdateInv, worldVars
    <2>2. /\ row' \in Rows /\ step' \in Steps /\ byUser' \in BOOLEAN /\ errDown' \in BOOLEAN
          /\ errPage' \in BOOLEAN /\ startup' \in BOOLEAN /\ busy' \in BOOLEAN
          /\ refused' \in BOOLEAN
          /\ release' \in Release \union {NoRelease} /\ sums' \in Release \union {NoRelease}
        BY <1>1 DEF Rows, Steps
    <2>3. announced' \in 0 .. MaxVersion /\ build' \in 0 .. MaxVersion
        BY <1>1, VersionsAre
    <2>4. replies' \in [Requests -> 0 .. 1] /\ fetching' \in [Stages -> 0 .. 1]
        BY <1>1, NothingOut
    <2> QED  BY <2>1, <2>2, <2>3, <2>4, TypesHold, Zenon
<1>3. ~Checking' /\ ~Fetching' /\ ~(fetching'["installer"] > 0)
    <2>1. replies' = Fresh /\ fetching' = NoFetch
        BY <1>1
    <2>2. (\A r \in Requests : replies'[r] = 0) /\ (\A s \in Stages : fetching'[s] = 0)
        BY <2>1, NothingOut
    <2> QED  BY <2>2 DEF Checking, Fetching, Stages
<1>4. CheckRight' /\ DownloadRight'
    <2>1. busy' # TRUE
        BY <1>1
    <2>2. CheckRight'
        BY <1>3, <2>1 DEF CheckRight, Checking
    <2> QED  BY <1>3, <2>2 DEF DownloadRight, Fetching
<1>5. OfferRight'
    <2>1. ~Offers'
        BY <1>1, <1>3 DEF Offers
    <2> QED  BY <1>1, <2>1 DEF OfferRight
<1>6. EarlyRight'
    BY <1>1, <1>3 DEF EarlyRight
<1>7. DiskRight'
    <2>1. stranded' # "retried" => (Whole(current) \/ Whole(backup))'
        BY DEF Whole, Torn, Nothing
    <2>2. stranded' = "kept" => (Whole(current) \/ Whole(backup))'
        BY <2>1
    <2> QED  BY <1>1, <2>1, <2>2 DEF DiskRight
<1> QED  BY <1>2, <1>4, <1>5, <1>6, <1>7 DEF UpdateInv

LEMMA QuitsKeep ==
    ASSUME UpdateAssumption, UpdateInv, WindowsInstalls \/ StartedQuit \/ Ends
    PROVE  UpdateInv'
<1>1. /\ current \in 0 .. Torn /\ backup \in 0 .. Torn /\ staged \in 0 .. Torn
      /\ Nothing \in 0 .. Torn /\ stranded \in Ways
    BY VersionsAre, TypesAre DEF UpdateInv
<1>2. CASE WindowsInstalls
    <2>1. /\ step = "install" /\ current' \in {current, staged} /\ Ended
          /\ UNCHANGED <<staged, backup, stranded, checks, worldVars>>
        BY <1>2 DEF WindowsInstalls
    <2>2. Whole(staged)
        BY <2>1, InstallingIs
    <2>3. stranded' # "retried" => Whole(current') \/ Whole(backup')
        BY <2>1, <2>2, WholeIsKept
    <2>4. current' \in 0 .. Torn /\ backup' \in 0 .. Torn /\ staged' \in 0 .. Torn
        BY <1>1, <2>1
    <2> QED  BY <1>1, <2>1, <2>3, <2>4, EndedKeeps
<1>3. CASE StartedQuit
    <2>1. /\ step = "leave" /\ staged' \in {Nothing, staged} /\ Ended
          /\ UNCHANGED <<current, backup, stranded, checks, worldVars>>
        BY <1>3 DEF StartedQuit
    <2>2. Whole(current)
        BY <2>1, InstallingIs DEF UpdateInv, DiskRight
    <2>3. staged' \in 0 .. Torn
        BY <1>1, <2>1
    <2> QED  BY <1>1, <2>1, <2>2, <2>3, EndedKeeps
<1>4. CASE Ends
    <2>1. Ended /\ UNCHANGED <<staged, current, backup, stranded, checks, worldVars>>
        BY <1>4 DEF Ends
    <2> QED  BY <1>1, <2>1, WholeIsKept, EndedKeeps
<1> QED  BY <1>2, <1>3, <1>4

LEMMA InstalledByHandKeeps ==
    ASSUME UpdateAssumption, UpdateInv, InstalledByHand
    PROVE  UpdateInv'
<1>1. /\ row = "ready" /\ step = "no" /\ current' = staged /\ stranded' = "no"
      /\ UNCHANGED <<row, byUser, errDown, errPage, announced, startup, busy, replies, checks,
                     release, fetching, sums, staged, published, diverted, uploads, step, backup,
                     build, refused>>
    BY DEF InstalledByHand, rowVars, checkVars, worldVars
<1>2. staged = announced /\ release \in Release /\ announced = release.version
    BY <1>1 DEF UpdateInv, OfferRight, Offers
<1>3. Whole(staged) /\ staged \in 0 .. Torn
    BY <1>2, VersionsAre DEF Whole
<1>4. UpdateTypeOK'
    BY <1>1, <1>3 DEF UpdateInv, UpdateTypeOK
<1>5. CheckRight' /\ DownloadRight'
    BY <1>1 DEF UpdateInv, CheckRight, Checking, DownloadRight, Fetching, ManifestVersion
<1>6. OfferRight' /\ EarlyRight'
    BY <1>1 DEF UpdateInv, OfferRight, Offers, EarlyRight, Checking, Fetching
<1>7. DiskRight'
    BY <1>1, <1>3 DEF UpdateInv, DiskRight, Whole, Torn, Nothing
<1> QED  BY <1>4, <1>5, <1>6, <1>7 DEF UpdateInv

LEMMA StartKeeps ==
    ASSUME UpdateAssumption, UpdateInv, Start
    PROVE  UpdateInv'
<1>1. /\ build = 0 /\ current \notin {Nothing, Torn} /\ build' = current /\ stranded' = "no"
      /\ UNCHANGED <<row, byUser, errDown, errPage, announced, startup, busy, replies, checks,
                     release, fetching, sums, staged, published, diverted, uploads, step, current,
                     backup, refused>>
    BY DEF Start, Whole, rowVars, checkVars, worldVars
<1>2. /\ startup = FALSE /\ row = "" /\ errDown = FALSE /\ ~Checking /\ ~Fetching
      /\ step = "no"
    BY <1>1 DEF UpdateInv, EarlyRight
<1>3. build' \in 0 .. MaxVersion /\ build' # 0 /\ Whole(current)
    <2>1. current \in 0 .. Torn /\ MaxVersion \in Nat /\ Torn = MaxVersion + 1 /\ Nothing = 0
        BY TypesAre, VersionsAre DEF UpdateInv
    <2>2. current \in 0 .. MaxVersion /\ current # 0
        BY <1>1, <2>1
    <2> QED  BY <1>1, <2>2 DEF Whole
<1>4. UpdateTypeOK'
    BY <1>1, <1>3 DEF UpdateInv, UpdateTypeOK
<1>5. CheckRight' /\ DownloadRight'
    BY <1>1 DEF UpdateInv, CheckRight, Checking, DownloadRight, Fetching, ManifestVersion
<1>6. OfferRight' /\ EarlyRight'
    <2>1. ~Offers' /\ ~Checking' /\ ~Fetching'
        BY <1>1, <1>2 DEF Offers, Checking, Fetching
    <2> QED  BY <1>1, <1>2, <1>3, <2>1 DEF OfferRight, EarlyRight
<1>7. DiskRight'
    BY <1>1, <1>2, <1>3 DEF DiskRight, Whole, Torn, Nothing
<1> QED  BY <1>4, <1>5, <1>6, <1>7 DEF UpdateInv

\* What is published, and when, no step relies on.
LEMMA PublishedKeeps ==
    ASSUME UpdateAssumption, UpdateInv, Publish \/ Reupload \/ Divert
    PROVE  UpdateInv'
<1>1. UNCHANGED <<row, byUser, errDown, errPage, announced, startup, busy, replies, checks,
                  release, fetching, sums, staged, step, current, backup, build, stranded,
                  refused>>
    BY DEF Publish, Reupload, Divert, rowVars, checkVars, diskVars
<1>2. /\ published \in Release /\ uploads \in 0 .. MaxUploads
      /\ MaxVersion \in Nat /\ MaxUploads \in Nat
    BY TypesAre DEF UpdateInv, UpdateAssumption
<1>3. published' \in Release /\ uploads' \in 0 .. MaxUploads
    <2>1. CASE Publish
        <3>1. PICK f \in Flaws :
                  published' = [version |-> published.version + 1, flaw |-> f, upload |-> 0]
            BY <2>1 DEF Publish
        <3>2. published.version + 1 \in 1 .. MaxVersion
            BY <1>2, <2>1 DEF Publish, Release
        <3> QED  BY <1>2, <2>1, <3>1, <3>2 DEF Publish, Release
    <2>2. CASE Reupload
        <3>1. /\ uploads' = uploads + 1 /\ uploads < MaxUploads
              /\ published' = [published EXCEPT !.flaw = "none", !.upload = uploads + 1]
            BY <2>2 DEF Reupload
        <3>2. uploads' \in 0 .. MaxUploads
            BY <1>2, <3>1
        <3>3. published' = [published EXCEPT !.flaw = "none", !.upload = uploads'] /\ "none" \in Flaws
            BY <3>1 DEF Flaws
        <3> QED  BY <1>2, <3>2, <3>3 DEF Release
    <2>3. CASE Divert
        <3>1. uploads' = uploads + 1 /\ uploads < MaxUploads /\ published' = published
            BY <2>3 DEF Divert
        <3> QED  BY <1>2, <3>1
    <2> QED  BY <2>1, <2>2, <2>3
<1>4. diverted' \in BOOLEAN
    <2>1. diverted \in BOOLEAN
        BY TypesAre DEF UpdateInv
    <2> QED  BY <2>1 DEF Publish, Reupload, Divert
<1>5. UpdateTypeOK'
    <2>1. /\ row' \in Rows /\ step' \in Steps /\ byUser' \in BOOLEAN /\ errDown' \in BOOLEAN
          /\ errPage' \in BOOLEAN /\ startup' \in BOOLEAN /\ refused' \in BOOLEAN
          /\ busy' \in BOOLEAN /\ replies' \in [Requests -> 0 .. 1]
          /\ announced' \in 0 .. MaxVersion /\ fetching' \in [Stages -> 0 .. 1]
          /\ release' \in Release \union {NoRelease} /\ sums' \in Release \union {NoRelease}
          /\ staged' \in 0 .. Torn /\ current' \in 0 .. Torn /\ backup' \in 0 .. Torn
          /\ build' \in 0 .. MaxVersion /\ checks' \in 0 .. MaxChecks
          /\ stranded' \in Ways
        BY <1>1, TypesAre DEF UpdateInv
    <2> QED  BY <1>3, <1>4, <2>1, TypesHold, Zenon
<1>6. CheckRight' /\ DownloadRight'
    BY <1>1 DEF UpdateInv, CheckRight, Checking, DownloadRight, Fetching, ManifestVersion
<1>7. OfferRight' /\ EarlyRight'
    BY <1>1 DEF UpdateInv, OfferRight, Offers, EarlyRight, Checking, Fetching
<1>8. DiskRight'
    BY <1>1 DEF UpdateInv, DiskRight, Whole
<1> QED  BY <1>5, <1>6, <1>7, <1>8 DEF UpdateInv

(***************************************************************************)
(* The theorems.                                                           *)
(***************************************************************************)
LEMMA UpdateInitRight ==
    ASSUME UpdateAssumption, UpdateInit
    PROVE  UpdateInv
<1>1. /\ row = "" /\ byUser = FALSE /\ errDown = FALSE /\ errPage = FALSE /\ announced = 0
      /\ startup = FALSE /\ busy = FALSE /\ replies = Fresh /\ release = NoRelease
      /\ fetching = NoFetch /\ sums = NoRelease /\ staged = 0 /\ diverted = FALSE /\ uploads = 0
      /\ published \in [version : {1}, flaw : {"none"}, upload : {0}]
      /\ step = "no" /\ current = 1 /\ backup = 0 /\ build = 1 /\ checks = 0 /\ refused = FALSE
      /\ stranded = "no"
    BY DEF UpdateInit, Nothing
<1>2. MaxVersion \in Nat \ {0} /\ MaxUploads \in Nat /\ MaxChecks \in Nat
    BY DEF UpdateAssumption
<1>3. 1 \in 0 .. MaxVersion /\ 0 \in 0 .. MaxVersion /\ 1 \in 0 .. Torn /\ 0 \in 0 .. Torn /\ 1 # Torn
    BY <1>2 DEF Torn
<1>4. published \in Release
    <2>1. published \in [version : {1}, flaw : {"none"}, upload : {0}]
        BY <1>1
    <2>2. 1 \in 1 .. MaxVersion /\ "none" \in Flaws /\ 0 \in 0 .. MaxUploads
        BY <1>2 DEF Flaws
    <2> QED  BY <2>1, <2>2 DEF Release
<1>5. replies \in [Requests -> 0 .. 1] /\ fetching \in [Stages -> 0 .. 1]
    BY <1>1, NothingOut
<1>6. /\ (\A r \in Requests : replies[r] = 0) /\ (\A s \in Stages : fetching[s] = 0)
      /\ ~Checking /\ ~Fetching /\ ~(fetching["installer"] > 0)
    <2>1. replies = Fresh /\ fetching = NoFetch
        BY <1>1
    <2>2. (\A r \in Requests : replies[r] = 0) /\ (\A s \in Stages : fetching[s] = 0)
        BY <2>1, NothingOut
    <2> QED  BY <2>2 DEF Checking, Fetching, Stages
<1>7. UpdateTypeOK
    <2>1. 0 \in 0 .. MaxUploads /\ 0 \in 0 .. MaxChecks
        BY <1>2
    <2>2. {byUser, errDown, errPage, startup, busy, diverted} \subseteq BOOLEAN
        BY <1>1
    <2>3. {staged, current, backup} \subseteq 0 .. Torn
        BY <1>1, <1>3
    <2> QED  BY <1>1, <1>3, <1>4, <1>5, <2>1, <2>2, <2>3, Zenon DEF UpdateTypeOK
<1>8. CheckRight /\ DownloadRight
    <2>1. busy # TRUE
        BY <1>1
    <2>2. CheckRight
        BY <1>6, <2>1 DEF CheckRight, Checking
    <2> QED  BY <1>6, <2>2 DEF DownloadRight, Fetching
<1>9. OfferRight /\ EarlyRight
    <2>1. ~Offers
        BY <1>1, <1>6 DEF Offers
    <2> QED  BY <1>1, <1>6, <2>1 DEF OfferRight, EarlyRight
<1>10. DiskRight
    <2>1. current = 1
        BY <1>1
    <2>2. Whole(current)
        BY <1>3, <2>1 DEF Whole, Nothing
    <2> QED  BY <1>1, <2>2 DEF DiskRight
<1> QED  BY <1>7, <1>8, <1>9, <1>10 DEF UpdateInv

LEMMA UpdateNextKeeps ==
    ASSUME UpdateAssumption, "earlyClick" \notin Happens, UpdateInv, [UpdateNext]_update_vars
    PROVE  UpdateInv'
<1>1. CASE StartupCheck
    BY <1>1, StartupCheckKeeps
<1>2. CASE Clicks
    BY <1>2, ClickCheckKeeps, ClickDownloadKeeps DEF Clicks
<1>3. CASE Checks
    BY <1>3, CheckFailsKeeps, CheckAnsweredKeeps, CheckDivertedKeeps DEF Checks
<1>4. CASE Fetches
    BY <1>4, ProgressKeeps, FetchFailsKeeps, SumsFetchedKeeps, SignatureFetchedKeeps,
       InstallerFetchedKeeps DEF Fetches
<1>5. CASE Installs
    BY <1>5, SwapStepsKeep, QuitsKeep, InstalledByHandKeeps DEF Installs
<1>6. CASE World
    BY <1>6, QuitsKeep, StartKeeps, PublishedKeeps DEF World
<1>7. CASE UNCHANGED update_vars
    BY <1>7, StutterKeeps
<1> QED  BY <1>1, <1>2, <1>3, <1>4, <1>5, <1>6, <1>7 DEF UpdateNext

LEMMA UpdateInvHolds ==
    ASSUME "earlyClick" \notin Happens
    PROVE  UpdateSpec => []UpdateInv
<1>1. UpdateInit => UpdateInv
    BY UpdateConstants, UpdateInitRight
<1>2. UpdateInv /\ [UpdateNext]_update_vars => UpdateInv'
    BY UpdateConstants, UpdateNextKeeps
<1> QED  BY <1>1, <1>2, PTL DEF UpdateSpec

LEMMA InstallsFromUpdateInv ==
    ASSUME UpdateAssumption, UpdateInv
    PROVE  InstallsWhatWasOffered
<1>1. OneDownload
    <2>1. /\ fetching["sums"] \in 0 .. 1 /\ fetching["signature"] \in 0 .. 1
          /\ fetching["installer"] \in 0 .. 1
        BY TypesAre DEF UpdateInv, Stages
    <2>2. \A s, q \in Stages : fetching[s] > 0 /\ fetching[q] > 0 => s = q
        BY DEF UpdateInv, DownloadRight
    <2>3. fetching["sums"] + fetching["signature"] + fetching["installer"] <= 1
        BY <2>1, <2>2 DEF Stages
    <2>4. fetching["sums"] + fetching["signature"] + fetching["installer"] = 1 => Fetching
        BY <2>1 DEF Fetching, Stages
    <2> QED  BY <2>3, <2>4 DEF OneDownload, UpdateInv, DownloadRight
<1>2. OnlyTheOffered
    BY DEF UpdateInv, OfferRight, Offers, DiskRight, OnlyTheOffered
<1>3. BuildSurvives
    BY WholeIsKept DEF UpdateInv, DiskRight, BuildSurvives
<1> QED  BY <1>1, <1>2, <1>3 DEF InstallsWhatWasOffered

\* Whatever is published, uploaded again or served wrong meanwhile, at most one download is
\* under way, and what is handed to an installer, or started in the running AppImage's place,
\* is the version the row announced.  Any file operation of the swap and of the way back may
\* fail and the program may die at any of them: a whole program stays on disk, unless a swap
\* is tried again after a way back that failed, and it is where the user starts it from as
\* long as no way back failed (BackendUpdates.cpp:68-93, 202-207, 369-371,
\* UpdateChecker.cpp:542-568).  All this if no click comes before the application's own check.
THEOREM UpdateInstallsTheOffer ==
    ASSUME "earlyClick" \notin Happens
    PROVE  UpdateSpec => [](UpdateTypeOK /\ InstallsWhatWasOffered)
<1>1. UpdateInv => UpdateTypeOK /\ InstallsWhatWasOffered
    BY UpdateConstants, InstallsFromUpdateInv DEF UpdateInv
<1> QED  BY <1>1, UpdateInvHolds, PTL

LEMMA RefusedIsOver ==
    ASSUME UpdateAssumption, UpdateInv, UpdateNext
    PROVE  RefusedIsNotRetried
<1>1. fetching \in [Stages -> 0 .. 1] /\ "sums" \in Stages /\ fetching["sums"] \in 0 .. 1
    BY TypesAre DEF UpdateInv, Stages
<1>2. fetching' = fetching \/ fetching'["sums"] = 0 => RefusedIsNotRetried
    BY <1>1 DEF RefusedIsNotRetried
<1>3. CASE StartupCheck \/ ClickCheck
    BY <1>2, <1>3 DEF StartupCheck, ClickCheck, CheckForUpdates
<1>4. CASE ClickDownload
    <2>1. row = "available" \/ errDown = TRUE
        BY <1>4, TypesAre DEF ClickDownload, UpdateInv
    <2>2. refused = FALSE
        BY <2>1 DEF UpdateInv, OfferRight, Offers
    <2> QED  BY <2>2 DEF RefusedIsNotRetried
<1>5. CASE Checks
    BY <1>2, <1>5 DEF Checks, CheckFails, CheckAnswered, CheckDiverted
<1>6. CASE Fetches
    <2>1. CASE \E s \in Stages : FetchOver(s) /\ fetching[s] > 0
        BY <1>1, <1>2, <2>1, OverIs
    <2>2. CASE \E s, q \in Stages : s # q /\ q # "sums" /\ Onwards(s, q) /\ fetching[s] > 0
        BY <1>1, <1>2, <2>2, OnwardsIs
    <2>3. CASE UNCHANGED fetching
        BY <1>2, <2>3
    <2>4. \A s \in Stages : Progress(s) => UNCHANGED fetching
        BY DEF Progress
    <2>5. \A s \in Stages : FetchFails(s) => FetchOver(s) /\ fetching[s] > 0
        BY DEF FetchFails
    <2>6. \A whole \in BOOLEAN :
              InstallerFetched(whole) => FetchOver("installer") /\ fetching["installer"] > 0
        BY DEF InstallerFetched
    <2>7. SumsFetched => /\ fetching["sums"] > 0
                         /\ FetchOver("sums") \/ Onwards("sums", "signature")
        BY DEF SumsFetched
    <2>8. SignatureFetched => /\ fetching["signature"] > 0
                              /\ FetchOver("signature") \/ Onwards("signature", "installer")
        BY DEF SignatureFetched
    <2>9. "sums" \in Stages /\ "signature" \in Stages /\ "installer" \in Stages
        BY DEF Stages
    <2> QED  BY <1>6, <2>1, <2>2, <2>3, <2>4, <2>5, <2>6, <2>7, <2>8, <2>9 DEF Fetches
<1>7. CASE Installs
    <2>1. CASE Ended
        BY <1>1, <1>2, <2>1, NothingOut DEF Ended
    <2>2. \A from, to \in Steps : Doing(from, to) => UNCHANGED fetching
        BY DEF Doing
    <2>3. Ended \/ UNCHANGED fetching
        BY <1>7, <2>2 DEF Installs, WindowsInstalls, StartedQuit, InstalledByHand, RemoveOldBackup,
           PutAside, AsideFails, CopyBegins, CopyDone, CopyFails, StartedRemoveBackup, StartFails,
           RestoreRemoves, RestoreRenames, Steps
    <2> QED  BY <1>2, <2>1, <2>3
<1>8. CASE World
    <2>1. CASE Ends
        BY <1>1, <1>2, <2>1, NothingOut DEF Ends, Ended
    <2>2. CASE Start \/ Publish \/ Reupload \/ Divert
        BY <1>2, <2>2 DEF Start, Publish, Reupload, Divert
    <2> QED  BY <1>8, <2>1, <2>2 DEF World
<1> QED  BY <1>3, <1>4, <1>5, <1>6, <1>7, <1>8 DEF UpdateNext, Clicks

\* A download that was refused is not begun again with the release that check found: no
\* click or retry reaches it before a later check (BackendUpdates.cpp:284-287).
THEOREM UpdateRefusedIsOver ==
    ASSUME "earlyClick" \notin Happens
    PROVE  UpdateSpec => [][RefusedIsNotRetried]_update_vars
<1>1. UpdateInv /\ [UpdateNext]_update_vars => [RefusedIsNotRetried]_update_vars
    BY UpdateConstants, RefusedIsOver
<1> QED  BY <1>1, UpdateInvHolds, PTL DEF UpdateSpec
=============================================================================
