----------------------------- MODULE AppUpdate -----------------------------
(***************************************************************************)
(* The desktop updater: the update row of the settings page, the Backend's *)
(* state behind it (src/src/app/BackendUpdates.cpp), UpdateChecker         *)
(* (src/src/core/UpdateChecker.cpp) with its check and its chain of        *)
(* downloads, the staging directory, and the AppImage swap.                *)
(*                                                                         *)
(* One thread runs all of it, so a handler is one step.  What interleaves  *)
(* are the clicks, the check the application starts by itself, the replies *)
(* of up to four requests, what is published meanwhile, and a crash        *)
(* between the file operations of the swap, which are steps of their own   *)
(* and block everything else.                                              *)
(*                                                                         *)
(* A build is its version.  A release is a version and what is wrong with  *)
(* it, which the chain finds out at different stages.                      *)
(***************************************************************************)
EXTENDS Naturals

CONSTANTS Platform,   \* "windows", "mac", "appimage" or "package"
          MaxVersion, \* the last version published; 1 is installed first
          MaxChecks,  \* checks asked for, all runs of the program together
          MaxUploads, \* times assets are uploaded again, or a check diverted
          Happens     \* which of "crash", "earlyClick" the world does, and whether
                      \* an AppImage runs "unpacked" and not mounted

UpdateAssumption ==
    /\ Platform \in {"windows", "mac", "appimage", "package"}
    /\ MaxVersion \in Nat \ {0} /\ MaxChecks \in Nat /\ MaxUploads \in Nat

ASSUME UpdateConstants == UpdateAssumption

VARIABLES row,       \* m_updateState
          byUser,    \* m_updateCheckUserInitiated
          errDown,   \* m_updateErrorFromDownload
          errPage,   \* m_updateErrorOpensPage
          announced, \* m_latestVersion, 0 before any
          startup,   \* the startup check has been asked for
          busy,      \* m_checkInFlight
          replies,   \* replies of a check still out, by request
          release,   \* m_latest
          fetching,  \* replies of a download still out, by stage
          sums,      \* m_checksumsData
          staged,    \* the file in the staging directory
          published, \* what the releases page serves at this moment
          diverted,  \* /releases/latest names a release of another kind
          uploads,   \* bound
          step,      \* where applyLinuxUpdate() is
          current,   \* the AppImage, or the installed program, on disk
          backup,    \* <current>.old
          build,     \* the version that is running, 0 when none is
          stranded,  \* a build that failed to go back is "kept" in the backup, or a
                     \* swap was "retried" since (ghost)
          checks,    \* checks asked for so far (bound)
          refused    \* a download of m_latest was refused (ghost)

rowVars    == <<row, byUser, errDown, errPage, announced, startup>>
checkVars  == <<busy, replies, checks>>
worldVars  == <<published, diverted, uploads>>
diskVars   == <<step, current, backup, build, stranded>>
update_vars == <<rowVars, checkVars, release, fetching, sums, staged, worldVars,
          diskVars, refused>>

Requests == {"latest", "list"}
Stages   == {"sums", "signature", "installer"}
\* What can be wrong with a release. "crossed" and "unversioned" are signed
\* manifests of another version and of none, as a mixed-up server serves them.
Flaws    == {"none", "noInstaller", "noSums", "unsigned", "badSignature",
             "crossed", "unversioned", "damaged"}
Release  == [version : 1 .. MaxVersion, flaw : Flaws, upload : 0 .. MaxUploads]
NoRelease == [version |-> 0]
Nothing  == 0      \* no file
Torn     == MaxVersion + 1 \* a file that is there and is not a whole program

Whole(file) == file \notin {Nothing, Torn}

AtRest == /\ build # 0
          /\ step = "no"

\* updatableAppImage(): a mounted AppImage is looked for at its path each time;
\* one that runs unpacked keeps the path it found first.
FindsItself == current # Nothing \/ "unpacked" \in Happens
InstallsItself == Platform = "windows" \/ (Platform = "appimage" /\ FindsItself)
ShowsPackage   == Platform = "package" \/ (Platform = "appimage" /\ ~FindsItself)

-----------------------------------------------------------------------------
(* The row, and what the checker says to it.                               *)

Fresh == [r \in Requests |-> 0]
NoFetch == [s \in Stages |-> 0]

UpdateInit ==
    /\ row = "" /\ byUser = FALSE /\ errDown = FALSE /\ errPage = FALSE
    /\ announced = 0 /\ startup = FALSE
    /\ busy = FALSE /\ replies = Fresh
    /\ release = NoRelease /\ fetching = NoFetch
    /\ sums = NoRelease /\ staged = Nothing
    /\ published \in [version : {1}, flaw : {"none"}, upload : {0}]
    /\ diverted = FALSE /\ uploads = 0
    /\ step = "no" /\ current = 1 /\ backup = Nothing /\ build = 1 /\ stranded = "no"
    /\ checks = 0 /\ refused = FALSE

\* checkNow(): one check at a time; one asked for meanwhile waits for it.
CheckNow ==
    IF busy THEN UNCHANGED checkVars
            ELSE /\ busy' = TRUE
                 /\ replies' = [replies EXCEPT !["latest"] = @ + 1]
                 /\ checks' = checks + 1

\* ensureUpdater() clears out an earlier run's downloads when it makes the
\* checker, which is at this run's first check.
Discarded == IF release = NoRelease /\ replies = Fresh /\ fetching = NoFetch
             THEN Nothing ELSE staged

CheckForUpdates(user) ==
    /\ checks < MaxChecks
    /\ row \notin {"checking", "downloading"}
    /\ staged' = Discarded
    /\ byUser' = user
    /\ errDown' = FALSE
    /\ errPage' = FALSE
    /\ row' = IF user THEN "checking" ELSE row
    /\ CheckNow
    /\ UNCHANGED <<announced, release, fetching, sums, worldVars, diskVars, refused>>

\* noUpdateAvailable: also the checker's failure, told from it by its text.
NoUpdate(upToDate) ==
    /\ row' = IF byUser THEN IF upToDate THEN "current" ELSE "error" ELSE row
    /\ UNCHANGED <<byUser, errDown, errPage, announced, startup>>

\* downloadFailed, of three kinds.
DownloadFailed(kind) ==
    /\ row' = "error"
    /\ errDown' = (kind = "transient")
    /\ errPage' = (kind = "noInstaller")
    /\ refused' = (refused \/ kind = "refused")
    /\ UNCHANGED <<byUser, announced, startup>>

\* downloadLatest(): refused outright, or the manifest is asked for.
DownloadLatest ==
    \/ /\ release.flaw = "noInstaller"
       /\ DownloadFailed("noInstaller")
       /\ UNCHANGED <<fetching, sums>>
    \/ /\ release.flaw = "noSums"
       /\ DownloadFailed("refused")
       /\ UNCHANGED <<fetching, sums>>
    \* the staging directory could not be made, or is not this user's alone
    \/ /\ release.flaw # "noInstaller"
       /\ DownloadFailed("transient")
       /\ UNCHANGED <<fetching, sums>>
    \/ /\ release.flaw \notin {"noInstaller", "noSums"}
       /\ row' = "downloading"
       /\ errPage' = FALSE
       /\ sums' = NoRelease
       /\ fetching' = [fetching EXCEPT !["sums"] = @ + 1]
       /\ UNCHANGED <<byUser, errDown, announced, startup, refused>>

\* downloadUpdate()
DownloadUpdate ==
    /\ row # "downloading"
    /\ DownloadLatest
    /\ UNCHANGED <<checkVars, release, staged, worldVars, diskVars>>

-----------------------------------------------------------------------------
(* The user, and the timer of the first check.                             *)

\* The startup check, 1.2 s into the run. It returns unasked when the row is
\* busy already, which a click made earlier than that can bring about.
StartupCheck ==
    /\ AtRest
    /\ ~startup
    /\ startup' = TRUE
    /\ \/ CheckForUpdates(FALSE)
       \/ /\ row \in {"checking", "downloading"}
          /\ UNCHANGED <<row, byUser, errDown, errPage, announced, checkVars, release,
                         fetching, sums, staged, worldVars, diskVars, refused>>

InTime == startup \/ "earlyClick" \in Happens

ClickCheck ==
    /\ AtRest /\ InTime
    /\ \/ row \in {"", "current"}
       \/ row = "error" /\ ~errPage /\ ~errDown
    /\ CheckForUpdates(TRUE)
    /\ UNCHANGED startup

\* The row, or its arrow, on a release that was found or whose download failed.
ClickDownload ==
    /\ AtRest /\ InTime
    /\ row = "available" \/ (row = "error" /\ ~errPage /\ errDown)
    /\ DownloadUpdate

-----------------------------------------------------------------------------
(* Answers to the check.                                                   *)

\* offerRelease(): m_latest is replaced whether or not the release is newer.
OfferRelease ==
    /\ release' = published
    /\ refused' = FALSE
    /\ IF published.version > build
       THEN /\ row' = "available"
            /\ announced' = published.version
            /\ UNCHANGED <<byUser, errDown, errPage, startup>>
       ELSE NoUpdate(TRUE)

\* The request failed, the answer made no sense, or the list had no desktop
\* release in it.
CheckFails(r) ==
    /\ AtRest
    /\ replies[r] > 0
    /\ replies' = [replies EXCEPT ![r] = @ - 1]
    /\ busy' = FALSE
    /\ NoUpdate(FALSE)
    /\ UNCHANGED <<checks, release, fetching, sums, staged, worldVars, diskVars, refused>>

\* onCheckFinished() with a desktop release, or onReleaseListFinished().
CheckAnswered(r) ==
    /\ AtRest
    /\ replies[r] > 0
    /\ r = "latest" => ~diverted
    /\ replies' = [replies EXCEPT ![r] = @ - 1]
    /\ busy' = FALSE
    /\ OfferRelease
    /\ UNCHANGED <<checks, fetching, sums, staged, worldVars, diskVars>>

\* onCheckFinished() with a release of another kind: fetchReleaseList(), which
\* is still the same check.
CheckDiverted ==
    /\ AtRest
    /\ replies["latest"] > 0
    /\ diverted
    /\ replies' = [replies EXCEPT !["latest"] = @ - 1, !["list"] = @ + 1]
    /\ busy' = TRUE
    /\ UNCHANGED <<rowVars, checks, release, fetching, sums, staged, worldVars, diskVars, refused>>

-----------------------------------------------------------------------------
(* The chain of downloads.                                                 *)

\* A reply of this stage is in, and the next stage's request goes out.
Onwards(from, to) ==
    fetching' = [fetching EXCEPT ![from] = @ - 1, ![to] = @ + 1]

FetchOver(s) == fetching' = [fetching EXCEPT ![s] = @ - 1]

\* downloadProgress turns the row to "downloading" with each piece.
Progress(s) ==
    /\ AtRest
    /\ fetching[s] > 0
    /\ row' = "downloading"
    /\ UNCHANGED <<byUser, errDown, errPage, announced, startup, checkVars, release,
                   fetching, sums, staged, worldVars, diskVars, refused>>

\* Any stage can fail: the transfer timeout sees to it when nothing else does.
\* An installer that failed, or that could not be written, leaves no file.
FetchFails(s) ==
    /\ AtRest
    /\ fetching[s] > 0
    /\ FetchOver(s)
    /\ DownloadFailed("transient")
    /\ staged' = IF s = "installer" THEN Nothing ELSE staged
    /\ UNCHANGED <<checkVars, release, sums, worldVars, diskVars>>

\* What a URL of m_latest serves: the tag's assets as they are now, which may
\* have been uploaded again since the check.
Serves == IF published.version = release.version THEN published ELSE release

\* onChecksumsFetched(): kept, and the signature asked for if there is one.
SumsFetched ==
    /\ AtRest
    /\ fetching["sums"] > 0
    /\ sums' = Serves
    /\ \/ /\ release.flaw = "unsigned"
          /\ FetchOver("sums")
          /\ DownloadFailed("refused")
       \/ /\ release.flaw # "unsigned"
          /\ Onwards("sums", "signature")
          /\ UNCHANGED <<rowVars, refused>>
    /\ UNCHANGED <<checkVars, release, staged, worldVars, diskVars>>

\* The version the manifest names; 0 is none.
ManifestVersion(m) ==
    CASE m.flaw = "unversioned" -> 0
      [] m.flaw = "crossed"     -> IF m.version = 1 THEN 2 ELSE m.version - 1
      [] OTHER                  -> m.version

\* The signature fits the manifest at hand: both of one upload, and sound.
Verifies(m) == /\ m.flaw \notin {"badSignature", "unsigned", "noSums"}
               /\ m.upload = Serves.upload

\* Mutant: any manifest that is signed will do.
ManifestIsSigned == Verifies(sums)

\* onSignatureFetched(): the signature, then the version, then the installer.
ManifestIsForTheOffer == /\ Verifies(sums)
                         /\ ManifestVersion(sums) = release.version

SignatureFetched ==
    /\ AtRest
    /\ fetching["signature"] > 0
    /\ \/ /\ ~ManifestIsForTheOffer
          /\ FetchOver("signature")
          /\ DownloadFailed("refused")
          /\ UNCHANGED staged
       \/ /\ ManifestIsForTheOffer
          /\ Onwards("signature", "installer")
          /\ staged' = Torn
          /\ UNCHANGED <<rowVars, refused>>
       \* fetchInstaller() could not create the file
       \/ /\ ManifestIsForTheOffer
          /\ FetchOver("signature")
          /\ DownloadFailed("transient")
          /\ staged' = Nothing
    /\ UNCHANGED <<checkVars, release, sums, worldVars, diskVars>>

\* onInstallerFetched(), the whole file there: its hash is the manifest's when
\* it is of the same upload and came through whole.
HashMatches == /\ Serves.flaw # "damaged"
               /\ sums # NoRelease
               /\ sums.upload = Serves.upload

InstallerFetched(whole) ==
    /\ AtRest
    /\ fetching["installer"] > 0
    /\ FetchOver("installer")
    /\ \/ /\ ~(whole /\ HashMatches)
          /\ staged' = Nothing
          /\ DownloadFailed("transient")
          /\ UNCHANGED step
       \* downloadReady: the installer is started, or could not be
       \/ /\ whole /\ HashMatches
          /\ staged' = ManifestVersion(sums)
          /\ row' = "ready"
          /\ step' = IF InstallsItself THEN "install" ELSE "no"
          /\ UNCHANGED <<byUser, errDown, errPage, announced, startup, refused>>
       \* startInstaller() failed, on Windows and on macOS
       \/ /\ whole /\ HashMatches
          /\ Platform \in {"windows", "mac"}
          /\ staged' = ManifestVersion(sums)
          /\ row' = "error"
          /\ errDown' = TRUE
          /\ UNCHANGED <<byUser, errPage, announced, startup, step, refused>>
       \* nothing to show a package with: the row offers the page
       \/ /\ whole /\ HashMatches
          /\ ShowsPackage
          /\ staged' = ManifestVersion(sums)
          /\ row' = "error"
          /\ errDown' = FALSE
          /\ errPage' = TRUE
          /\ UNCHANGED <<byUser, announced, startup, step, refused>>
    /\ UNCHANGED <<checkVars, release, sums, worldVars, current, backup, build, stranded>>

-----------------------------------------------------------------------------
(* Installing.  On Windows the program quits and the installer replaces    *)
(* it; an AppImage replaces itself.                                        *)

\* A run is over: what the process held is gone with it.
Ended ==
    /\ row' = "" /\ byUser' = FALSE /\ errDown' = FALSE /\ errPage' = FALSE
    /\ announced' = 0 /\ startup' = FALSE
    /\ busy' = FALSE /\ replies' = Fresh
    /\ release' = NoRelease /\ fetching' = NoFetch /\ sums' = NoRelease
    /\ step' = "no" /\ build' = 0 /\ refused' = FALSE

\* Quitting for the installer, which the user may still cancel.
WindowsInstalls ==
    /\ Platform = "windows"
    /\ step = "install"
    /\ current' \in {current, staged}
    /\ Ended
    /\ UNCHANGED <<staged, backup, stranded, checks, worldVars>>

\* A disk image or a package is the user's to install.
InstalledByHand ==
    /\ Platform = "mac" \/ ShowsPackage
    /\ row = "ready" /\ step = "no"
    /\ current' = staged
    /\ stranded' = "no"
    /\ UNCHANGED <<rowVars, checkVars, release, fetching, sums, staged, worldVars,
                   step, backup, build, refused>>

Doing(s, next) == /\ build # 0
                  /\ step = s
                  /\ step' = next
                  /\ UNCHANGED <<checkVars, release, fetching, sums, worldVars, refused>>

\* swapInAppImage(): remove an old .old, which may fail, then put the running
\* build aside.  No rename takes the place of a file that is there.
RemoveOldBackup ==
    /\ Platform = "appimage"
    /\ Doing("install", "aside")
    /\ backup' \in {Nothing, backup}
    /\ stranded' = IF stranded = "no" THEN "no" ELSE "retried"
    /\ UNCHANGED <<rowVars, staged, current, build>>

PutAside ==
    /\ Doing("aside", "copy")
    /\ current # Nothing /\ backup = Nothing
    /\ backup' = current
    /\ current' = Nothing
    /\ UNCHANGED <<rowVars, staged, build, stranded>>

\* failAppImageUpdate(): an error the row retries.
ApplyFailed == /\ row' = "error"
               /\ errDown' = TRUE
               /\ UNCHANGED <<byUser, errPage, announced, startup>>

AsideFails ==
    /\ Doing("aside", "no")
    /\ ApplyFailed
    /\ UNCHANGED <<staged, current, backup, build, stranded>>

CopyBegins ==
    /\ Doing("copy", "copying")
    /\ current' = Torn
    /\ UNCHANGED <<rowVars, staged, backup, build, stranded>>

CopyDone ==
    /\ Doing("copying", "start")
    /\ current' = staged
    /\ UNCHANGED <<rowVars, staged, backup, build, stranded>>

\* The copy failed, or could not be made executable; restoreAppImage() begins.
CopyFails ==
    /\ Doing("copying", "restore")
    /\ UNCHANGED <<rowVars, staged, current, backup, build, stranded>>

\* The replacement started: what is left over goes if it can, and this one quits.
StartedRemoveBackup ==
    /\ Doing("start", "leave")
    /\ backup' \in {Nothing, backup}
    /\ UNCHANGED <<rowVars, staged, current, build, stranded>>

StartedQuit ==
    /\ step = "leave"
    /\ staged' \in {Nothing, staged}
    /\ Ended
    /\ UNCHANGED <<current, backup, stranded, checks, worldVars>>

StartFails ==
    /\ Doing("start", "restore")
    /\ UNCHANGED <<rowVars, staged, current, backup, build, stranded>>

\* restoreAppImage(): remove what is there, then rename the build back.  Either
\* may fail and nobody looks; the row says the same.
RestoreRemoves ==
    /\ Doing("restore", "back")
    /\ current' \in {Nothing, current}
    /\ UNCHANGED <<rowVars, staged, backup, build, stranded>>

RestoreRenames ==
    /\ Doing("back", "no")
    /\ ApplyFailed
    /\ \/ /\ current = Nothing
          /\ current' = backup
          /\ backup' = Nothing
          /\ UNCHANGED stranded
       \/ /\ stranded' = IF stranded = "no" THEN "kept" ELSE stranded
          /\ UNCHANGED <<current, backup>>
    /\ UNCHANGED <<staged, build>>

-----------------------------------------------------------------------------
(* The program ends and starts again; releases are published.              *)

\* The user quits, or the program is killed in the middle of a swap.
Ends ==
    /\ build # 0
    /\ step = "no" \/ "crash" \in Happens
    /\ Ended
    /\ UNCHANGED <<staged, current, backup, stranded, checks, worldVars>>

\* Started from the file the user starts it from, if that is a whole program.
Start ==
    /\ build = 0
    /\ Whole(current)
    /\ build' = current
    /\ stranded' = "no"
    /\ UNCHANGED <<rowVars, checkVars, release, fetching, sums, staged, worldVars,
                   step, current, backup, refused>>

Publish ==
    /\ published.version < MaxVersion
    /\ \E f \in Flaws : published' = [version |-> published.version + 1, flaw |-> f, upload |-> 0]
    /\ UNCHANGED <<rowVars, checkVars, release, fetching, sums, staged, diverted,
                   uploads, diskVars, refused>>

\* The assets of the release are uploaded again, rightly this time.
Reupload ==
    /\ uploads < MaxUploads
    /\ published.flaw # "none"
    /\ uploads' = uploads + 1
    /\ published' = [published EXCEPT !.flaw = "none", !.upload = uploads + 1]
    /\ UNCHANGED <<rowVars, checkVars, release, fetching, sums, staged, diverted,
                   diskVars, refused>>

\* A release of another kind becomes the latest.
Divert ==
    /\ uploads < MaxUploads
    /\ ~diverted
    /\ uploads' = uploads + 1
    /\ diverted' = TRUE
    /\ UNCHANGED <<rowVars, checkVars, release, fetching, sums, staged, published,
                   diskVars, refused>>

Clicks == ClickCheck \/ ClickDownload

Checks == \/ \E r \in Requests : CheckFails(r) \/ CheckAnswered(r)
          \/ CheckDiverted

Fetches == \/ \E s \in Stages : Progress(s) \/ FetchFails(s)
           \/ SumsFetched
           \/ SignatureFetched
           \/ \E whole \in BOOLEAN : InstallerFetched(whole)

Installs == \/ WindowsInstalls \/ InstalledByHand \/ RemoveOldBackup \/ PutAside \/ AsideFails
            \/ CopyBegins \/ CopyDone \/ CopyFails
            \/ StartedRemoveBackup \/ StartedQuit \/ StartFails
            \/ RestoreRemoves \/ RestoreRenames

World == Ends \/ Start \/ Publish \/ Reupload \/ Divert

UpdateNext == StartupCheck \/ Clicks \/ Checks \/ Fetches \/ Installs \/ World

UpdateSpec == UpdateInit /\ [][UpdateNext]_update_vars

-----------------------------------------------------------------------------
(* What must be right.                                                     *)

UpdateTypeOK ==
    /\ row \in {"", "checking", "current", "available", "downloading", "error", "ready"}
    /\ {byUser, errDown, errPage, startup, busy, diverted} \subseteq BOOLEAN
    /\ announced \in 0 .. MaxVersion
    /\ replies \in [Requests -> 0 .. 1] /\ fetching \in [Stages -> 0 .. 1]
    /\ release \in Release \union {NoRelease} /\ sums \in Release \union {NoRelease}
    /\ published \in Release /\ uploads \in 0 .. MaxUploads
    /\ {staged, current, backup} \subseteq 0 .. Torn /\ build \in 0 .. MaxVersion
    /\ step \in {"no", "install", "aside", "copy", "copying", "start", "leave",
                 "restore", "back"}
    /\ checks \in 0 .. MaxChecks /\ refused \in BOOLEAN
    /\ stranded \in {"no", "kept", "retried"}

\* At most one download is under way, and the row says so while it is: another
\* offer of it in the middle would start a second one into the staging file of
\* the first (UpdateChecker.cpp:237-243, BackendUpdates.cpp:369-371).
OneDownload ==
    LET n == fetching["sums"] + fetching["signature"] + fetching["installer"]
    IN n <= 1 /\ (n = 1 => row = "downloading")

\* What is handed to an installer, or started in the place of the running AppImage,
\* is whole, is the version the row announced, and is newer than what runs
\* (UpdateChecker.cpp:542-568, 640-651).
OnlyTheOffered ==
    /\ row = "ready" => staged = announced /\ announced > build
    /\ step \in {"start", "leave"} => current = announced /\ announced > build

\* Whatever fails or is killed during a swap, and the way back (restoreAppImage,
\* BackendUpdates.cpp:68-72) may fail too, a whole program is left on disk, until a
\* swap is tried again after a way back that failed: that one begins by removing the
\* .old (BackendUpdates.cpp:82).  As long as no way back failed, a swap that is over,
\* done or not, leaves it where the user starts it from (BackendUpdates.cpp:74-93).
BuildSurvives ==
    /\ stranded # "retried" => Whole(current) \/ Whole(backup)
    /\ stranded = "no" /\ build # 0 /\ step = "no" => Whole(current)

\* A download that was refused is never tried again with the release that check
\* found, only with what a later check finds (BackendUpdates.cpp:284-287).
RefusedIsNotRetried ==
    fetching'["sums"] > fetching["sums"] => ~refused

\* InstallsWhatWasOffered.  Over checks that overlap, releases replaced meanwhile and flaws of
\* each kind, one download is under way and only the version offered is installed or started;
\* and a swap in which any file operation fails or the program is killed leaves a whole
\* program, short of a second swap after a way back that failed (UpdateChecker.cpp,
\* swapInAppImage and restoreAppImage, BackendUpdates.cpp:68-93).
InstallsWhatWasOffered == OneDownload /\ OnlyTheOffered /\ BuildSurvives
=============================================================================
