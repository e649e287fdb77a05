---------------------------- MODULE MCProcesses ----------------------------
(* The processes of FreeTunnel, on small instances, one component at a time: the
   launches of the application, its updates, the helper it starts and serves as
   a Windows service, and the Android VPN service.  The launches, the updates and
   the Android service are extended: their constants are the configuration's,
   their properties are their own, and they rest in an initial state while
   another component is looked at. *)
EXTENDS AndroidTunnel, AppUpdate, SingleInstance

CONSTANTS p1, p2, p3

VARIABLES
    part,  \* the component looked at, the same throughout
    gui, attempt, way, launcher, tries, tokenPath, files, old, prompts, helper, service,
    main, control, app, quitPosted, told, stopRequested, exitCode, status,
    starts

startsVars == <<gui, attempt, way, launcher, tries, tokenPath, files, old, prompts,
    helper, service>>
serviceVars == <<main, control, app, quitPosted, told, stopRequested,
    exitCode, status, starts>>

\* What other accounts hold: nothing, or the name in /tmp, silent, and the shared one.
NothingForeign == <<>>
TempIsMute == [n \in {"temp", "shared"} |-> IF n = "temp" THEN "mute" ELSE "open"]

OneOnMac == INSTANCE SingleInstance WITH
    BusyIsRefused <- TRUE, Incidents <- {"busy", "crash"}
NewBuilds == INSTANCE SingleInstance WITH
    Incidents <- {"update", "login", "crash"}
OtherAccounts == INSTANCE SingleInstance WITH
    Foreign <- TempIsMute, Incidents <- {"login", "busy", "lock"}
RowOnMac == INSTANCE AppUpdate WITH
    Platform <- "mac", MaxVersion <- 3, MaxChecks <- 3, MaxUploads <- 1,
    Happens <- {}
Swap == INSTANCE AppUpdate WITH
    Platform <- "appimage", MaxVersion <- 3, MaxChecks <- 2, MaxUploads <- 1,
    Happens <- {"crash"}
SwapUnpacked == INSTANCE AppUpdate WITH
    Platform <- "appimage", MaxVersion <- 2, MaxChecks <- 2, MaxUploads <- 0,
    Happens <- {"crash", "unpacked"}
StartOnLinux == INSTANCE HelperStart WITH
    Platform <- "linux", Installed <- FALSE, MaxTries <- 3, MaxAttempts <- 3,
    Happens <- {}
StartOnWindows == INSTANCE HelperStart WITH
    Platform <- "windows", Installed <- TRUE, MaxTries <- 3,
    MaxAttempts <- 3, Happens <- {"other account"}
StartOnMac == INSTANCE HelperStart WITH
    Platform <- "mac", Installed <- FALSE, MaxTries <- 3, MaxAttempts <- 3,
    Happens <- {}
StartAfterCrash == INSTANCE HelperStart WITH
    Platform <- "linux", Installed <- FALSE, MaxTries <- 2, MaxAttempts <- 3,
    Happens <- {"crash"}
Service == INSTANCE HelperService WITH
    MaxStarts <- 3
AndroidGeo == INSTANCE AndroidTunnel WITH
    Kinds <- {"reconnect", "always_on"}, Configs <- {"home"},
    KillSwitches <- {TRUE}, GeoOn <- TRUE, MaxStarts <- 2, MaxReports <- 1,
    MaxFaults <- 1, MaxEvents <- 2

-----------------------------------------------------------------------------
\* What a component leaves out when another one is looked at.
Absent == "nothing"
NoStarts ==
    /\ gui = Absent /\ attempt = Absent /\ way = Absent
    /\ launcher = Absent /\ tries = Absent /\ files = Absent
    /\ old = Absent /\ helper = Absent /\ service = Absent
    /\ tokenPath = Absent /\ prompts = Absent
NoService ==
    /\ main = Absent /\ control = Absent /\ app = Absent
    /\ quitPosted = Absent /\ told = Absent /\ stopRequested = Absent
    /\ exitCode = Absent /\ status = Absent /\ starts = Absent

SuiteInit ==
    \/ /\ \/ part = "launches" /\ LaunchInit
          \/ part = "launches on macOS" /\ OneOnMac!LaunchInit
          \/ part = "new builds" /\ NewBuilds!LaunchInit
          \/ part = "other accounts" /\ OtherAccounts!LaunchInit
       /\ UpdateInit /\ NoStarts /\ NoService /\ Init
    \/ /\ \/ part = "update" /\ UpdateInit
          \/ part = "update on macOS" /\ RowOnMac!UpdateInit
          \/ part = "swap" /\ Swap!UpdateInit
          \/ part = "swap, unpacked" /\ SwapUnpacked!UpdateInit
       /\ LaunchInit /\ NoStarts /\ NoService /\ Init
    \/ /\ \/ part = "start on Linux" /\ StartOnLinux!Init
          \/ part = "start on Windows" /\ StartOnWindows!Init
          \/ part = "start on macOS" /\ StartOnMac!Init
          \/ part = "start after a crash" /\ StartAfterCrash!Init
       /\ LaunchInit /\ UpdateInit /\ NoService /\ Init
    \/ /\ part = "service" /\ Service!Init
       /\ LaunchInit /\ UpdateInit /\ NoStarts /\ Init
    \/ /\ \/ part = "android" /\ Init
          \/ part = "android geo" /\ AndroidGeo!Init
       /\ LaunchInit /\ UpdateInit /\ NoStarts /\ NoService

SuiteNext ==
    \/ /\ \/ part = "launches" /\ LaunchNext
          \/ part = "launches on macOS" /\ OneOnMac!LaunchNext
          \/ part = "new builds" /\ NewBuilds!LaunchNext
          \/ part = "other accounts" /\ OtherAccounts!LaunchNext
       /\ UNCHANGED <<part, update_vars, startsVars, serviceVars, vars>>
    \/ /\ \/ part = "update" /\ UpdateNext
          \/ part = "update on macOS" /\ RowOnMac!UpdateNext
          \/ part = "swap" /\ Swap!UpdateNext
          \/ part = "swap, unpacked" /\ SwapUnpacked!UpdateNext
       /\ UNCHANGED <<part, launch_vars, startsVars, serviceVars, vars>>
    \/ /\ \/ part = "start on Linux" /\ StartOnLinux!Next
          \/ part = "start on Windows" /\ StartOnWindows!Next
          \/ part = "start on macOS" /\ StartOnMac!Next
          \/ part = "start after a crash" /\ StartAfterCrash!Next
       /\ UNCHANGED <<part, launch_vars, update_vars, serviceVars, vars>>
    \/ /\ part = "service" /\ Service!Next
       /\ UNCHANGED <<part, launch_vars, update_vars, startsVars, vars>>
    \/ /\ \/ part = "android" /\ Next
          \/ part = "android geo" /\ AndroidGeo!Next
       /\ UNCHANGED <<part, launch_vars, update_vars, startsVars, serviceVars>>

suite_vars == <<part, launch_vars, update_vars, startsVars, serviceVars, vars>>
SuiteSpec == SuiteInit /\ [][SuiteNext]_suite_vars

-----------------------------------------------------------------------------
ASSUME /\ OneOnMac!SingleInstanceAssumption
       /\ NewBuilds!SingleInstanceAssumption /\ OtherAccounts!SingleInstanceAssumption
       /\ RowOnMac!UpdateAssumption
       /\ Swap!UpdateAssumption /\ SwapUnpacked!UpdateAssumption
       /\ StartOnLinux!StartAssumption /\ StartOnWindows!StartAssumption
       /\ StartOnMac!StartAssumption /\ StartAfterCrash!StartAssumption
       /\ Service!ServiceAssumption /\ AndroidGeo!AndroidAssumption

\* NothingForTheLate.  An answer that comes after its attempt was given up does nothing: a
\* prompt starts no helper, tries are spent only on a launcher or a helper that may still
\* answer, what several crashes leave of token files goes once it is old and not before, a
\* refused download is not made again, and a launch gives way to this user's instance only,
\* and is acted on by the one it was handed to; no token of an attempt that is over is left,
\* and a service's stop is lost to no start under way and posted to no application that is
\* gone (VpnHelperClient, downloadLatest, handleInstanceConnection, onServiceControl).
NothingForTheLate ==
    /\ [](/\ part = "start on Linux" =>
                 StartOnLinux!TypeOK /\ StartOnLinux!NoTokenLeft /\ StartOnLinux!GivesUpTheDead
          /\ part = "start on Windows" =>
                 StartOnWindows!NoTokenLeft /\ StartOnWindows!GivesUpTheDead
          /\ part = "start after a crash" =>
                 StartAfterCrash!TypeOK /\ StartAfterCrash!NoTokenLeft
          /\ part = "service" =>
                 Service!TypeOK /\ Service!PostsToTheLiving /\ Service!NoStopIsLost
          /\ part = "update" => UpdateTypeOK
          /\ part = "launches" => LaunchTypeOK /\ ForwardedIsRun
          /\ part = "new builds" => NewBuilds!LaunchTypeOK
          /\ part = "android" => TypeOK)
    /\ [][/\ part = "start on Linux" =>
                 StartOnLinux!NoTokenForTheLate /\ StartOnLinux!TriesAreForTheSlow
          /\ part = "start on Windows" =>
                 StartOnWindows!NoTokenForTheLate /\ StartOnWindows!TriesAreForTheSlow
          /\ part = "start on macOS" =>
                 StartOnMac!NoTokenForTheLate /\ StartOnMac!TriesAreForTheSlow
          /\ part = "start after a crash" =>
                 StartAfterCrash!RestartTakesTheDead /\ StartAfterCrash!TriesAreForTheSlow
          /\ part = "update" => RefusedIsNotRetried
          /\ part = "update on macOS" => RowOnMac!RefusedIsNotRetried
          /\ part = "other accounts" => OtherAccounts!GivesWayToOurs]_suite_vars
=============================================================================
