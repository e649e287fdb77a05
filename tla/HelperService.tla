---------------------------- MODULE HelperService ----------------------------
(***************************************************************************)
(* The helper as a Windows service: ServiceMain runs the helper on its own *)
(* thread, and the service control manager calls the control handler on    *)
(* the dispatcher's.  A stop may come before there is an application to    *)
(* quit, while it runs, or while it is being destroyed; g_appMutex,        *)
(* g_app and g_stopRequested are what the one thread tells the other.      *)
(***************************************************************************)
EXTENDS Naturals

CONSTANT MaxStarts      \* bound: starts of the service

ServiceAssumption == MaxStarts \in Nat

ExitCodes == {0, 2, 3, 4}
Failures == ExitCodes \ {0}

VARIABLES
    main,           \* where ServiceMain is
    control,        \* where the control handler is
    app,            \* the QCoreApplication: "none", "alive", "destroyed"
    quitPosted,     \* a quit is queued for its event loop
    told,           \* g_app # nullptr
    stopRequested,  \* g_stopRequested
    exitCode,       \* what runVpnHelper() returned
    status,         \* the last SetServiceStatus, and its exit code
    starts          \* how often the service was started

globals == <<app, quitPosted, told, stopRequested>>
vars == <<main, control, globals, exitCode, status, starts>>

States == {"RUNNING", "STOP_PENDING", "STOPPED"}

TypeOK ==
    /\ main \in {"none", "entered", "made", "preparing", "serving", "left", "untold",
                 "destroyed", "returned"}
    /\ control \in {"none", "called", "waiting", "noted", "posting"}
    /\ app \in {"none", "alive", "destroyed"}
    /\ {quitPosted, told, stopRequested} \subseteq BOOLEAN
    /\ exitCode \in ExitCodes
    /\ status \in States \X ExitCodes
    /\ starts \in 0..MaxStarts
    /\ told => app = "alive"

Init ==
    /\ main = "none" /\ control = "none" /\ app = "none"
    /\ quitPosted = FALSE /\ told = FALSE /\ stopRequested = FALSE
    /\ exitCode = 0 /\ status = <<"STOPPED", 0>> /\ starts = 0

-----------------------------------------------------------------------------
(* The lock.  The handler holds it from "noted" on; the other thread's     *)
(* critical sections are single steps.                                     *)

MutexFree == control \notin {"noted", "posting"}

(* serviceMain()                                                           *)

StartService ==
    /\ main = "none" /\ status[1] = "STOPPED" /\ starts < MaxStarts
    /\ main' = "entered" /\ status' = <<"RUNNING", 0>> /\ starts' = starts + 1
    /\ UNCHANGED <<control, globals, exitCode>>

MakeApp ==
    /\ main = "entered"
    /\ main' = "made" /\ app' = "alive"
    /\ UNCHANGED <<control, quitPosted, told, stopRequested, exitCode, status, starts>>

QuitsIfStopped == quitPosted' = (quitPosted \/ stopRequested)

(* The appLifetime callback: the application is there.                     *)
TellApp ==
    /\ main = "made" /\ MutexFree
    /\ main' = "preparing" /\ told' = TRUE
    /\ QuitsIfStopped
    /\ UNCHANGED <<control, app, stopRequested, exitCode, status, starts>>

(* Its runtime, its arguments or its port is not as it has to be.          *)
RunFails(code) ==
    /\ main = "preparing"
    /\ main' = "left" /\ exitCode' = code
    /\ UNCHANGED <<control, globals, status, starts>>

Exec ==
    /\ main = "preparing"
    /\ main' = "serving" /\ exitCode' = 0
    /\ UNCHANGED <<control, globals, status, starts>>

(* The event loop comes to the quit.                                       *)
Quits ==
    /\ main = "serving" /\ quitPosted
    /\ main' = "left"
    /\ UNCHANGED <<control, globals, exitCode, status, starts>>

(* Its GUI went, or nobody authenticated in a minute.                      *)
Leaves ==
    /\ main = "serving" /\ ~quitPosted
    /\ main' = "left"
    /\ UNCHANGED <<control, globals, exitCode, status, starts>>

ForgetsTheApp == told' = FALSE

(* ~AppLifetime, before the application is destroyed.                      *)
UntellApp ==
    /\ main = "left" /\ MutexFree
    /\ main' = "untold" /\ ForgetsTheApp
    /\ UNCHANGED <<control, app, quitPosted, stopRequested, exitCode, status, starts>>

DestroyApp ==
    /\ main = "untold"
    /\ main' = "destroyed" /\ app' = "destroyed" /\ quitPosted' = FALSE
    /\ UNCHANGED <<control, told, stopRequested, exitCode, status, starts>>

ReportStopped ==
    /\ main = "destroyed"
    /\ main' = "returned" /\ status' = <<"STOPPED", exitCode>>
    /\ UNCHANGED <<control, globals, exitCode, starts>>

(* The dispatcher returns and the process ends, once no handler runs on    *)
(* its thread; the manager keeps the code unless a stop was reported since.*)
ProcessEnds ==
    /\ main = "returned" /\ control = "none"
    /\ main' = "none" /\ app' = "none"
    /\ quitPosted' = FALSE /\ told' = FALSE /\ stopRequested' = FALSE /\ exitCode' = 0
    /\ status' = <<"STOPPED", status[2]>>
    /\ UNCHANGED <<control, starts>>

-----------------------------------------------------------------------------
(* onServiceControl(): only a service that reported RUNNING is asked.      *)

StopAsked ==
    /\ control = "none" /\ status[1] = "RUNNING"
    /\ control' = "called"
    /\ UNCHANGED <<main, globals, exitCode, status, starts>>

ReportPending ==
    /\ control = "called"
    /\ control' = "waiting" /\ status' = <<"STOP_PENDING", 0>>
    /\ UNCHANGED <<main, globals, exitCode, starts>>

NoteStop ==
    /\ control = "waiting"
    /\ control' = "noted" /\ stopRequested' = TRUE
    /\ UNCHANGED <<main, app, quitPosted, told, exitCode, status, starts>>

FindApp ==
    /\ control = "noted"
    /\ control' = IF told THEN "posting" ELSE "none"
    /\ UNCHANGED <<main, globals, exitCode, status, starts>>

QuitHelper ==
    /\ control = "posting"
    /\ control' = "none" /\ quitPosted' = TRUE
    /\ UNCHANGED <<main, app, told, stopRequested, exitCode, status, starts>>

ServiceMain ==
    \/ MakeApp \/ TellApp \/ (\E code \in Failures : RunFails(code)) \/ Exec \/ Quits
    \/ Leaves \/ UntellApp \/ DestroyApp \/ ReportStopped \/ ProcessEnds

OnServiceControl == ReportPending \/ NoteStop \/ FindApp \/ QuitHelper

Next == StartService \/ StopAsked \/ ServiceMain \/ OnServiceControl

Spec == Init /\ [][Next]_vars

-----------------------------------------------------------------------------
(* A stop is posted to a living application: the handler that found one    *)
(* still finds it there when it posts, however the helper is leaving.      *)
PostsToTheLiving == control = "posting" => app = "alive"

(* No stop is lost: once the handler has done its part, a helper that has  *)
(* told of its application, before the stop or only after it, has a quit   *)
(* waiting for its event loop.                                             *)
NoStopIsLost ==
    stopRequested /\ MutexFree /\ main \in {"preparing", "serving"} => quitPosted
=============================================================================
