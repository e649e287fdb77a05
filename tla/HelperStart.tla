----------------------------- MODULE HelperStart -----------------------------
(***************************************************************************)
(* How the elevated helper is brought up (VpnHelperClient).  The GUI puts  *)
(* a token in a file, has a launcher ask for administrator rights - pkexec *)
(* and then sudo, osascript, the Windows service or UAC - and dials until  *)
(* a helper that has read the token answers.  The user may answer a prompt *)
(* at any time, give up meanwhile and try again; a helper outlives the     *)
(* attempt it was started for.                                             *)
(***************************************************************************)
EXTENDS Integers, FiniteSets

CONSTANTS
    Platform,       \* "linux", "mac", "windows"
    Installed,      \* the Windows service of this very install is registered
    MaxTries,       \* 240, a quarter of a second apart
    MaxAttempts,    \* bound: attempts
    Happens         \* what happens: "crash", "other account"

StartAssumption ==
    /\ Platform \in {"linux", "mac", "windows"} /\ Installed \in BOOLEAN
    /\ MaxTries \in Nat /\ MaxAttempts \in Nat

Attempts == 1..MaxAttempts
Nobody == 0
OtherAccount == MaxAttempts + 1

VARIABLES
    gui,        \* "idle", "spawning" (blocked), "polling", "up", "down"
    attempt,    \* the attempt made last
    way,        \* what it is launched by
    launcher,   \* its prompt: "none", "asking", "granted", "refused", "ended"
    tries,      \* m_tries
    tokenPath,  \* m_tokenPath: the attempt whose file this process knows of
    files,      \* attempts whose token file is there
    old,        \* those of them older than five minutes
    prompts,    \* attempts whose prompt outlived the GUI that asked
    helper,     \* the process started for an attempt
    service     \* for whom the Windows service runs

gui_vars == <<gui, attempt, way, launcher, tries>>
file_vars == <<tokenPath, files, old>>
vars == <<gui_vars, file_vars, prompts, helper, service>>

TypeOK ==
    /\ gui \in {"idle", "spawning", "polling", "up", "down"}
    /\ attempt \in 0..MaxAttempts
    /\ way \in {"none", "pkexec", "sudo", "osascript", "service", "uac"}
    /\ launcher \in {"none", "asking", "granted", "refused", "ended"}
    /\ tries \in 0..MaxTries
    /\ old \subseteq files /\ files \subseteq Attempts /\ tokenPath \in files \cup {Nobody}
    /\ prompts \subseteq Attempts
    /\ helper \in [Attempts ->
                   {"none", "starting", "informed", "listening", "serving", "gone"}]
    /\ service \in 0..OtherAccount
    /\ gui \in {"spawning", "polling"} => tokenPath = attempt
    /\ gui = "up" <=> \E n \in Attempts : helper[n] = "serving"

-----------------------------------------------------------------------------
(* What an attempt begins and ends with.                                   *)

FirstWay == CASE Platform = "linux" -> "pkexec"
              [] Platform = "mac" -> "osascript"
              [] OTHER -> "service"

(* configureProductionHelper(): the file this process knows of goes, if    *)
(* it knows of one, a new one comes, and the launcher asks.                *)
Connect ==
    /\ gui = "idle" /\ attempt < MaxAttempts
    /\ attempt' = attempt + 1
    /\ files' = (files \ {tokenPath}) \cup {attempt + 1}
    /\ old' = old \ {tokenPath}
    /\ tokenPath' = attempt + 1
    /\ way' = FirstWay
    /\ launcher' = IF Platform = "windows" THEN "none" ELSE "asking"
    /\ tries' = 0
    /\ gui' = IF Platform = "mac" THEN "polling" ELSE "spawning"
    /\ UNCHANGED <<prompts, helper, service>>

KeepsToken == UNCHANGED file_vars
ClearTokenFile ==
    files' = files \ {tokenPath} /\ old' = old \ {tokenPath} /\ tokenPath' = Nobody

(* abortStartup() kills the launcher: a prompt goes away, a helper that is *)
(* root by now does not.                                                   *)
AbortStartup ==
    /\ gui' = "idle"
    /\ launcher' = "none"
    /\ ClearTokenFile
    /\ UNCHANGED <<attempt, way, tries, prompts, helper, service>>

-----------------------------------------------------------------------------
(* The launchers.                                                          *)

(* pkexec that ended within its first second is followed by sudo.          *)
TriesSudo ==
    /\ gui = "spawning" /\ way = "pkexec" /\ launcher \in {"refused", "ended"}
    /\ way' = "sudo"
    /\ launcher' = "asking"
    /\ gui' = "polling"
    /\ UNCHANGED <<attempt, tries, file_vars, prompts, helper, service>>

PkexecStays ==
    /\ gui = "spawning" /\ way = "pkexec" /\ launcher \in {"asking", "granted"}
    /\ gui' = "polling"
    /\ UNCHANGED <<attempt, way, launcher, tries, file_vars, prompts, helper, service>>

(* There is no sudo to follow pkexec, or UAC was declined.                 *)
SpawnFails ==
    /\ gui = "spawning" /\ way \in {"pkexec", "uac"}
    /\ launcher \in {"refused", "ended"}
    /\ AbortStartup

StartsService ==
    /\ gui = "spawning" /\ way = "service" /\ Installed
    /\ service = Nobody
    /\ service' = attempt
    /\ helper' = [helper EXCEPT ![attempt] = "starting"]
    /\ gui' = "polling"
    /\ UNCHANGED <<attempt, way, launcher, tries, file_vars, prompts>>

(* The service is not installed, belongs to another copy, is still running *)
(* after kServiceBusyWaitMs, or cannot be opened, asked or started.        *)
AsksUac ==
    /\ gui = "spawning" /\ way = "service"
    /\ way' = "uac"
    /\ launcher' = "asking"
    /\ UNCHANGED <<gui, attempt, tries, file_vars, prompts, helper, service>>

(* ShellExecuteExW() returns when UAC was answered.                        *)
UacGranted ==
    /\ gui = "spawning" /\ way = "uac" /\ launcher = "granted"
    /\ gui' = "polling"
    /\ UNCHANGED <<attempt, way, launcher, tries, file_vars, prompts, helper, service>>

(* The user.                                                               *)
Grants ==
    /\ launcher = "asking"
    /\ launcher' = "granted"
    /\ helper' = [helper EXCEPT ![attempt] = "starting"]
    /\ UNCHANGED <<gui, attempt, way, tries, file_vars, prompts, service>>

Refuses ==
    /\ launcher = "asking"
    /\ launcher' = "refused"
    /\ UNCHANGED <<gui, attempt, way, tries, file_vars, prompts, helper, service>>

(* A prompt outlives the GUI that crashed, and the next one's attempts.    *)
AnswersLate(n) ==
    /\ n \in prompts
    /\ prompts' = prompts \ {n}
    /\ \/ helper' = [helper EXCEPT ![n] = "starting"]
       \/ UNCHANGED helper
    /\ UNCHANGED <<gui_vars, file_vars, service>>

-----------------------------------------------------------------------------
(* The helper.                                                             *)

(* pkexec and sudo became the helper and end with it; osascript put it in  *)
(* the background and is done.                                             *)
EndsLauncher(n) ==
    IF Platform = "linux" /\ n = attempt /\ launcher = "granted"
    THEN "ended" ELSE launcher

Leaves(n) ==
    /\ helper' = [helper EXCEPT ![n] = "gone"]
    /\ service' = IF service = n THEN Nobody ELSE service
    /\ launcher' = EndsLauncher(n)

(* parseHelperLaunchArgs(): no token, no start.                            *)
ReadsToken(n) ==
    /\ helper[n] = "starting"
    /\ IF n \in files
       THEN helper' = [helper EXCEPT ![n] = "informed"] /\ UNCHANGED <<service, launcher>>
       ELSE Leaves(n)
    /\ UNCHANGED <<gui, attempt, way, tries, file_vars, prompts>>

Listens(n) ==
    /\ helper[n] = "informed"
    /\ \/ helper' = [helper EXCEPT ![n] = "listening"] /\ UNCHANGED <<service, launcher>>
       \/ Leaves(n)     \* the port is taken
    /\ UNCHANGED <<gui, attempt, way, tries, file_vars, prompts>>

(* A helper nobody authenticated within a minute leaves.                   *)
UnauthenticatedExit(n) ==
    /\ helper[n] = "listening"
    /\ Leaves(n)
    /\ UNCHANGED <<gui, attempt, way, tries, file_vars, prompts>>

-----------------------------------------------------------------------------
(* The GUI while it dials.                                                 *)

(* handleReadyEvent(): the token file has done its work.                   *)
HelperReady ==
    /\ gui = "polling" /\ helper[attempt] = "listening"
    /\ gui' = "up"
    /\ helper' = [helper EXCEPT ![attempt] = "serving"]
    /\ ClearTokenFile
    /\ UNCHANGED <<attempt, way, launcher, tries, prompts, service>>

(* watchElevationOutcome(): on macOS only an error says anything.          *)
Heard == launcher = "refused" \/ (launcher = "ended" /\ Platform # "mac")

LauncherFinished ==
    /\ gui = "polling" /\ Heard
    /\ AbortStartup

StoppedEarly == way = "service" /\ service = Nobody

HelperServiceStopped ==
    /\ gui = "polling" /\ StoppedEarly
    /\ AbortStartup

(* A launcher's end is heard before the next try.                          *)
Tries ==
    /\ gui = "polling" /\ helper[attempt] # "listening"
    /\ ~Heard /\ ~StoppedEarly

TriesAgain ==
    /\ Tries /\ tries < MaxTries
    /\ tries' = tries + 1
    /\ UNCHANGED <<gui, attempt, way, launcher, file_vars, prompts, helper, service>>

OutOfTries ==
    /\ Tries /\ tries = MaxTries
    /\ AbortStartup

(* disconnectVpn() before the helper is ready.                             *)
Cancel ==
    /\ gui = "polling"
    /\ AbortStartup

(* shutdown() and quit, or the link lost: the helper leaves with its GUI.  *)
HelperGoes ==
    /\ gui = "up"
    /\ gui' = "idle"
    /\ Leaves(attempt)
    /\ UNCHANGED <<attempt, way, tries, file_vars, prompts>>

-----------------------------------------------------------------------------
(* The machine around them.                                                *)

(* The launcher and the helper it has started are processes of their own;  *)
(* what this process knew of them is gone.                                 *)
Crash ==
    /\ "crash" \in Happens
    /\ gui # "down"
    /\ gui' = "down"
    /\ tokenPath' = Nobody
    /\ launcher' = "none"
    /\ prompts' = IF launcher = "asking" THEN prompts \cup {attempt} ELSE prompts
    /\ helper' = IF gui = "up" THEN [helper EXCEPT ![attempt] = "gone"] ELSE helper
    /\ service' = IF gui = "up" /\ service = attempt THEN Nobody ELSE service
    /\ UNCHANGED <<attempt, way, tries, files, old>>

RemovesOld == files' = files \ old /\ old' = {}

(* removeStaleTokenFiles(), as the next GUI starts.                        *)
Restart ==
    /\ gui = "down"
    /\ gui' = "idle"
    /\ RemovesOld
    /\ UNCHANGED <<attempt, way, launcher, tries, tokenPath, prompts, helper, service>>

FiveMinutesPass ==
    /\ gui \in {"idle", "down"}
    /\ old # files
    /\ \A n \in Attempts : helper[n] \in {"none", "serving", "gone"}
    /\ old' = files
    /\ UNCHANGED <<gui_vars, tokenPath, files, prompts, helper, service>>

OtherAccountUses ==
    /\ "other account" \in Happens
    /\ service' = IF service = Nobody THEN OtherAccount ELSE Nobody
    /\ service \in {Nobody, OtherAccount}
    /\ UNCHANGED <<gui_vars, file_vars, prompts, helper>>

Init ==
    /\ gui = "idle" /\ attempt = 0 /\ way = "none" /\ launcher = "none" /\ tries = 0
    /\ tokenPath = Nobody /\ files = {} /\ old = {} /\ prompts = {}
    /\ helper = [n \in Attempts |-> "none"]
    /\ service = Nobody

Helper(n) == ReadsToken(n) \/ Listens(n) \/ UnauthenticatedExit(n)

Next ==
    \/ Connect \/ TriesSudo \/ PkexecStays \/ SpawnFails
    \/ StartsService \/ AsksUac \/ UacGranted
    \/ Grants \/ Refuses
    \/ \E n \in Attempts : Helper(n) \/ AnswersLate(n)
    \/ HelperReady \/ LauncherFinished \/ HelperServiceStopped
    \/ TriesAgain \/ OutOfTries \/ Cancel \/ HelperGoes
    \/ Crash \/ Restart \/ FiveMinutesPass \/ OtherAccountUses

Spec == Init /\ [][Next]_vars

-----------------------------------------------------------------------------
UnderWay(n) == n = attempt /\ gui \in {"spawning", "polling"}

(* "Deleting the token file makes a helper that has not read it yet exit   *)
(* immediately": a prompt answered after its attempt was given up starts   *)
(* nothing, whatever other attempts, of this GUI or of one before it,      *)
(* did meanwhile.  Only a crash leaves the file, for a helper nobody can   *)
(* reach.                                                                  *)
NoTokenForTheLate ==
    \A n \in Attempts :
        (helper[n] = "starting" /\ helper'[n] = "informed")
            => (UnderWay(n) \/ "crash" \in Happens)

(* A cancelled prompt used to look "exactly like a slow one": a try is     *)
(* spent only while somebody may still answer a prompt or the helper is    *)
(* on its way.  The exceptions are those nobody watches: osascript, which  *)
(* has put the helper in the background, UAC, and a service that another   *)
(* account took at once.                                                   *)
TriesAreForTheSlow ==
    tries' > tries =>
        \/ launcher = "asking"
        \/ helper[attempt] \in {"starting", "informed"}
        \/ Platform = "mac" \/ way = "uac" \/ service = OtherAccount

(* An attempt that is given up on the word of its launcher, or of the      *)
(* service, has no helper that could still come.                           *)
GivesUpTheDead ==
    gui = "polling" /\ (Heard \/ StoppedEarly) => helper[attempt] \in {"none", "gone"}

(* A token is a file of the attempt under way: however an attempt ends,    *)
(* the file goes with it, and only a crash leaves one behind.              *)
NoTokenLeft ==
    /\ tokenPath # Nobody => UnderWay(tokenPath)
    /\ "crash" \notin Happens => files \subseteq {tokenPath}

(* What crashes leave behind, one after the other, is nobody's: attempts   *)
(* that come later leave it where it is, and a GUI that starts clears      *)
(* what is old, each by its own age, and not what is young, from which a   *)
(* helper or a prompt that outlived its GUI may still start.               *)
RestartTakesTheDead ==
    LET left == files \ {tokenPath} IN
    /\ (files' \ {tokenPath'}) \ left # {} => gui # "down" /\ gui' = "down"
    /\ left \ files' # {} => gui = "down" /\ gui' = "idle"
    /\ gui = "down" /\ gui' = "idle" => left \ files' = old
    /\ \A n \in left \ old :
          n \in prompts \/ helper[n] = "starting" => n \in files'
=============================================================================
