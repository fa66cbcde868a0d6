----------------------------- MODULE ServerParts -----------------------------
(***************************************************************************)
(* The operator's side: inputs, console, installation, engagement id.      *)
(* Each is an instance with constants and assumptions of its own; the      *)
(* variables are those of its module.                                      *)
(***************************************************************************)
EXTENDS Naturals, FiniteSets, Sequences, ComponentState

CONSTANTS
    Handles, Choices, Capabilities, Attested, TokenLife, TimerMaximum, InputsTime, MaxRow,
    MaxRestarts,
    Tabs, Shown, MaxRuns, RunChanges, MaxLoads,
    Installers, FileCount, Releases, IndexIsFree, InstallCalls, InstallEvents,
    Launches, IdAttempts

VARIABLES
    restarts, approvals, shown, handles, tokens, values, timers, session,
    rows, token, cookie, tabs, answers, informed, crossed,
    kit, target, host, service, socket, verdict,
    file, launch, used, removed

Inputs == INSTANCE DraftInputs WITH
    MaxTime <- InputsTime
Console == INSTANCE OperatorConsole WITH
    MaxChanges <- RunChanges
Install == INSTANCE HelperInstall WITH
    Procs <- Installers, MaxCalls <- InstallCalls, MaxEvents <- InstallEvents
Id == INSTANCE EngagementId

\* The two delays of the secrets' route are durations, and requests are counted.
DelaysAreDurations == TokenLife \in Nat /\ TimerMaximum \in Nat
ASSUME InputsAssumption == DelaysAreDurations /\ MaxRow \in Nat

\* The console shows a number of events, the last ones, and changes are counted.
ASSUME ConsoleAssumption == Shown \in Nat /\ RunChanges \in Nat

\* A release has files, and is not called like the other contents or records there are.
ReleasesAreNames ==
    /\ FileCount \in Nat \ {0}
    /\ Releases # {} /\ Releases \cap {"edited", "torn", "none", "open"} = {}
ASSUME InstallAssumption == ReleasesAreNames

\* Launchers are not confused with what the file says before an id is in it.
LaunchesAreIds == {"none", "absent", "empty"} \cap Launches = {}
ASSUME EngagementAssumption == LaunchesAreIds /\ IdAttempts \in Nat
=============================================================================
