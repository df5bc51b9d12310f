---------------------------- MODULE RuntimeCache ----------------------------
(***************************************************************************)
(* What a daemon knows of the runtimes on its host, and the jobs placed on *)
(* that knowledge: Daemon.Start, LocalRuntimesManager of pkg/runtimes,     *)
(* the question of a driver (pkg/drivers/runtime_resolution.go), and what  *)
(* SimpleLocalFirst and scheduleJob make of its job.                       *)
(*                                                                         *)
(* Start detects the runtimes before anybody can call the daemon, and the  *)
(* answer is kept for the daemon's life.  The host changes meanwhile, and  *)
(* a daemon that has gone down is started again and detects anew.  A       *)
(* caller is one client: a driver asks whether the daemon knows its        *)
(* runtime and then submits a job for it, a direct client submits a job    *)
(* at once, and an archiver's job has a query that accepts several         *)
(* runtimes.  The scheduler's manager is the local one, which asks no      *)
(* peers and never errs, so the heuristic's choice of a peer is not taken. *)
(***************************************************************************)
EXTENDS Naturals

CONSTANTS Drivers,        \* clients that ask GetRuntime before they submit
          Direct,         \* clients that submit a job at once
          Archivers,      \* clients that submit a job with a query
          NativeRuntimes, \* the runtimes that may be on the host, or be named
          MaxStarts,      \* bound: the starts of the daemon
          MaxChanges      \* bound: the changes of the host

ASSUME RuntimeCacheAssumption ==
  /\ Drivers \cap Direct = {} /\ Archivers \cap (Drivers \cup Direct) = {}
  /\ MaxStarts \in Nat /\ MaxChanges \in Nat

Callers == Drivers \cup Direct \cup Archivers
Starts  == 0..MaxStarts

VARIABLES
  installed,  \* the runtimes on the host
  changes,    \* how often it has changed
  daemon,     \* how far the daemon is with its start
  starts,     \* the starts so far; the last one is that of this daemon
  cache,      \* the runtimes stored, LocalRuntimesManager.runtimes
  at,         \* where each caller is
  wants,      \* the runtimes that will do for it; the chosen one, for its job
  lastChange, \* history: the start after which a runtime last came or went
  detections, \* history: what each start has stored
  answeredBy, \* history: the start of the daemon that a driver asked
  ranBy       \* history: the start of the daemon that a job was submitted to

hostVars   == <<installed, changes, lastChange>>
daemonVars == <<daemon, starts, cache, detections>>
callerVars == <<at, wants, answeredBy, ranBy>>
cacheVars  == <<hostVars, daemonVars, callerVars>>

DaemonState == {"down", "detecting", "detected", "serving"}
CallerState ==
  {"idle", "known", "placed"} \cup {"unknown", "refused", "failed", "started", "crashed"}

CacheInit ==
  /\ installed \in SUBSET NativeRuntimes /\ changes = 0
  /\ daemon = "down" /\ starts = 0 /\ cache = {}
  /\ at = [c \in Callers |-> "idle"]
  /\ wants \in [Callers -> SUBSET NativeRuntimes]
  /\ \A c \in Callers \ Archivers : \E r \in NativeRuntimes : wants[c] = {r}
  /\ lastChange = [r \in NativeRuntimes |-> 0]
  /\ detections = [n \in Starts |-> {}]
  /\ answeredBy = [c \in Callers |-> 0] /\ ranBy = [c \in Callers |-> 0]

----------------------------------------------------------------------------
\* A compiler is installed, removed or replaced by another release.
ChangeHost ==
  /\ changes < MaxChanges
  /\ installed' \in SUBSET NativeRuntimes \ {installed}
  /\ changes' = changes + 1
  /\ lastChange' = [r \in NativeRuntimes |->
                      IF r \in installed <=> r \in installed' THEN lastChange[r] ELSE starts]
  /\ UNCHANGED <<daemonVars, callerVars>>

StartDaemon ==
  /\ daemon = "down" /\ starts < MaxStarts
  /\ daemon' = "detecting" /\ starts' = starts + 1 /\ cache' = {}
  /\ UNCHANGED <<hostVars, callerVars, detections>>

(***************************************************************************)
(* Start calls GetRuntimes, which finds nothing stored and detects.  What  *)
(* comes or goes while the compilers are asked may be found or not.        *)
(***************************************************************************)
Detects(S) ==
  \A r \in NativeRuntimes : lastChange[r] < starts => (r \in S <=> r \in installed)

\* Fault: what an earlier daemon has detected is not detected anew.
DetectRuntimes_Kept ==
  /\ daemon = "detecting"
  /\ \E S \in SUBSET NativeRuntimes :
       /\ IF starts = 1 THEN Detects(S) ELSE S = detections[starts - 1]
       /\ cache' = S /\ detections' = [detections EXCEPT ![starts] = S]
  /\ daemon' = "detected"
  /\ UNCHANGED <<hostVars, callerVars, starts>>

DetectRuntimes ==
  /\ daemon = "detecting"
  /\ \E S \in SUBSET NativeRuntimes :
       /\ Detects(S)
       /\ cache' = S /\ detections' = [detections EXCEPT ![starts] = S]
  /\ daemon' = "detected"
  /\ UNCHANGED <<hostVars, callerVars, starts>>

\* The local peer and the discovery are set up; then the server is started.
Serve ==
  /\ daemon = "detected"
  /\ daemon' = "serving"
  /\ UNCHANGED <<hostVars, callerVars, starts, cache, detections>>

\* The calls and the jobs in a daemon that goes down fail.
WithoutDaemon == [c \in Callers |-> IF at[c] = "placed" THEN "failed" ELSE at[c]]

StopDaemon ==
  /\ daemon # "down"
  /\ daemon' = "down" /\ at' = WithoutDaemon
  /\ UNCHANGED <<hostVars, starts, cache, detections, wants, answeredBy, ranBy>>

----------------------------------------------------------------------------
Goes(c, l) == at' = [at EXCEPT ![c] = l]

\* GetRuntimeByID finds the runtime, or Match at least one.
Known(c) == wants[c] \cap cache # {}

CallFails(c) ==
  /\ at[c] \in {"idle", "known"} /\ daemon # "serving"
  /\ Goes(c, "failed")
  /\ UNCHANGED <<hostVars, daemonVars, wants, answeredBy, ranBy>>

\* Fault: the driver goes on without an answer.
AskRuntime_Unchecked(c) ==
  /\ c \in Drivers /\ at[c] = "idle" /\ daemon = "serving"
  /\ Goes(c, "known")
  /\ answeredBy' = [answeredBy EXCEPT ![c] = starts]
  /\ UNCHANGED <<hostVars, daemonVars, wants, ranBy>>

\* A driver stops when the daemon does not know its runtime.
AskRuntime(c) ==
  /\ c \in Drivers /\ at[c] = "idle" /\ daemon = "serving"
  /\ Goes(c, IF Known(c) THEN "known" ELSE "unknown")
  /\ answeredBy' = [answeredBy EXCEPT ![c] = starts]
  /\ UNCHANGED <<hostVars, daemonVars, wants, ranBy>>

(***************************************************************************)
(* A job that names its runtime is placed here when GetRuntimeByID returns *)
(* no error, which it does for an unknown runtime too.                     *)
(***************************************************************************)
PlaceExplicit(c) ==
  /\ \/ c \in Drivers /\ at[c] = "known"
     \/ c \in Direct /\ at[c] = "idle"
  /\ daemon = "serving"
  /\ Goes(c, "placed")
  /\ ranBy' = [ranBy EXCEPT ![c] = starts]
  /\ UNCHANGED <<hostVars, daemonVars, wants, answeredBy>>

\* For a query it is the first match in the order of a Go map.
PlaceMatching(c) ==
  /\ c \in Archivers /\ at[c] = "idle" /\ daemon = "serving"
  /\ \/ ~ Known(c) /\ Goes(c, "refused") /\ UNCHANGED wants
     \/ /\ \E r \in wants[c] \cap cache : wants' = [wants EXCEPT ![c] = {r}]
        /\ Goes(c, "placed")
  /\ ranBy' = [ranBy EXCEPT ![c] = starts]
  /\ UNCHANGED <<hostVars, daemonVars, answeredBy>>

(***************************************************************************)
(* scheduleJob looks the chosen runtime up again and starts the execution  *)
(* of what it gets in a goroutine.  The call of a method on a nil runtime  *)
(* panics there; nothing recovers it, and the daemon is gone.              *)
(***************************************************************************)
ExecuteChosen(c) ==
  /\ at[c] = "placed"
  /\ \/ /\ Known(c)
        /\ Goes(c, "started")
        /\ UNCHANGED daemonVars
     \/ /\ ~ Known(c)
        /\ at' = [WithoutDaemon EXCEPT ![c] = "crashed"]
        /\ daemon' = "down" /\ UNCHANGED <<starts, cache, detections>>
  /\ UNCHANGED <<hostVars, wants, answeredBy, ranBy>>

CacheNext ==
  \/ ChangeHost \/ StartDaemon \/ DetectRuntimes \/ Serve \/ StopDaemon
  \/ \E c \in Callers :
       CallFails(c) \/ AskRuntime(c) \/ PlaceExplicit(c) \/ PlaceMatching(c) \/ ExecuteChosen(c)

CacheSpec == CacheInit /\ [][CacheNext]_cacheVars

----------------------------------------------------------------------------
\* Every variable has its type, and a job is only in a daemon that serves.
CacheTypeOK ==
  /\ installed \subseteq NativeRuntimes /\ changes \in 0..MaxChanges
  /\ daemon \in DaemonState /\ starts \in Starts /\ cache \subseteq NativeRuntimes
  /\ at \in [Callers -> CallerState] /\ wants \in [Callers -> SUBSET NativeRuntimes]
  /\ lastChange \in [NativeRuntimes -> Starts]
  /\ detections \in [Starts -> SUBSET NativeRuntimes]
  /\ answeredBy \in [Callers -> Starts] /\ ranBy \in [Callers -> Starts]
  /\ (\E c \in Callers : at[c] = "placed") => daemon = "serving"

\* The start of the daemon that has denied a caller its runtime.
DeniedBy(c) == IF at[c] = "unknown" THEN answeredBy[c] ELSE ranBy[c]

(***************************************************************************)
(* Whoever is denied a runtime that is on the host now, by an answer, by a *)
(* refusal or by a crash, is so because this runtime has come since the    *)
(* daemon it dealt with began to detect: however often the host changed    *)
(* and the daemon was started before, what has been steady is served.      *)
(***************************************************************************)
SteadyRuntimesServe ==
  \A c \in Callers :
    at[c] \in {"unknown", "refused", "crashed"} =>
      \A r \in wants[c] \cap installed : lastChange[r] >= DeniedBy(c)

(***************************************************************************)
(* The jobs with a query never bring the daemon down, and a driver's does  *)
(* only when the daemon was started anew after its answer and the runtime  *)
(* that the first daemon had found was not found by the second.            *)
(***************************************************************************)
DriversDoNotCrashIt ==
  \A c \in Callers \ Direct :
    at[c] = "crashed" =>
      /\ c \in Drivers /\ 0 < answeredBy[c] /\ answeredBy[c] < ranBy[c]
      /\ wants[c] \cap detections[answeredBy[c]] # {}
      /\ wants[c] \cap detections[ranBy[c]] = {}

(***************************************************************************)
(* "Runtime is available locally", simple_local_first.go says of a job     *)
(* whose GetRuntimeByID returned no error: it then has a runtime to run.   *)
(***************************************************************************)
PlacedHasARuntime == \A c \in Callers : at[c] # "crashed"
=============================================================================
