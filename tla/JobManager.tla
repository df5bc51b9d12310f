----------------------------- MODULE JobManager -----------------------------
(***************************************************************************)
(* The life of one job in the daemon: pkg/daemon/job_manager.go, the RPC   *)
(* handlers of pkg/daemon/job_service.go that stream its status, and the   *)
(* driver that reads the stream, pkg/drivers/job_submission.go.  Jobs      *)
(* share nothing but the map of the manager, so one job id is enough.      *)
(*                                                                         *)
(* The channel of a watcher carries pointers to the one JobProgress, and a *)
(* handler that receives one sends what GetJobStatus says at that time:    *)
(* only the number of messages in a channel matters.                       *)
(*                                                                         *)
(* A manager without a scheduler is left out: NewDaemon always has one.    *)
(***************************************************************************)
EXTENDS Naturals, FiniteSets

CONSTANTS Submitters,  \* SubmitJob RPCs, all with the same job id
          Observers,   \* WatchJobStatus RPCs for that job
          Cancellers,  \* CancelJob RPCs for that job
          Cap,         \* the capacity of a watcher's channel
          MaxLines,    \* bound: lines of compiler output
          None

ASSUME JobManagerAssumption ==
  /\ Submitters \cap Observers = {}
  /\ (Submitters \cup Observers) \cap Cancellers = {}
  /\ Cap \in Nat \ {0}
  /\ MaxLines \in Nat

Streams == Submitters \cup Observers

VARIABLES
  progress,  \* JobState.Progress: its Status and its Result
  result,    \* JobState.Result
  watchers,  \* JobState.Watchers: the streams whose channel is registered
  buf,       \* how many messages each channel holds
  closed,    \* the streams whose channel is closed
  pc,        \* where each RPC is
  exec,      \* where the execution of the job is
  ctx,       \* the context of the execution, "live" or "cancelled"
  lines,     \* lines of output reported
  seen,      \* the last status each client has received
  left       \* the streams whose RPC's context is done: the client has gone

vars == <<progress, result, watchers, buf, closed, pc, exec, ctx, lines, seen, left>>
job  == <<progress, result, watchers, buf, closed>>

Final    == {"COMPLETED", "FAILED"}
Terminal == Final \cup {"CANCELLED"}
Status   == Terminal \cup {"RECEIVED", "READY", "QUEUED"}

\* "absent": the manager's map has no such job.
Exists == progress.status # "absent"

\* The handlers that have a channel and still use it.
Active == {"initial", "ready", "queue", "enqueue", "accepted", "stream", "got"}
RpcState == Active \cup {"idle", "add", "close", "ended", "failed"}

ExecState == {"none", "waiting", "refused", "started", "running", "hung",
              "exit0", "exit1", "finalized", "done"}

Init ==
  /\ progress = [status |-> "absent", result |-> None]
  /\ result = None
  /\ watchers = {} /\ closed = {}
  /\ buf = [s \in Streams |-> 0]
  /\ pc = [t \in Streams \cup Cancellers |-> "idle"]
  /\ exec = "none" /\ ctx = "live" /\ lines = 0
  /\ seen = [s \in Streams |-> None]
  /\ left = {}

Goto(t, l) == pc' = [pc EXCEPT ![t] = l]

----------------------------------------------------------------------------
(***************************************************************************)
(* JobState.                                                               *)
(***************************************************************************)

\* Fault: the message is put in a full channel too.
Notified_Unbounded ==
  [s \in Streams |-> IF s \in watchers THEN buf[s] + 1 ELSE buf[s]]

\* Every watcher is sent a message, except those whose channel is full.
Notified ==
  [s \in Streams |-> IF s \in watchers /\ buf[s] < Cap THEN buf[s] + 1 ELSE buf[s]]

UpdateProgress(status) ==
  /\ progress' = [status |-> status,
                  result |-> IF status \in Terminal THEN result ELSE progress.result]
  /\ buf' = Notified
  /\ UNCHANGED <<result, watchers, closed>>

\* Fault: the closed channels stay in the list.
CloseWatchers_KeepsList ==
  /\ buf' = Notified
  /\ closed' = closed \cup watchers
  /\ UNCHANGED <<watchers, progress, result>>

CloseWatchers ==
  /\ buf' = Notified
  /\ closed' = closed \cup watchers
  /\ watchers' = {}
  /\ UNCHANGED <<progress, result>>

RemoveWatcher(s) ==
  /\ closed' = IF s \in watchers THEN closed \cup {s} ELSE closed
  /\ watchers' = watchers \ {s}
  /\ UNCHANGED <<progress, result, buf>>

(***************************************************************************)
(* WatchJobStatus of the manager: register, and only then the snapshot.    *)
(* The send of the snapshot blocks while the channel is full, and panics   *)
(* when the channel is closed; net/http recovers a handler's panic.        *)
(***************************************************************************)
AddWatcher(s) ==
  /\ pc[s] = "add"
  /\ watchers' = watchers \cup {s}
  /\ Goto(s, "initial")
  /\ UNCHANGED <<progress, result, buf, closed, exec, ctx, lines, seen, left>>

SendInitial(s) ==
  /\ pc[s] = "initial" /\ s \notin closed
  /\ buf[s] < Cap
  /\ buf' = [buf EXCEPT ![s] = @ + 1]
  /\ Goto(s, IF s \in Submitters THEN "ready" ELSE "stream")
  /\ UNCHANGED <<progress, result, watchers, closed, exec, ctx, lines, seen, left>>

SendInitialPanics(s) ==
  /\ pc[s] = "initial" /\ s \in closed
  /\ Goto(s, "failed")
  /\ UNCHANGED <<job, exec, ctx, lines, seen, left>>

(***************************************************************************)
(* SubmitJob: once the confirmation is sent the manager inserts the job,   *)
(* watches it, makes it READY and QUEUED, hands it to the scheduler and    *)
(* cancels the context that it gave to the scheduler.                      *)
(***************************************************************************)
Insert(s) ==
  /\ pc[s] = "idle"
  /\ IF Exists
       THEN UNCHANGED progress /\ Goto(s, "failed")
       ELSE progress' = [status |-> "RECEIVED", result |-> None] /\ Goto(s, "add")
  /\ UNCHANGED <<result, watchers, buf, closed, exec, ctx, lines, seen, left>>

Ready(s) ==
  /\ pc[s] = "ready"
  /\ UpdateProgress("READY")
  /\ Goto(s, "queue")
  /\ UNCHANGED <<exec, ctx, lines, seen, left>>

Queue(s) ==
  /\ pc[s] = "queue"
  /\ UpdateProgress("QUEUED")
  /\ Goto(s, "enqueue")
  /\ UNCHANGED <<exec, ctx, lines, seen, left>>

\* EnqueueJob starts the execution, or queues the job and reports that all
\* is busy, or refuses it.  The context given to it is a child of the RPC's
\* and may time out under it.  An error ends the RPC: the job keeps its
\* status and its watcher.
Enqueue(s) ==
  /\ pc[s] = "enqueue"
  /\ \/ /\ exec' = "started" /\ Goto(s, "accepted")
        /\ ctx' \in {"cancelled"} \cup (IF s \in left THEN {} ELSE {"live"})
     \/ /\ exec' \in {"waiting", "refused"} /\ Goto(s, "failed")
        /\ UNCHANGED ctx
  /\ UNCHANGED <<job, lines, seen, left>>

\* Fault: the job is marked as queued once the scheduler has it.
CancelExecCtx_ThenQueued(s) ==
  /\ pc[s] = "accepted"
  /\ ctx' = "cancelled"
  /\ UpdateProgress("QUEUED")
  /\ Goto(s, "stream")
  /\ UNCHANGED <<exec, lines, seen, left>>

\* cancel(), under the execution that was just started.
CancelExecCtx(s) ==
  /\ pc[s] = "accepted"
  /\ ctx' = "cancelled"
  /\ Goto(s, "stream")
  /\ UNCHANGED <<job, exec, lines, seen, left>>

(***************************************************************************)
(* The execution: the goroutine of scheduleJob, with the callbacks that    *)
(* SubmitJob gave it.  A waiting job is retried with the context of the    *)
(* job that has just completed, cancelled more often than not.             *)
(***************************************************************************)
Retry ==
  /\ exec = "waiting"
  /\ \/ exec' = "started" /\ ctx' \in {"live", "cancelled"}
     \/ exec' = "refused" /\ UNCHANGED ctx
  /\ UNCHANGED <<job, pc, lines, seen, left>>

StartProcess ==
  /\ exec = "started" /\ ctx = "live"
  /\ exec' = "running"
  /\ UNCHANGED <<job, pc, ctx, lines, seen, left>>

\* progressCallback.
OutputLine ==
  /\ exec = "running" /\ lines < MaxLines
  /\ lines' = lines + 1
  /\ buf' = Notified
  /\ UNCHANGED <<progress, result, watchers, closed, pc, exec, ctx, seen, left>>

\* The compiler fails, is killed by its context, or cannot be started.
ExitFailure ==
  /\ exec \in {"started", "running"}
  /\ exec' = "exit1"
  /\ UNCHANGED <<job, pc, ctx, lines, seen, left>>

\* A line of output too long for the Scanner stops the reading of the pipe,
\* and the execution never returns.
Hang ==
  /\ exec = "running"
  /\ exec' = "hung"
  /\ UNCHANGED <<job, pc, ctx, lines, seen, left>>

ExitSuccess ==
  /\ exec = "running" /\ ctx = "live"
  /\ exec' = "exit0"
  /\ UNCHANGED <<job, pc, ctx, lines, seen, left>>

\* Fault: the result shows at once in the progress.
Finalize_InProgress ==
  /\ exec \in {"exit0", "exit1"}
  /\ result' \in IF exec = "exit0" THEN Final ELSE {"FAILED"}
  /\ progress' = [progress EXCEPT !.result = result']
  /\ exec' = "finalized"
  /\ UNCHANGED <<watchers, buf, closed, pc, ctx, lines, seen, left>>

\* completionCallback sets the result, which the outputs may spoil ...
Finalize ==
  /\ exec \in {"exit0", "exit1"}
  /\ result' \in IF exec = "exit0" THEN Final ELSE {"FAILED"}
  /\ exec' = "finalized"
  /\ UNCHANGED <<progress, watchers, buf, closed, pc, ctx, lines, seen, left>>

\* Fault: the status without the result.
Publish_WithoutResult ==
  /\ exec = "finalized"
  /\ progress' = [progress EXCEPT !.status = result]
  /\ buf' = Notified
  /\ exec' = "done"
  /\ UNCHANGED <<result, watchers, closed, pc, ctx, lines, seen, left>>

\* Fault: nobody is told.
Publish_Silent ==
  /\ exec = "finalized"
  /\ progress' = [status |-> result, result |-> result]
  /\ exec' = "done"
  /\ UNCHANGED <<result, watchers, buf, closed, pc, ctx, lines, seen, left>>

\* ... and then, under the lock once more, the final status.
Publish ==
  /\ exec = "finalized"
  /\ UpdateProgress(result)
  /\ exec' = "done"
  /\ UNCHANGED <<pc, ctx, lines, seen, left>>

(***************************************************************************)
(* The WatchJobStatus RPC begins; the job may be unknown.                  *)
(***************************************************************************)
Lookup(o) ==
  /\ pc[o] = "idle"
  /\ Goto(o, IF Exists THEN "add" ELSE "failed")
  /\ UNCHANGED <<job, exec, ctx, lines, seen, left>>

(***************************************************************************)
(* The loop of both streaming handlers.                                    *)
(***************************************************************************)
Receive(s) ==
  /\ pc[s] = "stream" /\ buf[s] > 0
  /\ buf' = [buf EXCEPT ![s] = @ - 1]
  /\ Goto(s, "got")
  /\ UNCHANGED <<progress, result, watchers, closed, exec, ctx, lines, seen, left>>

StreamEnd(s) ==
  /\ pc[s] = "stream" /\ buf[s] = 0 /\ s \in closed
  /\ Goto(s, "ended")
  /\ UNCHANGED <<job, exec, ctx, lines, seen, left>>

\* GetJobStatus, and the client reads what is sent.  The driver reads no
\* further than a terminal status.
Report(s) ==
  /\ pc[s] = "got"
  /\ Goto(s, "stream")
  /\ seen' = IF s \in left \/ (s \in Submitters /\ seen[s] \in Terminal)
               THEN seen ELSE [seen EXCEPT ![s] = progress.status]
  /\ UNCHANGED <<job, exec, ctx, lines, left>>

\* The send fails: only the submitting handler stops watching.
ReportFails(s) ==
  /\ pc[s] = "got" /\ s \in left
  /\ Goto(s, "failed")
  /\ IF s \in Submitters THEN RemoveWatcher(s) ELSE UNCHANGED job
  /\ UNCHANGED <<exec, ctx, lines, seen, left>>

\* The context of the RPC is done.
StopWatching(s) ==
  /\ pc[s] = "stream" /\ s \in left
  /\ RemoveWatcher(s)
  /\ Goto(s, "failed")
  /\ UNCHANGED <<exec, ctx, lines, seen, left>>

\* The user interrupts a client, or the connection is lost.
Disconnect(s) ==
  /\ s \notin left
  /\ pc[s] \in Active \cup {"add"}
  /\ left' = left \cup {s}
  /\ ctx' = IF pc[s] = "accepted" THEN "cancelled" ELSE ctx
  /\ UNCHANGED <<job, pc, exec, lines, seen>>

\* A terminal status ends the driver.
DriverDone(s) ==
  /\ s \in Submitters \ left
  /\ seen[s] \in Terminal
  /\ left' = left \cup {s}
  /\ UNCHANGED <<job, pc, exec, ctx, lines, seen>>

\* The exit code of a driver that has seen the end, or whose stream has ended:
\* only a stream that ends with an error makes the last status not matter.
ExitCode(s) ==
  IF \/ seen[s] = "COMPLETED"
     \/ pc[s] = "ended" /\ s \notin left /\ seen[s] \in Status \ Terminal
    THEN 0 ELSE 1

(***************************************************************************)
(* The CancelJob RPC.                                                      *)
(***************************************************************************)
CancelUpdate(c) ==
  /\ pc[c] = "idle"
  /\ IF Exists
       THEN UpdateProgress("CANCELLED") /\ Goto(c, "close")
       ELSE UNCHANGED job /\ Goto(c, "ended")
  /\ UNCHANGED <<exec, ctx, lines, seen, left>>

CancelClose(c) ==
  /\ pc[c] = "close"
  /\ CloseWatchers
  /\ Goto(c, "ended")
  /\ UNCHANGED <<exec, ctx, lines, seen, left>>

----------------------------------------------------------------------------
SubmitJob(s) ==
  Ready(s) \/ Queue(s) \/ Enqueue(s) \/ CancelExecCtx(s)

Watch(s) ==
  \/ AddWatcher(s) \/ SendInitial(s) \/ SendInitialPanics(s)
  \/ Receive(s) \/ Report(s) \/ ReportFails(s) \/ StopWatching(s) \/ StreamEnd(s)

Execution ==
  \/ StartProcess \/ OutputLine \/ ExitFailure \/ ExitSuccess \/ Finalize \/ Publish

Next ==
  \/ \E s \in Submitters : Insert(s) \/ SubmitJob(s) \/ DriverDone(s)
  \/ \E o \in Observers : Lookup(o)
  \/ \E s \in Streams : Watch(s) \/ Disconnect(s)
  \/ \E c \in Cancellers : CancelUpdate(c) \/ CancelClose(c)
  \/ Execution \/ Retry \/ Hang

(***************************************************************************)
(* Goroutines run, and an execution that does not hang ends: the Go        *)
(* scheduler, and a context that kills the compiler.  RPCs and retries may *)
(* never come.                                                             *)
(***************************************************************************)
Fairness ==
  /\ \A s \in Submitters : WF_vars(SubmitJob(s)) /\ WF_vars(DriverDone(s))
  /\ \A s \in Streams : WF_vars(Watch(s))
  /\ \A c \in Cancellers : WF_vars(CancelClose(c))
  /\ WF_vars(Execution)

Spec == Init /\ [][Next]_vars /\ Fairness
----------------------------------------------------------------------------
(***************************************************************************)
(* Properties.                                                             *)
(***************************************************************************)

\* Type invariant.
TypeOK ==
  /\ progress.status \in Status \cup {"absent"}
  /\ progress.result \in Final \cup {None}
  /\ result \in Final \cup {None}
  /\ watchers \subseteq Streams /\ closed \subseteq Streams /\ left \subseteq Streams
  /\ buf \in [Streams -> 0..Cap]
  /\ pc \in [Streams \cup Cancellers -> RpcState]
  /\ exec \in ExecState /\ ctx \in {"live", "cancelled"}
  /\ seen \in [Streams -> Status \cup {None}]
  /\ lines \in 0..MaxLines

(***************************************************************************)
(* The registered channels are exactly the open ones: UpdateProgress and   *)
(* progressCallback, which run in a goroutine whose panic ends the daemon, *)
(* never send on a channel that CancelJob or StopWatching has closed, no   *)
(* channel is closed twice, and no handler waits for a channel that is     *)
(* open but no longer notified.                                            *)
(***************************************************************************)
OpenIffRegistered ==
  /\ watchers \cap closed = {}
  /\ \A s \in Streams : pc[s] \in Active => s \in watchers \cup closed

(***************************************************************************)
(* A job that has completed or failed keeps a terminal status: none of the *)
(* updates of SubmitJob comes after the execution's.                       *)
(***************************************************************************)
FinishedStaysTerminal ==
  [][progress.status \in Final => progress'.status \in Terminal]_vars

(***************************************************************************)
(* job.proto: the result in a progress is "only populated on terminal      *)
(* status: COMPLETED, FAILED, CANCELLED"; and a completed job shows its    *)
(* result, from which the driver takes the outputs, though the result and  *)
(* the status are set under two locks and a CancelJob may come between.    *)
(***************************************************************************)
ResultOnlyWhenTerminal ==
  progress.result # None => progress.status \in Terminal

CompletedShowsResult ==
  progress.status = "COMPLETED" => progress.result = "COMPLETED"

(***************************************************************************)
(* A message dropped on a full channel is never missed: a registered       *)
(* stream whose client has not the current status yet has a message in its *)
(* channel, or is on its way to report.                                    *)
(***************************************************************************)
NewsPending ==
  \A s \in watchers :
    seen[s] # progress.status /\ s \notin left /\ ~(s \in Submitters /\ seen[s] \in Terminal)
      => buf[s] > 0 \/ pc[s] \in {"initial", "got"}

(***************************************************************************)
(* Every handler that has sent its snapshot and is still registered tells  *)
(* its client that the execution is over, unless the client has gone.      *)
(***************************************************************************)
SeesTheEnd ==
  \A s \in Streams :
    exec = "done" /\ s \in watchers /\ pc[s] \in Active \ {"initial"}
      ~> seen[s] \in Terminal \/ s \in left

(***************************************************************************)
(* Stated by the code, job_service.go:196: "Stream updates until context   *)
(* is cancelled or job reaches terminal state".                            *)
(***************************************************************************)
StreamEndsWithTheJob ==
  \A o \in Observers :
    exec = "done" /\ pc[o] = "stream" ~> pc[o] \in {"ended", "failed"}

(***************************************************************************)
(* Stated by the devlog, devlog.md:2641: "Driver returns correct exit code *)
(* from job result": a driver that exits with 0 has seen its job complete. *)
(***************************************************************************)
ExitZeroMeansCompleted ==
  \A s \in Submitters :
    ExitCode(s) = 0 => seen[s] = "COMPLETED"
=============================================================================
