----------------------------- MODULE Scheduler -----------------------------
(***************************************************************************)
(* The job scheduler of a daemon, pkg/scheduler/scheduler.go with the FIFO *)
(* queue of pkg/scheduler/queue.go.                                        *)
(*                                                                         *)
(* EnqueueJob runs in the goroutine of the RPC that submits the job.  A    *)
(* job that gets a runtime runs in a goroutine of its own, which calls     *)
(* TryScheduleNext once the job is over.  Every method of the queue takes  *)
(* the queue's mutex, but nothing holds a lock from Peek to Dequeue: each  *)
(* of the steps of TryScheduleNext is an action of its own here.           *)
(*                                                                         *)
(* The heuristic and the runtime manager are read only through what        *)
(* scheduleJob distinguishes of their answers.                             *)
(***************************************************************************)
EXTENDS Naturals, FiniteSets, SequencesExt

CONSTANTS Jobs,      \* the jobs submitted; the job manager submits an id once
          Execs,     \* the execution goroutines that may ever be started
          Callers,   \* goroutines that call the exported OnJobCompletion
          Answers,   \* what scheduleJob may find, a subset of AllAnswers
          Slots,     \* "busy" is answered only while Slots jobs are running
          None       \* no job

AllAnswers == {"runtime",  \* a placement and a runtime that executes it
               "nil",      \* a placement, and GetRuntimeByID gives nil, nil
               "busy",     \* ErrAllRuntimesBusy
               "refused"}  \* ErrNoCompatibleRuntimes, or any other error

ASSUME SchedulerAssumption ==
  /\ Execs \cap Callers = {}
  /\ Answers \subseteq AllAnswers
  /\ Slots \in Nat
  /\ None \notin Jobs

Threads == Execs \cup Callers

VARIABLES
  queue,    \* JobQueue.jobs
  sub,      \* where the EnqueueJob of each job is, or what it returned
  pc,       \* where each goroutine is
  job,      \* the job each execution goroutine was started for
  held,     \* the queuedJob that TryScheduleNext last got from Peek
  alive,    \* the daemon process has not panicked
  gone,     \* history: the jobs Dequeue has removed
  dropped,  \* history: the queued jobs given up on when retried
  removed,  \* history: the jobs RemoveQueuedJob has removed
  raced     \* history: two goroutines were once between Peek and Dequeue,
            \* or a job was removed while one was between the two

vars == <<queue, sub, pc, job, held, alive, gone, dropped, removed, raced>>

SubState  == {"new", "enqueuing", "scheduled", "queued", "rejected"}
ExecState == {"unborn", "running", "hung", "nilRuntime", "next", "peeked",
              "dequeue", "drop", "done"}

Running == {g \in Execs : pc[g] \in {"running", "hung"}}

\* The goroutine is between the Peek and the Dequeue of TryScheduleNext.
InWindow(t) == pc[t] \in {"peeked", "dequeue", "drop"}

----------------------------------------------------------------------------
Init ==
  /\ queue = <<>>
  /\ sub = [j \in Jobs |-> "new"]
  /\ pc = [t \in Threads |-> IF t \in Execs THEN "unborn" ELSE "done"]
  /\ job = [g \in Execs |-> None]
  /\ held = [t \in Threads |-> None]
  /\ alive = TRUE
  /\ gone = {} /\ dropped = {} /\ removed = {}
  /\ raced = FALSE

\* What the heuristic and GetRuntimeByID may answer now.
Answer(a) ==
  /\ a \in Answers
  /\ a = "busy" => Cardinality(Running) >= Slots

\* The state of a new execution goroutine, by the answer that started it.
Started == [runtime |-> "running", nil |-> "nilRuntime"]

(***************************************************************************)
(* Faults: ways to get these methods wrong, one for each property.  They   *)
(* are not part of the specification.                                      *)
(***************************************************************************)
\* A refused submission is recorded under a name nobody knows.
EnqueueReject_UnknownState(j) ==
  /\ alive /\ sub[j] = "new" /\ Answer("refused")
  /\ sub' = [sub EXCEPT ![j] = "failed"]
  /\ UNCHANGED <<queue, pc, job, held, alive, gone, dropped, removed, raced>>

\* The newest job goes to the front.
EnqueueAppend_AtFront(j) ==
  /\ alive /\ sub[j] = "enqueuing"
  /\ queue' = <<j>> \o queue
  /\ sub' = [sub EXCEPT ![j] = "queued"]
  /\ UNCHANGED <<pc, job, held, alive, gone, dropped, removed, raced>>

\* The goroutine ends without a look at the queue.
Complete_NoRetry(g) ==
  /\ alive /\ pc[g] = "running"
  /\ pc' = [pc EXCEPT ![g] = "done"]
  /\ UNCHANGED <<queue, sub, job, held, alive, gone, dropped, removed, raced>>

\* Peek at the wrong end.
PeekHead_Last(t) ==
  /\ alive /\ pc[t] = "next" /\ queue # <<>>
  /\ held' = [held EXCEPT ![t] = Last(queue)]
  /\ pc' = [pc EXCEPT ![t] = "peeked"]
  /\ raced' = (raced \/ \E u \in Threads : InWindow(u))
  /\ UNCHANGED <<queue, sub, job, alive, gone, dropped, removed>>

\* A job that is still blocked is queued once more instead of kept.
RetryBusy_Requeue(t) ==
  /\ alive /\ pc[t] = "peeked" /\ Answer("busy")
  /\ queue' = Append(queue, held[t])
  /\ pc' = [pc EXCEPT ![t] = "done"]
  /\ UNCHANGED <<sub, job, held, alive, gone, dropped, removed, raced>>

\* A job that is still blocked is dequeued like one that failed.
RetryBusy_Dequeue(t) ==
  /\ alive /\ pc[t] = "peeked" /\ Answer("busy")
  /\ pc' = [pc EXCEPT ![t] = "drop"]
  /\ UNCHANGED <<queue, sub, job, held, alive, gone, dropped, removed, raced>>

\* A scheduled job stays in the queue.
DequeueHead_Forgotten(t) ==
  /\ alive /\ pc[t] \in {"dequeue", "drop"}
  /\ pc' = [pc EXCEPT ![t] = "done"]
  /\ UNCHANGED <<queue, sub, job, held, alive, gone, dropped, removed, raced>>

\* Another job than the one asked for is taken out.
RemoveQueuedJob_OffByOne(j) ==
  /\ alive
  /\ \E i \in 1..Len(queue) :
        /\ queue[i] = j
        /\ queue' = RemoveAt(queue, IF i < Len(queue) THEN i + 1 ELSE i)
  /\ removed' = removed \cup {j}
  /\ raced' = (raced \/ \E u \in Threads : InWindow(u) /\ held[u] = j)
  /\ UNCHANGED <<sub, pc, job, held, alive, gone, dropped>>

(***************************************************************************)
(* EnqueueJob: scheduleJob first, whatever waits in the queue.  Only after *)
(* scheduleJob has answered busy is the job appended, in a second step.    *)
(***************************************************************************)
EnqueueStart(j) ==
  /\ alive
  /\ sub[j] = "new"
  /\ \E a \in {"runtime", "nil"}, g \in Execs :
        /\ Answer(a)
        /\ pc[g] = "unborn"
        /\ pc' = [pc EXCEPT ![g] = Started[a]]
        /\ job' = [job EXCEPT ![g] = j]
  /\ sub' = [sub EXCEPT ![j] = "scheduled"]
  /\ UNCHANGED <<queue, held, alive, gone, dropped, removed, raced>>

EnqueueBusy(j) ==
  /\ alive
  /\ sub[j] = "new"
  /\ Answer("busy")
  /\ sub' = [sub EXCEPT ![j] = "enqueuing"]
  /\ UNCHANGED <<queue, pc, job, held, alive, gone, dropped, removed, raced>>

EnqueueReject(j) ==
  /\ alive
  /\ sub[j] = "new"
  /\ Answer("refused")
  /\ sub' = [sub EXCEPT ![j] = "rejected"]
  /\ UNCHANGED <<queue, pc, job, held, alive, gone, dropped, removed, raced>>

EnqueueAppend(j) ==
  /\ alive
  /\ sub[j] = "enqueuing"
  /\ queue' = Append(queue, j)
  /\ sub' = [sub EXCEPT ![j] = "queued"]
  /\ UNCHANGED <<pc, job, held, alive, gone, dropped, removed, raced>>

(***************************************************************************)
(* The execution goroutine: Execute and the completion callback, then      *)
(* TryScheduleNext.  Execute never returns when the compiler prints a line *)
(* that is too long for the Scanner: nobody reads its pipe any more.  A    *)
(* nil runtime is called all the same, and the panic of a goroutine nobody *)
(* recovers ends the process.                                              *)
(***************************************************************************)
Complete(g) ==
  /\ alive
  /\ pc[g] = "running"
  /\ pc' = [pc EXCEPT ![g] = "next"]
  /\ UNCHANGED <<queue, sub, job, held, alive, gone, dropped, removed, raced>>

Hang(g) ==
  /\ alive
  /\ pc[g] = "running"
  /\ pc' = [pc EXCEPT ![g] = "hung"]
  /\ UNCHANGED <<queue, sub, job, held, alive, gone, dropped, removed, raced>>

Panic(g) ==
  /\ alive
  /\ pc[g] = "nilRuntime"
  /\ alive' = FALSE
  /\ UNCHANGED <<queue, sub, pc, job, held, gone, dropped, removed, raced>>

OnJobCompletion(c) ==
  /\ alive
  /\ pc[c] = "done"
  /\ pc' = [pc EXCEPT ![c] = "next"]
  /\ UNCHANGED <<queue, sub, job, held, alive, gone, dropped, removed, raced>>

(***************************************************************************)
(* TryScheduleNext, in three steps: Peek, scheduleJob, Dequeue.            *)
(***************************************************************************)
PeekEmpty(t) ==
  /\ alive
  /\ pc[t] = "next"
  /\ queue = <<>>
  /\ pc' = [pc EXCEPT ![t] = "done"]
  /\ UNCHANGED <<queue, sub, job, held, alive, gone, dropped, removed, raced>>

PeekHead(t) ==
  /\ alive
  /\ pc[t] = "next"
  /\ queue # <<>>
  /\ held' = [held EXCEPT ![t] = Head(queue)]
  /\ pc' = [pc EXCEPT ![t] = "peeked"]
  /\ raced' = (raced \/ \E u \in Threads : InWindow(u))
  /\ UNCHANGED <<queue, sub, job, alive, gone, dropped, removed>>

RetryStart(t) ==
  /\ alive
  /\ pc[t] = "peeked"
  /\ \E a \in {"runtime", "nil"}, g \in Execs :
        /\ Answer(a)
        /\ pc[g] = "unborn"
        /\ pc' = [pc EXCEPT ![g] = Started[a], ![t] = "dequeue"]
        /\ job' = [job EXCEPT ![g] = held[t]]
  /\ UNCHANGED <<queue, sub, held, alive, gone, dropped, removed, raced>>

RetryBusy(t) ==
  /\ alive
  /\ pc[t] = "peeked"
  /\ Answer("busy")
  /\ pc' = [pc EXCEPT ![t] = "done"]
  /\ UNCHANGED <<queue, sub, job, held, alive, gone, dropped, removed, raced>>

RetryRefused(t) ==
  /\ alive
  /\ pc[t] = "peeked"
  /\ Answer("refused")
  /\ pc' = [pc EXCEPT ![t] = "drop"]
  /\ dropped' = dropped \cup {held[t]}
  /\ UNCHANGED <<queue, sub, job, held, alive, gone, removed, raced>>

\* OnJobCompletion calls TryScheduleNext again after a success.
AfterDequeue(t) ==
  IF t \in Callers /\ pc[t] = "dequeue" THEN "next" ELSE "done"

DequeueHead(t) ==
  /\ alive
  /\ pc[t] \in {"dequeue", "drop"}
  /\ IF queue = <<>>
       THEN UNCHANGED <<queue, gone>>
       ELSE /\ queue' = Tail(queue)
            /\ gone' = gone \cup {Head(queue)}
  /\ pc' = [pc EXCEPT ![t] = AfterDequeue(t)]
  /\ UNCHANGED <<sub, job, held, alive, dropped, removed, raced>>

\* RemoveQueuedJob; when the job is not queued it changes nothing.
RemoveQueuedJob(j) ==
  /\ alive
  /\ \E i \in 1..Len(queue) :
        /\ queue[i] = j
        /\ \A k \in 1..(i-1) : queue[k] # j
        /\ queue' = RemoveAt(queue, i)
  /\ removed' = removed \cup {j}
  /\ raced' = (raced \/ \E u \in Threads : InWindow(u) /\ held[u] = j)
  /\ UNCHANGED <<sub, pc, job, held, alive, gone, dropped>>

----------------------------------------------------------------------------
EnqueueJob(j) ==
  EnqueueStart(j) \/ EnqueueBusy(j) \/ EnqueueReject(j) \/ EnqueueAppend(j)

TryScheduleNext(t) ==
  \/ PeekEmpty(t) \/ PeekHead(t)
  \/ RetryStart(t) \/ RetryBusy(t) \/ RetryRefused(t)
  \/ DequeueHead(t)

Next ==
  \/ \E j \in Jobs : EnqueueJob(j) \/ RemoveQueuedJob(j)
  \/ \E g \in Execs : Complete(g) \/ Hang(g) \/ Panic(g)
  \/ \E c \in Callers : OnJobCompletion(c)
  \/ \E t \in Threads : TryScheduleNext(t)

(***************************************************************************)
(* A goroutine that can run does run: that is Go's scheduler.  An          *)
(* execution that does not hang ends, because its context kills the        *)
(* compiler process.                                                       *)
(* Nobody has to submit, to remove or to call OnJobCompletion.             *)
(***************************************************************************)
Fairness ==
  /\ \A t \in Threads : WF_vars(TryScheduleNext(t))
  /\ \A g \in Execs : WF_vars(Complete(g))
  /\ \A j \in Jobs : WF_vars(EnqueueAppend(j))

Spec == Init /\ [][Next]_vars
FairSpec == Spec /\ Fairness
----------------------------------------------------------------------------
(***************************************************************************)
(* Properties.                                                             *)
(***************************************************************************)

\* Type invariant.
TypeOK ==
  /\ queue \in Seq(Jobs)
  /\ sub \in [Jobs -> SubState]
  /\ pc \in [Threads -> ExecState]
  /\ job \in [Execs -> Jobs \cup {None}]
  /\ held \in [Threads -> Jobs \cup {None}]
  /\ alive \in BOOLEAN /\ raced \in BOOLEAN
  /\ gone \subseteq Jobs /\ dropped \subseteq Jobs /\ removed \subseteq Jobs

\* The jobs for which an execution goroutine was started.
StartedJobs == {job[g] : g \in {h \in Execs : pc[h] # "unborn"}}

(***************************************************************************)
(* Whatever the goroutines do between Peek and Dequeue, a job that         *)
(* EnqueueJob has queued is in exactly one place: once in the queue, or    *)
(* taken by one Dequeue, or taken by one RemoveQueuedJob; and nothing else *)
(* is ever queued.                                                         *)
(***************************************************************************)
QueuedOnce ==
  /\ \A i, k \in 1..Len(queue) : queue[i] = queue[k] => i = k
  /\ \A j \in Jobs : sub[j] = "queued" <=> j \in ToSet(queue) \cup gone \cup removed
  /\ gone \cap removed = {}
  /\ ToSet(queue) \cap (gone \cup removed) = {}

(***************************************************************************)
(* A job that RemoveQueuedJob has taken out of the queue never runs, while *)
(* it was not taken away under a TryScheduleNext that had already peeked   *)
(* at it.                                                                  *)
(***************************************************************************)
RemovedNeverRunsUnlessRaced ==
  ~raced => removed \cap StartedJobs = {}

(***************************************************************************)
(* The head is what TryScheduleNext is working on, from its Peek to its    *)
(* Dequeue: the Dequeue at the end removes the job that was scheduled.     *)
(* Nothing in the code makes it so; it holds while no two goroutines       *)
(* were in TryScheduleNext together.                                       *)
(***************************************************************************)
HeadHeldUnlessRaced ==
  ~raced => \A t \in Threads : InWindow(t) => queue # <<>> /\ Head(queue) = held[t]

(***************************************************************************)
(* Each job gets at most one execution goroutine, while no two goroutines  *)
(* were in TryScheduleNext together.                                       *)
(***************************************************************************)
AtMostOnceUnlessRaced ==
  ~raced => \A g, h \in Execs :
              /\ pc[g] # "unborn" /\ pc[h] # "unborn"
              /\ job[g] = job[h]
              => g = h

(***************************************************************************)
(* A job that Dequeue takes out of the queue was started or was refused    *)
(* when it was retried: it is not lost, while no two goroutines were in    *)
(* TryScheduleNext together.                                               *)
(***************************************************************************)
NoneLostUnlessRaced ==
  ~raced => gone \subseteq StartedJobs \cup dropped

(***************************************************************************)
(* A queued job that reaches the head while an execution is still to call  *)
(* TryScheduleNext is looked at by a Peek, or leaves the queue, unless an  *)
(* execution hangs.                                                        *)
(***************************************************************************)
HeadIsRetried ==
  \A j \in Jobs :
    (/\ queue # <<>> /\ Head(queue) = j
     /\ \E g \in Execs : pc[g] \in {"running", "next"})
      ~> \/ ~alive \/ \E g \in Execs : pc[g] = "hung"
         \/ j \notin ToSet(queue)
         \/ \E t \in Threads : held[t] = j

(***************************************************************************)
(* Stated by the code, scheduler.go:161: "If scheduling fails because all  *)
(* runtimes are busy, the job is queued for later retry".                  *)
(***************************************************************************)
QueuedIsRetried ==
  \A j \in Jobs :
    sub[j] = "queued" ~> \/ ~alive \/ \E g \in Execs : pc[g] = "hung"
                         \/ j \in removed
                         \/ \E t \in Threads : held[t] = j

(***************************************************************************)
(* Stated by the code, scheduler.go:221: "If successful, remove from       *)
(* queue" of the job that scheduleJob has just scheduled: the Dequeue      *)
(* never takes another job.                                                *)
(***************************************************************************)
DequeuesWhatItScheduled ==
  [][\A t \in Threads :
       pc[t] = "dequeue" /\ DequeueHead(t) /\ queue # <<>> /\ held[t] \notin removed
         => held[t] = Head(queue)]_vars

(***************************************************************************)
(* The scheduler implements Dispatch, the atomic queue, up to the step in  *)
(* which two goroutines first meet in TryScheduleNext.  A waiting job      *)
(* leaves the line when scheduleJob has decided on it, before its Dequeue. *)
(***************************************************************************)
PlaceOf(j) ==
  IF j \in StartedJobs THEN "started"
  ELSE IF j \in dropped \/ sub[j] = "rejected" THEN "refused"
  ELSE IF j \in removed THEN "removed"
  ELSE IF sub[j] = "queued" THEN "waiting"
  ELSE "new"

Line ==
  IF \E t \in Threads : pc[t] \in {"dequeue", "drop"} THEN Tail(queue) ELSE queue

D == INSTANCE Dispatch WITH place <- [j \in Jobs |-> PlaceOf(j)], line <- Line

ImplementsUnlessRaced ==
  D!Init /\ [][raced' \/ D!Next \/ UNCHANGED D!dispatch]_vars
=============================================================================
