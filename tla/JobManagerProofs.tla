-------------------------- MODULE JobManagerProofs --------------------------
(***************************************************************************)
(* What holds of a job and of its watchers for any number of clients, any  *)
(* capacity of the channels and any output: the invariants of JobManager,  *)
(* and that a finished job stays finished.  The inductive invariant says   *)
(* who may still touch the job: nobody before it is inserted, and of the   *)
(* submitters at most one, whose updates come before the execution.        *)
(***************************************************************************)
EXTENDS JobManager, TLAPS

\* Where SubmitJob is before the scheduler has the job.
Submitting == {"add", "initial", "ready", "queue", "enqueue"}

\* A handler has no channel before it adds one.
NoChannelYet == \A s \in Streams : pc[s] \in {"idle", "add"} => s \notin watchers \cup closed

NothingBeforeInsert ==
    ~ Exists => /\ exec = "none" /\ watchers = {}
                /\ \A s \in Streams : pc[s] \in {"idle", "failed"}

\* The map of the manager lets one submitter in.
OneSubmits ==
    \A s \in Submitters :
        pc[s] \in Submitting =>
            exec = "none" /\ \A t \in Submitters \ {s} : pc[t] \in {"idle", "failed"}

ResultOfExecution ==
    /\ exec = "none" => result = None /\ progress.result = None
    /\ exec = "finalized" => result \in Final

FinalOnlyWhenDone == progress.status \in Final => exec = "done"

\* Who uses a channel, and who may touch the job.
Handlers == OpenIffRegistered /\ NoChannelYet /\ NothingBeforeInsert /\ OneSubmits

\* What the job shows.
Shown ==
    /\ ResultOfExecution /\ FinalOnlyWhenDone
    /\ ResultOnlyWhenTerminal /\ CompletedShowsResult

IInv == TypeOK /\ Handlers /\ Shown /\ NewsPending

----------------------------------------------------------------------------
LEMMA InitIInv == Init => IInv
<1> SUFFICES ASSUME Init PROVE IInv
    OBVIOUS
<1>1. TypeOK
    BY JobManagerAssumption DEF Init, TypeOK, Status, RpcState, ExecState
<1>2. Handlers
    BY DEF Init, Handlers, OpenIffRegistered, NoChannelYet, NothingBeforeInsert, OneSubmits,
           Active, Submitting, Streams
<1>3. Shown /\ NewsPending
    BY DEF Init, Shown, ResultOfExecution, FinalOnlyWhenDone, ResultOnlyWhenTerminal,
           CompletedShowsResult, NewsPending, Final
<1> QED BY <1>1, <1>2, <1>3 DEF IInv

\* Every registered channel has a message once all were notified.
LEMMA NotifiedAll ==
    ASSUME TypeOK
    PROVE  /\ Notified \in [Streams -> 0..Cap]
           /\ \A s \in watchers : Notified[s] > 0
BY JobManagerAssumption DEF TypeOK, Notified

\* An update changes neither the channels nor who uses them.
LEMMA UpdateKeeps ==
    ASSUME IInv, NEW status \in Status, UpdateProgress(status), Exists,
           seen' = seen, left' = left
    PROVE  /\ Exists' /\ progress'.status = status
           /\ progress'.result = IF status \in Terminal THEN result ELSE progress.result
           /\ progress'.result \in Final \cup {None}
           /\ UNCHANGED <<result, watchers, closed>>
           /\ buf' \in [Streams -> 0..Cap]
           /\ NewsPending'
<1>1. /\ UNCHANGED <<result, watchers, closed>> /\ buf' = Notified
      /\ progress' = [status |-> status,
                      result |-> IF status \in Terminal THEN result ELSE progress.result]
    BY DEF UpdateProgress
<1>2. progress'.status = status /\ status # "absent"
    BY <1>1 DEF Status, Terminal, Final
<1>3. NewsPending'
    BY <1>1, NotifiedAll DEF IInv, NewsPending
<1> QED BY <1>1, <1>2, <1>3, NotifiedAll DEF IInv, TypeOK, Exists

LEMMA ShownKept ==
    ASSUME Shown, UNCHANGED <<progress, result, exec>>
    PROVE  Shown'
BY DEF Shown, ResultOfExecution, FinalOnlyWhenDone, ResultOnlyWhenTerminal,
       CompletedShowsResult

----------------------------------------------------------------------------
\* Watching.

LEMMA AddWatcherKeepsIInv == \A s \in Streams : IInv /\ AddWatcher(s) => IInv'
<1> SUFFICES ASSUME NEW s \in Streams, IInv, AddWatcher(s) PROVE IInv'
    OBVIOUS
<1>1. /\ UNCHANGED <<progress, result, buf, closed, exec, ctx, lines, seen, left>>
      /\ pc[s] = "add" /\ watchers' = watchers \cup {s} /\ pc' = [pc EXCEPT ![s] = "initial"]
    BY DEF AddWatcher, Goto
<1>2. TypeOK'
    BY <1>1 DEF IInv, TypeOK, RpcState, Active
<1>3. Handlers'
    BY <1>1 DEF IInv, TypeOK, Handlers, OpenIffRegistered, NoChannelYet, NothingBeforeInsert,
           Exists, OneSubmits, Active, Submitting, Streams
<1>4. Shown'
    BY <1>1, ShownKept DEF IInv
<1>5. NewsPending'
    BY <1>1 DEF IInv, TypeOK, NewsPending
<1> QED BY <1>2, <1>3, <1>4, <1>5 DEF IInv

LEMMA SendInitialKeepsIInv == \A s \in Streams : IInv /\ SendInitial(s) => IInv'
<1> SUFFICES ASSUME NEW s \in Streams, IInv, SendInitial(s) PROVE IInv'
    OBVIOUS
<1>1. /\ UNCHANGED <<progress, result, watchers, closed, exec, ctx, lines, seen, left>>
      /\ pc[s] = "initial" /\ buf[s] < Cap /\ buf' = [buf EXCEPT ![s] = @ + 1]
      /\ pc' = [pc EXCEPT ![s] = IF s \in Submitters THEN "ready" ELSE "stream"]
    BY DEF SendInitial, Goto
<1>2. TypeOK'
    BY <1>1, JobManagerAssumption DEF IInv, TypeOK, RpcState, Active
<1>3. Handlers'
    BY <1>1 DEF IInv, TypeOK, Handlers, OpenIffRegistered, NoChannelYet, NothingBeforeInsert,
           Exists, OneSubmits, Active, Submitting, Streams
<1>4. Shown'
    BY <1>1, ShownKept DEF IInv
<1>5. NewsPending'
    BY <1>1, JobManagerAssumption DEF IInv, TypeOK, NewsPending
<1> QED BY <1>2, <1>3, <1>4, <1>5 DEF IInv

LEMMA SendInitialPanicsKeepsIInv == \A s \in Streams : IInv /\ SendInitialPanics(s) => IInv'
<1> SUFFICES ASSUME NEW s \in Streams, IInv, SendInitialPanics(s) PROVE IInv'
    OBVIOUS
<1>1. /\ UNCHANGED <<progress, result, watchers, buf, closed, exec, ctx, lines, seen, left>>
      /\ pc[s] = "initial" /\ s \in closed /\ pc' = [pc EXCEPT ![s] = "failed"]
    BY DEF SendInitialPanics, Goto, job
<1>2. TypeOK'
    BY <1>1 DEF IInv, TypeOK, RpcState, Active
<1>3. Handlers'
    BY <1>1 DEF IInv, TypeOK, Handlers, OpenIffRegistered, NoChannelYet, NothingBeforeInsert,
           Exists, OneSubmits, Active, Submitting, Streams
<1>4. Shown'
    BY <1>1, ShownKept DEF IInv
<1>5. NewsPending'
    BY <1>1 DEF IInv, TypeOK, NewsPending, Handlers, OpenIffRegistered
<1> QED BY <1>2, <1>3, <1>4, <1>5 DEF IInv

LEMMA ReceiveKeepsIInv == \A s \in Streams : IInv /\ Receive(s) => IInv'
<1> SUFFICES ASSUME NEW s \in Streams, IInv, Receive(s) PROVE IInv'
    OBVIOUS
<1>1. /\ UNCHANGED <<progress, result, watchers, closed, exec, ctx, lines, seen, left>>
      /\ pc[s] = "stream" /\ buf[s] > 0 /\ buf' = [buf EXCEPT ![s] = @ - 1]
      /\ pc' = [pc EXCEPT ![s] = "got"]
    BY DEF Receive, Goto
<1>2. TypeOK'
    BY <1>1, JobManagerAssumption DEF IInv, TypeOK, RpcState, Active
<1>3. Handlers'
    BY <1>1 DEF IInv, TypeOK, Handlers, OpenIffRegistered, NoChannelYet, NothingBeforeInsert,
           Exists, OneSubmits, Active, Submitting, Streams
<1>4. Shown'
    BY <1>1, ShownKept DEF IInv
<1>5. NewsPending'
    BY <1>1, JobManagerAssumption DEF IInv, TypeOK, NewsPending
<1> QED BY <1>2, <1>3, <1>4, <1>5 DEF IInv

LEMMA StreamEndKeepsIInv == \A s \in Streams : IInv /\ StreamEnd(s) => IInv'
<1> SUFFICES ASSUME NEW s \in Streams, IInv, StreamEnd(s) PROVE IInv'
    OBVIOUS
<1>1. /\ UNCHANGED <<progress, result, watchers, buf, closed, exec, ctx, lines, seen, left>>
      /\ pc[s] = "stream" /\ s \in closed /\ pc' = [pc EXCEPT ![s] = "ended"]
    BY DEF StreamEnd, Goto, job
<1>2. TypeOK'
    BY <1>1 DEF IInv, TypeOK, RpcState, Active
<1>3. Handlers'
    BY <1>1 DEF IInv, TypeOK, Handlers, OpenIffRegistered, NoChannelYet, NothingBeforeInsert,
           Exists, OneSubmits, Active, Submitting, Streams
<1>4. Shown'
    BY <1>1, ShownKept DEF IInv
<1>5. NewsPending'
    BY <1>1 DEF IInv, TypeOK, NewsPending, Handlers, OpenIffRegistered
<1> QED BY <1>2, <1>3, <1>4, <1>5 DEF IInv

LEMMA ReportKeepsIInv == \A s \in Streams : IInv /\ Report(s) => IInv'
<1> SUFFICES ASSUME NEW s \in Streams, IInv, Report(s) PROVE IInv'
    OBVIOUS
<1>1. /\ UNCHANGED <<progress, result, watchers, buf, closed, exec, ctx, lines, left>>
      /\ pc[s] = "got" /\ pc' = [pc EXCEPT ![s] = "stream"]
      /\ seen' = IF s \in left \/ (s \in Submitters /\ seen[s] \in Terminal)
                   THEN seen ELSE [seen EXCEPT ![s] = progress.status]
    BY DEF Report, Goto, job
<1>2. TypeOK'
    BY <1>1 DEF IInv, TypeOK, RpcState, Active, Handlers, NothingBeforeInsert, Exists
<1>3. Handlers'
    BY <1>1 DEF IInv, TypeOK, Handlers, OpenIffRegistered, NoChannelYet, NothingBeforeInsert,
           Exists, OneSubmits, Active, Submitting, Streams
<1>4. Shown'
    BY <1>1, ShownKept DEF IInv
<1>5. NewsPending'
    BY <1>1 DEF IInv, TypeOK, NewsPending
<1> QED BY <1>2, <1>3, <1>4, <1>5 DEF IInv

LEMMA ReportFailsKeepsIInv == \A s \in Streams : IInv /\ ReportFails(s) => IInv'
<1> SUFFICES ASSUME NEW s \in Streams, IInv, ReportFails(s) PROVE IInv'
    OBVIOUS
<1>1. /\ UNCHANGED <<progress, result, buf, exec, ctx, lines, seen, left>>
      /\ pc[s] = "got" /\ s \in left /\ pc' = [pc EXCEPT ![s] = "failed"]
      /\ \/ UNCHANGED <<watchers, closed>>
         \/ /\ watchers' = watchers \ {s}
            /\ closed' = IF s \in watchers THEN closed \cup {s} ELSE closed
    BY DEF ReportFails, Goto, RemoveWatcher, job
<1>2. TypeOK'
    BY <1>1 DEF IInv, TypeOK, RpcState, Active
<1>3. Handlers'
    BY <1>1 DEF IInv, TypeOK, Handlers, OpenIffRegistered, NoChannelYet, NothingBeforeInsert,
           Exists, OneSubmits, Active, Submitting, Streams
<1>4. Shown'
    BY <1>1, ShownKept DEF IInv
<1>5. NewsPending'
    BY <1>1 DEF IInv, TypeOK, NewsPending
<1> QED BY <1>2, <1>3, <1>4, <1>5 DEF IInv

LEMMA StopWatchingKeepsIInv == \A s \in Streams : IInv /\ StopWatching(s) => IInv'
<1> SUFFICES ASSUME NEW s \in Streams, IInv, StopWatching(s) PROVE IInv'
    OBVIOUS
<1>1. /\ UNCHANGED <<progress, result, buf, exec, ctx, lines, seen, left>>
      /\ pc[s] = "stream" /\ pc' = [pc EXCEPT ![s] = "failed"]
      /\ watchers' = watchers \ {s}
      /\ closed' = IF s \in watchers THEN closed \cup {s} ELSE closed
    BY DEF StopWatching, Goto, RemoveWatcher
<1>2. TypeOK'
    BY <1>1 DEF IInv, TypeOK, RpcState, Active
<1>3. Handlers'
    BY <1>1 DEF IInv, TypeOK, Handlers, OpenIffRegistered, NoChannelYet, NothingBeforeInsert,
           Exists, OneSubmits, Active, Submitting, Streams
<1>4. Shown'
    BY <1>1, ShownKept DEF IInv
<1>5. NewsPending'
    BY <1>1 DEF IInv, TypeOK, NewsPending
<1> QED BY <1>2, <1>3, <1>4, <1>5 DEF IInv

\* The RPCs that begin, and the clients that go.

LEMMA LookupKeepsIInv == \A s \in Observers : IInv /\ Lookup(s) => IInv'
<1> SUFFICES ASSUME NEW s \in Observers, IInv, Lookup(s) PROVE IInv'
    OBVIOUS
<1>1. /\ UNCHANGED <<progress, result, watchers, buf, closed, exec, ctx, lines, seen, left>>
      /\ pc[s] = "idle" /\ pc' = [pc EXCEPT ![s] = IF Exists THEN "add" ELSE "failed"]
    BY DEF Lookup, Goto, job
<1>2. TypeOK'
    BY <1>1 DEF IInv, TypeOK, RpcState, Active, Streams
<1>3. Handlers'
    BY <1>1, JobManagerAssumption
       DEF IInv, TypeOK, Handlers, OpenIffRegistered, NoChannelYet, NothingBeforeInsert,
           Exists, OneSubmits, Active, Submitting, Streams
<1>4. Shown'
    BY <1>1, ShownKept DEF IInv
<1>5. NewsPending'
    BY <1>1 DEF IInv, TypeOK, NewsPending, Handlers, NoChannelYet, Streams
<1> QED BY <1>2, <1>3, <1>4, <1>5 DEF IInv

LEMMA DisconnectKeepsIInv == \A s \in Streams : IInv /\ Disconnect(s) => IInv'
<1> SUFFICES ASSUME NEW s \in Streams, IInv, Disconnect(s) PROVE IInv'
    OBVIOUS
<1>1. /\ UNCHANGED <<progress, result, watchers, buf, closed, pc, exec, lines, seen>>
      /\ left' = left \cup {s} /\ ctx' \in {ctx, "cancelled"}
    BY DEF Disconnect, job
<1>2. TypeOK'
    BY <1>1 DEF IInv, TypeOK
<1>3. Handlers'
    BY <1>1 DEF IInv, TypeOK, Handlers, OpenIffRegistered, NoChannelYet, NothingBeforeInsert,
           Exists, OneSubmits, Active, Submitting, Streams
<1>4. Shown'
    BY <1>1, ShownKept DEF IInv
<1>5. NewsPending'
    BY <1>1 DEF IInv, TypeOK, NewsPending
<1> QED BY <1>2, <1>3, <1>4, <1>5 DEF IInv

LEMMA DriverDoneKeepsIInv == \A s \in Submitters : IInv /\ DriverDone(s) => IInv'
<1> SUFFICES ASSUME NEW s \in Submitters, IInv, DriverDone(s) PROVE IInv'
    OBVIOUS
<1>1. /\ UNCHANGED <<progress, result, watchers, buf, closed, pc, exec, ctx, lines, seen>>
      /\ left' = left \cup {s}
    BY DEF DriverDone, job
<1>2. TypeOK'
    BY <1>1 DEF IInv, TypeOK, Streams
<1>3. Handlers'
    BY <1>1 DEF IInv, TypeOK, Handlers, OpenIffRegistered, NoChannelYet, NothingBeforeInsert,
           Exists, OneSubmits, Active, Submitting, Streams
<1>4. Shown'
    BY <1>1, ShownKept DEF IInv
<1>5. NewsPending'
    BY <1>1 DEF IInv, TypeOK, NewsPending
<1> QED BY <1>2, <1>3, <1>4, <1>5 DEF IInv

----------------------------------------------------------------------------
\* Submitting.

LEMMA InsertKeepsIInv == \A s \in Submitters : IInv /\ Insert(s) => IInv'
<1> SUFFICES ASSUME NEW s \in Submitters, IInv, Insert(s) PROVE IInv'
    OBVIOUS
<1>1. /\ UNCHANGED <<result, watchers, buf, closed, exec, ctx, lines, seen, left>>
      /\ pc[s] = "idle"
      /\ \/ /\ Exists /\ progress' = progress /\ pc' = [pc EXCEPT ![s] = "failed"]
         \/ /\ ~ Exists /\ progress' = [status |-> "RECEIVED", result |-> None]
            /\ pc' = [pc EXCEPT ![s] = "add"]
    BY DEF Insert, Goto
<1>2. TypeOK'
    BY <1>1 DEF IInv, TypeOK, RpcState, Active, Status, Streams
<1>3. Handlers'
    BY <1>1 DEF IInv, TypeOK, Handlers, OpenIffRegistered, NoChannelYet, NothingBeforeInsert,
           Exists, OneSubmits, Active, Submitting, Streams
<1>4. Shown'
    BY <1>1 DEF IInv, Shown, ResultOfExecution, FinalOnlyWhenDone, ResultOnlyWhenTerminal,
           CompletedShowsResult, Handlers, NothingBeforeInsert, Exists, Final, Terminal
<1>5. NewsPending'
    BY <1>1 DEF IInv, TypeOK, NewsPending, Handlers, NoChannelYet,
           NothingBeforeInsert, Streams
<1> QED BY <1>2, <1>3, <1>4, <1>5 DEF IInv

LEMMA ReadyKeepsIInv == \A s \in Submitters : IInv /\ Ready(s) => IInv'
<1> SUFFICES ASSUME NEW s \in Submitters, IInv, Ready(s) PROVE IInv'
    OBVIOUS
<1>1. /\ UNCHANGED <<exec, ctx, lines, seen, left>> /\ UpdateProgress("READY")
      /\ pc[s] = "ready" /\ pc' = [pc EXCEPT ![s] = "queue"]
    BY DEF Ready, Goto
<1>2. Exists /\ exec = "none"
    BY <1>1 DEF IInv, Handlers, NothingBeforeInsert, OneSubmits, Submitting, Streams
<1>3. "READY" \in Status \ Terminal
    BY DEF Status, Terminal, Final
<1>4. /\ Exists' /\ progress'.status = "READY" /\ progress'.result = None
      /\ UNCHANGED <<result, watchers, closed>> /\ buf' \in [Streams -> 0..Cap]
      /\ NewsPending' /\ result = None
    BY <1>1, <1>2, <1>3, UpdateKeeps DEF IInv, Shown, ResultOfExecution
<1>5. TypeOK'
    BY <1>1, <1>3, <1>4 DEF IInv, TypeOK, RpcState, Active
<1>6. Handlers'
    BY <1>1, <1>4
       DEF IInv, TypeOK, Handlers, OpenIffRegistered, NoChannelYet, NothingBeforeInsert,
           Exists, OneSubmits, Active, Submitting, Streams
<1>7. Shown'
    BY <1>1, <1>2, <1>4 DEF Shown, ResultOfExecution, FinalOnlyWhenDone,
           ResultOnlyWhenTerminal, CompletedShowsResult, Final
<1> QED BY <1>4, <1>5, <1>6, <1>7 DEF IInv

LEMMA QueueKeepsIInv == \A s \in Submitters : IInv /\ Queue(s) => IInv'
<1> SUFFICES ASSUME NEW s \in Submitters, IInv, Queue(s) PROVE IInv'
    OBVIOUS
<1>1. /\ UNCHANGED <<exec, ctx, lines, seen, left>> /\ UpdateProgress("QUEUED")
      /\ pc[s] = "queue" /\ pc' = [pc EXCEPT ![s] = "enqueue"]
    BY DEF Queue, Goto
<1>2. Exists /\ exec = "none"
    BY <1>1 DEF IInv, Handlers, NothingBeforeInsert, OneSubmits, Submitting, Streams
<1>3. "QUEUED" \in Status \ Terminal
    BY DEF Status, Terminal, Final
<1>4. /\ Exists' /\ progress'.status = "QUEUED" /\ progress'.result = None
      /\ UNCHANGED <<result, watchers, closed>> /\ buf' \in [Streams -> 0..Cap]
      /\ NewsPending' /\ result = None
    BY <1>1, <1>2, <1>3, UpdateKeeps DEF IInv, Shown, ResultOfExecution
<1>5. TypeOK'
    BY <1>1, <1>3, <1>4 DEF IInv, TypeOK, RpcState, Active
<1>6. Handlers'
    BY <1>1, <1>4
       DEF IInv, TypeOK, Handlers, OpenIffRegistered, NoChannelYet, NothingBeforeInsert,
           Exists, OneSubmits, Active, Submitting, Streams
<1>7. Shown'
    BY <1>1, <1>2, <1>4 DEF Shown, ResultOfExecution, FinalOnlyWhenDone,
           ResultOnlyWhenTerminal, CompletedShowsResult, Final
<1> QED BY <1>4, <1>5, <1>6, <1>7 DEF IInv

LEMMA EnqueueKeepsIInv == \A s \in Submitters : IInv /\ Enqueue(s) => IInv'
<1> SUFFICES ASSUME NEW s \in Submitters, IInv, Enqueue(s) PROVE IInv'
    OBVIOUS
<1>1. /\ UNCHANGED <<progress, result, watchers, buf, closed, lines, seen, left>>
      /\ pc[s] = "enqueue" /\ ctx' \in {ctx, "live", "cancelled"}
      /\ exec' \in {"started", "waiting", "refused"}
      /\ \E l \in {"accepted", "failed"} : pc' = [pc EXCEPT ![s] = l]
    BY DEF Enqueue, Goto, job
<1>2. TypeOK'
    BY <1>1 DEF IInv, TypeOK, RpcState, Active, ExecState
<1>3. Handlers'
    BY <1>1 DEF IInv, TypeOK, Handlers, OpenIffRegistered, NoChannelYet, NothingBeforeInsert,
           Exists, OneSubmits, Active, Submitting, Streams
<1>4. Shown'
    BY <1>1 DEF IInv, Shown, ResultOfExecution, FinalOnlyWhenDone, ResultOnlyWhenTerminal,
           CompletedShowsResult, Handlers, OneSubmits, Submitting
<1>5. NewsPending'
    BY <1>1 DEF IInv, TypeOK, NewsPending
<1> QED BY <1>2, <1>3, <1>4, <1>5 DEF IInv

LEMMA CancelExecCtxKeepsIInv == \A s \in Submitters : IInv /\ CancelExecCtx(s) => IInv'
<1> SUFFICES ASSUME NEW s \in Submitters, IInv, CancelExecCtx(s) PROVE IInv'
    OBVIOUS
<1>1. /\ UNCHANGED <<progress, result, watchers, buf, closed, exec, lines, seen, left>>
      /\ pc[s] = "accepted" /\ ctx' = "cancelled" /\ pc' = [pc EXCEPT ![s] = "stream"]
    BY DEF CancelExecCtx, Goto, job
<1>2. TypeOK'
    BY <1>1 DEF IInv, TypeOK, RpcState, Active
<1>3. Handlers'
    BY <1>1 DEF IInv, TypeOK, Handlers, OpenIffRegistered, NoChannelYet, NothingBeforeInsert,
           Exists, OneSubmits, Active, Submitting, Streams
<1>4. Shown'
    BY <1>1, ShownKept DEF IInv
<1>5. NewsPending'
    BY <1>1 DEF IInv, TypeOK, NewsPending
<1> QED BY <1>2, <1>3, <1>4, <1>5 DEF IInv

----------------------------------------------------------------------------
\* The execution: nobody submits the job any more.

LEMMA StartProcessKeepsIInv == IInv /\ StartProcess => IInv'
<1> SUFFICES ASSUME IInv, StartProcess PROVE IInv'
    OBVIOUS
<1>1. /\ UNCHANGED <<progress, watchers, closed, pc, seen, left>>
      /\ result' = result /\ buf' = buf /\ lines' = lines /\ ctx' = ctx
      /\ exec = "started" /\ exec' = "running"
    BY DEF StartProcess, job
<1>2. TypeOK'
    BY <1>1 DEF IInv, TypeOK, ExecState
<1>3. Handlers'
    BY <1>1 DEF IInv, TypeOK, Handlers, OpenIffRegistered, NoChannelYet, NothingBeforeInsert,
           Exists, OneSubmits, Active, Submitting, Streams
<1>4. Shown'
    BY <1>1 DEF IInv, Shown, ResultOfExecution, FinalOnlyWhenDone, ResultOnlyWhenTerminal,
           CompletedShowsResult
<1>5. NewsPending'
    BY <1>1 DEF IInv, TypeOK, NewsPending
<1> QED BY <1>2, <1>3, <1>4, <1>5 DEF IInv

LEMMA ExitFailureKeepsIInv == IInv /\ ExitFailure => IInv'
<1> SUFFICES ASSUME IInv, ExitFailure PROVE IInv'
    OBVIOUS
<1>1. /\ UNCHANGED <<progress, watchers, closed, pc, seen, left>>
      /\ result' = result /\ buf' = buf /\ lines' = lines /\ ctx' = ctx
      /\ exec \in {"started", "running"} /\ exec' = "exit1"
    BY DEF ExitFailure, job
<1>2. TypeOK'
    BY <1>1 DEF IInv, TypeOK, ExecState
<1>3. Handlers'
    BY <1>1 DEF IInv, TypeOK, Handlers, OpenIffRegistered, NoChannelYet, NothingBeforeInsert,
           Exists, OneSubmits, Active, Submitting, Streams
<1>4. Shown'
    BY <1>1 DEF IInv, Shown, ResultOfExecution, FinalOnlyWhenDone, ResultOnlyWhenTerminal,
           CompletedShowsResult
<1>5. NewsPending'
    BY <1>1 DEF IInv, TypeOK, NewsPending
<1> QED BY <1>2, <1>3, <1>4, <1>5 DEF IInv

LEMMA ExitSuccessKeepsIInv == IInv /\ ExitSuccess => IInv'
<1> SUFFICES ASSUME IInv, ExitSuccess PROVE IInv'
    OBVIOUS
<1>1. /\ UNCHANGED <<progress, watchers, closed, pc, seen, left>>
      /\ result' = result /\ buf' = buf /\ lines' = lines /\ ctx' = ctx
      /\ exec = "running" /\ exec' = "exit0"
    BY DEF ExitSuccess, job
<1>2. TypeOK'
    BY <1>1 DEF IInv, TypeOK, ExecState
<1>3. Handlers'
    BY <1>1 DEF IInv, TypeOK, Handlers, OpenIffRegistered, NoChannelYet, NothingBeforeInsert,
           Exists, OneSubmits, Active, Submitting, Streams
<1>4. Shown'
    BY <1>1 DEF IInv, Shown, ResultOfExecution, FinalOnlyWhenDone, ResultOnlyWhenTerminal,
           CompletedShowsResult
<1>5. NewsPending'
    BY <1>1 DEF IInv, TypeOK, NewsPending
<1> QED BY <1>2, <1>3, <1>4, <1>5 DEF IInv

LEMMA HangKeepsIInv == IInv /\ Hang => IInv'
<1> SUFFICES ASSUME IInv, Hang PROVE IInv'
    OBVIOUS
<1>1. /\ UNCHANGED <<progress, watchers, closed, pc, seen, left>>
      /\ result' = result /\ buf' = buf /\ lines' = lines /\ ctx' = ctx
      /\ exec = "running" /\ exec' = "hung"
    BY DEF Hang, job
<1>2. TypeOK'
    BY <1>1 DEF IInv, TypeOK, ExecState
<1>3. Handlers'
    BY <1>1 DEF IInv, TypeOK, Handlers, OpenIffRegistered, NoChannelYet, NothingBeforeInsert,
           Exists, OneSubmits, Active, Submitting, Streams
<1>4. Shown'
    BY <1>1 DEF IInv, Shown, ResultOfExecution, FinalOnlyWhenDone, ResultOnlyWhenTerminal,
           CompletedShowsResult
<1>5. NewsPending'
    BY <1>1 DEF IInv, TypeOK, NewsPending
<1> QED BY <1>2, <1>3, <1>4, <1>5 DEF IInv

LEMMA RetryKeepsIInv == IInv /\ Retry => IInv'
<1> SUFFICES ASSUME IInv, Retry PROVE IInv'
    OBVIOUS
<1>1. /\ UNCHANGED <<progress, watchers, closed, pc, seen, left>>
      /\ result' = result /\ buf' = buf /\ lines' = lines /\ ctx' \in {ctx, "live", "cancelled"}
      /\ exec = "waiting" /\ exec' \in {"started", "refused"}
    BY DEF Retry, job
<1>2. TypeOK'
    BY <1>1 DEF IInv, TypeOK, ExecState
<1>3. Handlers'
    BY <1>1 DEF IInv, TypeOK, Handlers, OpenIffRegistered, NoChannelYet, NothingBeforeInsert,
           Exists, OneSubmits, Active, Submitting, Streams
<1>4. Shown'
    BY <1>1 DEF IInv, Shown, ResultOfExecution, FinalOnlyWhenDone, ResultOnlyWhenTerminal,
           CompletedShowsResult
<1>5. NewsPending'
    BY <1>1 DEF IInv, TypeOK, NewsPending
<1> QED BY <1>2, <1>3, <1>4, <1>5 DEF IInv

LEMMA FinalizeKeepsIInv == IInv /\ Finalize => IInv'
<1> SUFFICES ASSUME IInv, Finalize PROVE IInv'
    OBVIOUS
<1>1. /\ UNCHANGED <<progress, watchers, closed, pc, seen, left>>
      /\ buf' = buf /\ lines' = lines /\ ctx' = ctx /\ result' \in Final
      /\ exec \in {"exit0", "exit1"} /\ exec' = "finalized"
    BY DEF Finalize, Final
<1>2. TypeOK'
    BY <1>1 DEF IInv, TypeOK, ExecState
<1>3. Handlers'
    BY <1>1 DEF IInv, TypeOK, Handlers, OpenIffRegistered, NoChannelYet, NothingBeforeInsert,
           Exists, OneSubmits, Active, Submitting, Streams
<1>4. Shown'
    BY <1>1 DEF IInv, Shown, ResultOfExecution, FinalOnlyWhenDone, ResultOnlyWhenTerminal,
           CompletedShowsResult
<1>5. NewsPending'
    BY <1>1 DEF IInv, TypeOK, NewsPending
<1> QED BY <1>2, <1>3, <1>4, <1>5 DEF IInv

LEMMA OutputLineKeepsIInv == IInv /\ OutputLine => IInv'
<1> SUFFICES ASSUME IInv, OutputLine PROVE IInv'
    OBVIOUS
<1>1. /\ UNCHANGED <<progress, result, watchers, closed, pc, exec, ctx, seen, left>>
      /\ lines < MaxLines /\ lines' = lines + 1 /\ buf' = Notified
    BY DEF OutputLine
<1>2. TypeOK'
    BY <1>1, NotifiedAll, JobManagerAssumption DEF IInv, TypeOK
<1>3. Handlers'
    BY <1>1 DEF IInv, TypeOK, Handlers, OpenIffRegistered, NoChannelYet, NothingBeforeInsert,
           Exists, OneSubmits, Active, Submitting, Streams
<1>4. Shown'
    BY <1>1, ShownKept DEF IInv
<1>5. NewsPending'
    BY <1>1, NotifiedAll DEF IInv, NewsPending
<1> QED BY <1>2, <1>3, <1>4, <1>5 DEF IInv

LEMMA PublishKeepsIInv == IInv /\ Publish => IInv'
<1> SUFFICES ASSUME IInv, Publish PROVE IInv'
    OBVIOUS
<1>1. /\ UNCHANGED <<pc, ctx, lines, seen, left>> /\ UpdateProgress(result)
      /\ exec = "finalized" /\ exec' = "done"
    BY DEF Publish
<1>2. Exists /\ result \in Final
    BY <1>1 DEF IInv, Handlers, NothingBeforeInsert, Shown, ResultOfExecution
<1>3. result \in Status /\ result \in Terminal
    BY <1>2 DEF Status, Terminal
<1>4. /\ Exists' /\ progress'.status = result /\ progress'.result = result
      /\ UNCHANGED <<result, watchers, closed>> /\ buf' \in [Streams -> 0..Cap]
      /\ NewsPending'
    BY <1>1, <1>2, <1>3, UpdateKeeps
<1>5. TypeOK'
    BY <1>1, <1>2, <1>3, <1>4 DEF IInv, TypeOK, ExecState
<1>6. Handlers'
    BY <1>1, <1>4
       DEF IInv, TypeOK, Handlers, OpenIffRegistered, NoChannelYet, NothingBeforeInsert,
           Exists, OneSubmits, Active, Submitting, Streams
<1>7. Shown'
    BY <1>1, <1>2, <1>3, <1>4 DEF Shown, ResultOfExecution, FinalOnlyWhenDone,
           ResultOnlyWhenTerminal, CompletedShowsResult
<1> QED BY <1>4, <1>5, <1>6, <1>7 DEF IInv

----------------------------------------------------------------------------
\* Cancelling.

LEMMA CancelUpdateKeepsIInv == \A c \in Cancellers : IInv /\ CancelUpdate(c) => IInv'
<1> SUFFICES ASSUME NEW c \in Cancellers, IInv, CancelUpdate(c) PROVE IInv'
    OBVIOUS
<1>1. c \notin Streams
    BY JobManagerAssumption DEF Streams
<1>2. CASE ~ Exists
    <2>1. /\ UNCHANGED <<progress, result, watchers, buf, closed, exec, ctx, lines, seen, left>>
          /\ pc' = [pc EXCEPT ![c] = "ended"]
        BY <1>2 DEF CancelUpdate, Goto, job
    <2>2. TypeOK'
        BY <2>1 DEF IInv, TypeOK, RpcState
    <2>3. Handlers'
        BY <1>1, <2>1
           DEF IInv, TypeOK, Handlers, OpenIffRegistered, NoChannelYet, NothingBeforeInsert,
           Exists, OneSubmits, Active, Submitting, Streams
    <2>4. Shown'
        BY <2>1, ShownKept DEF IInv
    <2>5. NewsPending'
        BY <1>1, <2>1 DEF IInv, TypeOK, NewsPending
    <2> QED BY <2>2, <2>3, <2>4, <2>5 DEF IInv
<1>3. CASE Exists
    <2>1. /\ UNCHANGED <<exec, ctx, lines, seen, left>> /\ UpdateProgress("CANCELLED")
          /\ pc' = [pc EXCEPT ![c] = "close"]
        BY <1>3 DEF CancelUpdate, Goto
    <2>2. "CANCELLED" \in Status /\ "CANCELLED" \in Terminal
        BY DEF Status, Terminal
    <2>3. /\ Exists' /\ progress'.status = "CANCELLED" /\ progress'.result = result
          /\ UNCHANGED <<result, watchers, closed>> /\ buf' \in [Streams -> 0..Cap]
          /\ NewsPending'
        BY <1>3, <2>1, <2>2, UpdateKeeps
    <2>4. TypeOK'
        BY <2>1, <2>2, <2>3 DEF IInv, TypeOK, RpcState
    <2>5. Handlers'
        BY <1>1, <2>1, <2>3
           DEF IInv, TypeOK, Handlers, OpenIffRegistered, NoChannelYet, NothingBeforeInsert,
           Exists, OneSubmits, Active, Submitting, Streams
    <2>6. Shown'
        BY <2>1, <2>2, <2>3
           DEF IInv, Shown, ResultOfExecution, FinalOnlyWhenDone, ResultOnlyWhenTerminal,
           CompletedShowsResult, Final
    <2> QED BY <2>3, <2>4, <2>5, <2>6 DEF IInv
<1> QED BY <1>2, <1>3

LEMMA CancelCloseKeepsIInv == \A c \in Cancellers : IInv /\ CancelClose(c) => IInv'
<1> SUFFICES ASSUME NEW c \in Cancellers, IInv, CancelClose(c) PROVE IInv'
    OBVIOUS
<1>1. c \notin Streams
    BY JobManagerAssumption DEF Streams
<1>2. /\ UNCHANGED <<progress, result, exec, ctx, lines, seen, left>> /\ buf' = Notified
      /\ closed' = closed \cup watchers /\ watchers' = {}
      /\ pc' = [pc EXCEPT ![c] = "ended"]
    BY DEF CancelClose, CloseWatchers, Goto
<1>3. TypeOK'
    BY <1>2, NotifiedAll DEF IInv, TypeOK, RpcState
<1>4. Handlers'
    BY <1>1, <1>2
       DEF IInv, TypeOK, Handlers, OpenIffRegistered, NoChannelYet, NothingBeforeInsert,
           Exists, OneSubmits, Active, Submitting, Streams
<1>5. Shown'
    BY <1>2, ShownKept DEF IInv
<1>6. NewsPending'
    BY <1>2 DEF NewsPending
<1> QED BY <1>3, <1>4, <1>5, <1>6 DEF IInv

LEMMA StutterKeepsIInv == IInv /\ UNCHANGED vars => IInv'
<1> SUFFICES ASSUME IInv, UNCHANGED vars PROVE IInv'
    OBVIOUS
<1> USE DEF vars
<1>1. TypeOK'
    BY DEF IInv, TypeOK
<1>2. Handlers'
    BY DEF IInv, TypeOK, Handlers, OpenIffRegistered, NoChannelYet, NothingBeforeInsert,
           Exists, OneSubmits, Active, Submitting, Streams
<1>3. Shown' /\ NewsPending'
    BY DEF IInv, Shown, ResultOfExecution, FinalOnlyWhenDone, ResultOnlyWhenTerminal,
           CompletedShowsResult, NewsPending
<1> QED BY <1>1, <1>2, <1>3 DEF IInv

----------------------------------------------------------------------------
LEMMA StepKeepsIInv == IInv /\ [Next]_vars => IInv'
<1> SUFFICES ASSUME IInv, [Next]_vars PROVE IInv'
    OBVIOUS
<1>1. ASSUME NEW s \in Submitters, Insert(s) \/ SubmitJob(s) \/ DriverDone(s)
      PROVE  IInv'
    BY <1>1, InsertKeepsIInv, ReadyKeepsIInv, QueueKeepsIInv, EnqueueKeepsIInv,
       CancelExecCtxKeepsIInv, DriverDoneKeepsIInv DEF SubmitJob
<1>2. ASSUME NEW s \in Streams, Watch(s) \/ Disconnect(s)
      PROVE  IInv'
    BY <1>2, AddWatcherKeepsIInv, SendInitialKeepsIInv, SendInitialPanicsKeepsIInv,
       ReceiveKeepsIInv, ReportKeepsIInv, ReportFailsKeepsIInv, StopWatchingKeepsIInv,
       StreamEndKeepsIInv, DisconnectKeepsIInv DEF Watch
<1>3. ASSUME Execution \/ Retry \/ Hang
      PROVE  IInv'
    BY <1>3, StartProcessKeepsIInv, OutputLineKeepsIInv, ExitFailureKeepsIInv,
       ExitSuccessKeepsIInv, FinalizeKeepsIInv, PublishKeepsIInv, RetryKeepsIInv,
       HangKeepsIInv DEF Execution
<1> QED BY <1>1, <1>2, <1>3, LookupKeepsIInv, CancelUpdateKeepsIInv, CancelCloseKeepsIInv,
           StutterKeepsIInv DEF Next

\* The inductive invariant holds: only one submitter touches the job, and only
\* before the execution does.
THEOREM JobInvariant == Spec => []IInv
BY InitIInv, StepKeepsIInv, PTL DEF Spec

\* Every variable has its type: no channel holds more than its capacity.
THEOREM JobTypeCorrect == Spec => []TypeOK
BY JobInvariant, PTL DEF IInv

\* The registered channels are the open ones.
THEOREM JobOpenIffRegistered == Spec => []OpenIffRegistered
BY JobInvariant, PTL DEF IInv, Handlers

\* A result shows only with a terminal status.
THEOREM JobResultOnlyWhenTerminal == Spec => []ResultOnlyWhenTerminal
BY JobInvariant, PTL DEF IInv, Shown

\* A job that has completed shows its result.
THEOREM JobCompletedShowsResult == Spec => []CompletedShowsResult
BY JobInvariant, PTL DEF IInv, Shown

\* A registered stream that lags behind has a message coming.
THEOREM JobNewsPending == Spec => []NewsPending
BY JobInvariant, PTL DEF IInv

----------------------------------------------------------------------------
\* A finished job can be cancelled, and nothing else happens to it.
LEMMA FinishedStep ==
    IInv /\ [Next]_vars => (progress.status \in Final => progress'.status \in Terminal)
<1> SUFFICES ASSUME IInv, [Next]_vars, progress.status \in Final
             PROVE  progress'.status \in Terminal
    OBVIOUS
<1>1. exec = "done" /\ Exists
    BY DEF IInv, Shown, FinalOnlyWhenDone, Exists, Final
<1>2. \A s \in Submitters : pc[s] \notin {"ready", "queue"}
    BY <1>1 DEF IInv, Handlers, OneSubmits, Submitting
<1>3. ASSUME progress' = progress PROVE progress'.status \in Terminal
    BY <1>3 DEF Terminal
<1>4. ASSUME NEW s \in Submitters, Insert(s) \/ SubmitJob(s) \/ DriverDone(s)
      PROVE  progress' = progress
    BY <1>1, <1>2, <1>4 DEF Insert, SubmitJob, Ready, Queue, Enqueue, CancelExecCtx,
           DriverDone, job
<1>5. ASSUME NEW s \in Streams, Watch(s) \/ Disconnect(s)
      PROVE  progress' = progress
    BY <1>5 DEF Watch, AddWatcher, SendInitial, SendInitialPanics, Receive, Report,
           ReportFails, StopWatching, StreamEnd, RemoveWatcher, Disconnect, job
<1>6. ASSUME Execution \/ Retry \/ Hang
      PROVE  progress' = progress
    BY <1>1, <1>6 DEF Execution, StartProcess, OutputLine, ExitFailure, ExitSuccess,
           Finalize, Publish, Retry, Hang, job
<1>7. ASSUME NEW c \in Cancellers, CancelUpdate(c)
      PROVE  progress'.status \in Terminal
    BY <1>1, <1>7 DEF CancelUpdate, UpdateProgress, Terminal
<1>8. ASSUME NEW c \in Cancellers, CancelClose(c)
      PROVE  progress' = progress
    BY <1>8 DEF CancelClose, CloseWatchers
<1>9. ASSUME NEW o \in Observers, Lookup(o)
      PROVE  progress' = progress
    BY <1>9 DEF Lookup, job
<1> QED BY <1>3, <1>4, <1>5, <1>6, <1>7, <1>8, <1>9 DEF Next, vars

\* A job that has completed or failed keeps a terminal status.
THEOREM JobFinishedStaysTerminal == Spec => FinishedStaysTerminal
BY JobInvariant, FinishedStep, PTL DEF Spec, FinishedStaysTerminal
=============================================================================
