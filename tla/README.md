# A TLA+ development for buildozer

buildozer is a peer-to-peer distributed build system written in Go.  A *driver*
(`gcc`, `g++`, `ar`, ...) stands in for a compiler, turns its command line into
a job and submits the job to the local *daemon*; the daemon places the job on a
*runtime* (a compiler it has detected, or one of another daemon), executes it
and streams progress back.  Daemons find each other by UDP multicast.

This directory holds TLA+ modules for the parts of the system in which several
goroutines, clients or machines act at once, and for those in which a file, a
runtime or a command line changes hands several times; TLC configurations that
check them on small instances; and TLAPS proofs of what holds for every
instance.

    tlc -config MCScheduler.cfg MCScheduler      # one run
    tlapm SchedulerProofs.tla                    # the proofs of one module

## 1. The system

| part | source | state it keeps | who acts on it |
|---|---|---|---|
| scheduler | `pkg/scheduler/scheduler.go`, `queue.go` | FIFO queue of waiting jobs | RPC goroutines (EnqueueJob), one goroutine per execution (TryScheduleNext) |
| heuristic | `pkg/scheduler/heuristics` | none | called by the scheduler |
| job manager | `pkg/daemon/job_manager.go` | map of jobs; status, result and watcher channels of each | SubmitJob, WatchJobStatus and CancelJob handlers; the callbacks of the execution |
| job service | `pkg/daemon/job_service.go` | none: one streaming loop per RPC | clients |
| driver | `pkg/drivers` | the command line, the resolved runtime | the user; ends with the exit code of the job |
| execution | `pkg/runtime/executor.go`, `pkg/runtimes/cpp/native` | a process, two pipes and their readers | its context |
| runtime managers | `pkg/runtimes`, `pkg/runtimes/remote` | what the daemon detected when it started, kept for its life | all RPCs; daemons call each other |
| detection | `pkg/runtimes/cpp/native`, `registry.go`, `discoverer.go` | the toolchains found so far | `Daemon.Start`, under a context that is never done |
| peer discovery | `pkg/peers` | known peers, when each was last heard of | announcement loop, listener loop, the other daemons |
| remote execution | `pkg/scheduler/remote_*.go` | active streams, subscribers of each | not called by the daemon yet |
| daemon | `pkg/daemon/daemon.go` | running or not, its services | the command line |
| staging, sandbox | `pkg/staging`, `pkg/sandbox` | files and temporary directories | drivers, executions |
| logging | `pkg/logging` | sinks, and for some loggers the list of those they write to | everyone; sessions that tail logs; remote configuration |
| configuration | `pkg/config` | settings | start-up |
| introspection, discovery services | `pkg/daemon` | none: views of the others | clients |

How they interact: the submitting driver holds a stream open.  The handler of
that stream calls `JobManager.SubmitJob`, which registers a watcher channel and
calls `Scheduler.EnqueueJob` with two callbacks.  The scheduler asks its
heuristic for a placement and starts a goroutine that executes the job, calls
the callbacks, which update the job under its lock and notify its watchers, and
then retries the head of the queue.  Discovery fills the peer manager; the
runtime managers read it to ask the peers for their runtimes.

What makes it hard: (a) the scheduler's Peek and Dequeue are separate critical
sections; (b) the decision to queue and the queueing are too; (c) a job's
status is written by its submission, its execution and its cancellation, with
no order between them; (d) messages to watchers are dropped when a channel is
full, and channels are closed while others send; (e) contexts of one RPC reach
the execution of another job; (f) announcements are lost, reordered, and carry
copies of copies; (g) each daemon answers queries by asking the others; (h) the
runtimes are detected once per start of a daemon, while compilers come and go; (i) a file is
hashed by one party, read by a second and verified by a third; (j) the sinks of
a logger are replaced by lists made from earlier readings; (k) a shutdown waits
for streams that their clients keep open.
`PROJECT.json` lists each hazard with its line.

What each part has to guarantee:

* scheduler: a job is started at most once, a queued job is never lost, a
  removed one never runs, and a waiting one is retried.
* job manager: open channels are exactly the registered ones; a finished job
  stays finished; results are published with the status; every watcher learns
  of the end.
* driver: exit code 0 only for a job that has completed.
* discovery: peers that stay up come to know each other; a peer's runtimes are
  those it announced; traffic stops when there is nothing to say.
* runtime managers: a runtime that is installed is found, one that a job is
  placed on exists, every query is answered.
* detection: what is registered is what the host has.
* staging, sandbox: a job runs on what its client hashed, and what it reports
  as its output is the output of that run.
* drivers: the command that is executed says what the user said, on the
  toolchain that the user meant.
* logging: a client that tails a logger is sent its records, and tailing takes
  nothing from anybody else.
* daemon: told to stop, it stops.

## 2. Modules

| module | models | notes |
|---|---|---|
| `Scheduler` | `scheduler.go`, `queue.go` | each critical section is an action |
| `Dispatch` | what the scheduler promises | abstract: one atomic queue |
| `SchedulerProofs` | | TLAPS proofs about `Scheduler`, and that it implements `Dispatch` |
| `JobManager` | `job_manager.go`, `job_service.go`, the stream reader of `job_submission.go` | one job id |
| `JobManagerProofs` | | TLAPS proofs about `JobManager` |
| `Discovery` | `discoverer.go`, `manager.go` of `pkg/peers` | several daemons and the network between them |
| `DiscoveryProofs` | | TLAPS proofs about `Discovery` |
| `RuntimeCache` | `daemon.go` (Start), `runtimes/manager.go`, `runtimes/service.go`, the heuristic, the drivers' query | detection as one step |
| `RuntimeCacheProofs` | | TLAPS proofs about `RuntimeCache` and `Detection` |
| `Detection` | `runtimes/cpp/native/detector.go`, `discoverer.go` | inside one detection |
| `PeerQuery` | the aggregated and the remote manager, `internal/utils/map.go` | one query over the network |
| `Logging` | `logging/logger.go`, `global.go`, `config_manager.go`, TailLogs | which sinks a logger writes to |
| `LoggingProofs` | | TLAPS proofs about `Logging` |
| `Staging` | `pkg/staging`, `pkg/sandbox`, the drivers' checks, FinalizeJobCompletion | the files of a job |
| `StagingProofs` | | TLAPS proofs about `Staging` |
| `OptionValues` | | how values read, for the two modules below |
| `CommandLine` | `drivers/cpp/gcc_common`, `pkg/runtime`, the native executor | compile and link jobs |
| `DriverProofs` | | TLAPS proofs about `CommandLine` and `Archive` |
| `Archive` | `drivers/cpp/ar_common`, the native executor | archive jobs |
| `Lifecycle` | `daemon.go`, `cli/daemon.go`, `driver_orchestrator.go` | start and stop of a process |
| `MCScheduler`, `MCJobManager`, `MCDiscovery` | | instances for TLC |
| `MCParts` | | the eight components that share no state, one instance |
| `PartsProofs` | | TLAPS proofs about `PeerQuery`, and about the components together |

The scheduler and the job manager meet in the two callbacks and the answer of
`EnqueueJob`.  `JobManager` has these as actions of one job, with the context that the
execution runs under left open; `Scheduler` has an execution that ends, hangs or
panics.

`MCParts` puts the components that share no state into one specification.  The
variable `part`, chosen initially, says which of them runs; the others stay in
their initial state.  Their fairness is asked for of the running part only
(`PartsFairness`).

### Scheduler

`queue` is `JobQueue.jobs`.  `sub[j]` is where the `EnqueueJob` of job j is;
`pc[t]` is where a goroutine is; `held[t]` is the job its last `Peek` returned.
`EnqueueJob` is `EnqueueStart | EnqueueBusy, EnqueueAppend | EnqueueReject`:
the answer of `scheduleJob` first, the append in a second step, exactly where
the code takes the queue's mutex.  `TryScheduleNext` is `PeekHead`, one of
`RetryStart`, `RetryBusy` and `RetryRefused`, then `DequeueHead`.  The body of
the goroutine that `scheduleJob` starts is `Complete`, `Hang` or `Panic`.
`Answer` is the heuristic together with `GetRuntimeByID`, reduced to the four
outcomes that `scheduleJob` tells apart.

The shipped heuristic, `SimpleLocalFirst`, never answers that all runtimes are
busy; the queue comes to life with another implementation of the interface
(`heuristics/types.go`), which `ErrAllRuntimesBusy` and the queue exist for.
`Slots` bounds from below how many executions must run before "busy" is
answered: 0 leaves the heuristic free, 1 says that busy runtimes are busy with
jobs of this daemon.

Four history variables (`gone`, `dropped`, `removed`, `raced`) record what
happened to a job.  `raced` becomes true when a goroutine peeks while another
is between its Peek and its Dequeue, or a job is removed under such a
goroutine: from then on the code gives no guarantee beyond `QueuedOnce`, and
the run `scheduler_race` shows why.

`Dispatch` is the promise: jobs move atomically between new, waiting, started,
refused and removed.  The refinement maps a waiting job to started or refused
when `scheduleJob` has decided on it, so the line is the tail of the queue
while a Dequeue is still owed.  `ImplementsUnlessRaced` is the refinement up to
the first race.

### JobManager

`progress` and `result` are the fields of `JobState`.  A watcher's channel
carries pointers to one shared `JobProgress`, and a handler that receives one
sends what `GetJobStatus` says at that moment: so a channel is its number of
messages (`buf`) and whether it is closed.  `pc` is where each RPC is, `exec`
where the execution is, `ctx` the context the scheduler was given, `seen` what
each client has read, `left` the clients that are gone.

`SubmitJob` is the sequence Insert, AddWatcher, SendInitial, Ready, Queue,
Enqueue, CancelExecCtx, each a critical section or a call.  The completion
callback is `Finalize` (the result, under the lock) and `Publish` (the status,
under the lock again).  `UpdateProgress`, `CloseWatchers` and `RemoveWatcher`
are operators used by every action that calls them.  The loop of both handlers
is Receive, Report or ReportFails, StopWatching, StreamEnd: Go's select may
choose the message when the context is done too.  `ExitCode` is the driver's
code after its loop.

One job id is enough: jobs share nothing but the map.  The data race on
`UpdatedAt`, read by the handler without the lock, is left out: it is a
timestamp nobody branches on.  The ten-second timeout of the scheduler call is
in the choice of `ctx` in `Enqueue`.

### Discovery

Each daemon has a table of peers (`peers[d][p]`, Manager.peers), the time since
it last heard each of them (`heard`, lastAnnouncementTime), and two goroutines:
`announcer` and `listener` are where they are.  An announcement is `ReadRecent`
(the read of the times, under the discoverer's lock: who is asked not to
answer) and `SendRequest` (the read of the table, under the manager's lock,
and the send).  Between the two the listener may do anything.  A message that
arrives is `Receive` (the first part of handleAnnouncement, under the
discoverer's lock) and `Handle`: registration of the sender, the loop over
KnownPeers, and the answer.  These take the manager's lock several times, but
the listener is the only goroutine that writes the table.  What the one step
leaves out is an announcement that reads the table with some of a message's
entries registered and not the others: each entry it then passes on is the old
or the new one, and no property relates two entries of one reading.

What is on record of a peer is its runtimes.  A daemon detects them once per
start, so they are named by the start they belong to, together with the number
of PeerIds each carries: that is all the properties tell apart.  `net` is a set
of copies, one per daemon that listens; a copy may be lost (`Lose`) and copies
arrive in any order.  A crash or a stop loses all state, and the copies that
were on their way to the daemon.

Time is abstract.  The time since a peer was heard is one of three ages, which
are what the code compares with: less than half the window of 90 s (asked not
to answer), less than the window (not answered), more.  A packet takes much
less than either or than the announcement interval, so the ages grow (`Age`) and a
daemon announces itself for having heard nothing (`ReadRecent`) only when
nothing is on its way.  The first announcement of a start does not wait.

Detection is taken to succeed (the code sends an empty list when it does not),
and endpoints to parse.

### RuntimeCache

`installed` is what the host has; `ChangeHost` installs, removes or replaces
compilers at any time.  `daemon` follows `Daemon.Start`: it detects
(`DetectRuntimes`, which fills `cache`), sets up the local peer and the
discovery, and starts the server (`Serve`); only then can anybody call it.  A
daemon that has gone down, by a stop or by a crash, is started again and detects
anew.  A detection is one step, which finds every runtime that was on the host
since the daemon started and none that was off it; what comes or goes meanwhile
it may find or not (`Detects`; `Detection` is what happens inside, on a host
that keeps still).

`GetRuntimes` also has branches for a caller that finds no answer yet and for
one that finds a detection in progress.  They are left out, because no caller
gets there: Start's own call, under `context.Background()`, has stored its
answer before the discoverer and the server start, an error of the detector
included, and nothing ever clears it.

A driver asks `GetRuntime` first and submits only if it was answered
(`AskRuntime`).  The job of a driver or of a direct client names its runtime
(`PlaceExplicit`): `GetRuntimeByID` answers `nil, nil` for one it does not know,
which the heuristic takes for a local one.  The job of an archiver has a query
(`PlaceMatching`).  The scheduler's manager is the local one: its `Match` asks
no peers and never errs, so a query is placed on a runtime in the cache, the
first of a Go map's order, or refused.  `ExecuteChosen` is the look-up in
`scheduleJob` and the call of `Execute`, which panics on nil in a goroutine that
nothing recovers: the daemon is gone.  Calls to a daemon that does not serve
fail (`CallFails`), and so do the jobs in one that goes down (`WithoutDaemon`).

Two histories, `lastChange` and `detections`, say after which start a runtime
last came or went and what each start has found; two more which start of the
daemon each client dealt with.

### Detection

One call of the detector.  The compilers that have not been asked are `unseen`;
`DetectCompilerToolchains` takes the next of them, in the order in which
`findCompilerPaths` finds them (`ComesBefore`).  The nested loops over its C
runtimes, architectures and standard libraries are the list of tasks that are
`left`.  `TryCandidate` runs the compiler once, with one candidate for the first
task; when all have been tried, `ForEachFound` replaces the task by one for each
that passed, or by the default (`OrDefault`).  A task for which all is chosen is
built by `BuildToolchain`.  A run that fails is no error of the detection; its
context is that of `Daemon.Start`, which is never done.  `Key` is what a
runtime's ID is made of, `RegisterAll` drops the second of two toolchains with
the same ID.  A host is what lies along its PATH.

### PeerQuery

Two daemons, `here` and `there`, and leaves that have no peers.  A frame is the
handler of one call; frames alternate between the two daemons while each knows
the other.  `CallOther` is the call of the remote manager, `Answer` merges the
own runtimes with what `Map` collected, which is nothing if one call failed.
`ClientGivesUp` ends the context of the first frame, `PassCancel` that of the
next one.

### Logging

`configured` and `list` are the entries of `Registry.loggerConfigs`, `sinks` is
`Registry.sinks`.  A logger without an entry inherits that of its nearest
ancestor that has one.  Each step is one critical section of the registry's
mutex.  A session (TailLogs) registers its sink, and for each of its targets
reads the list and writes it back with its sink; at the end it does the same to
take it off.  An administrator's calls do the same with other sinks.  Since all
write lists made from copies, what was written between the read and the write is lost;
the history variable `disturbed` records the loggers this has happened to,
`created` those whose entry a session made.

### Staging

`src` and `out` are the input and the output file in each of three directories:
the job's (`work`), the sandbox (`box`) and the runtime's own (`own`).  `phase`
is how far a job is: created by a driver and verified, embedded, staged, run,
collected, cleaned up, finalized, and the driver's look for its outputs.
`wrappers` are the sandboxes around the runtime, each of which acts in its phase
or lets the job pass (`PassThrough`).  `Runtimes` are the C++ runtime in its
TempDir, the remote one behind EmbedInputs, and `cwd`, one that takes every kind
of input and works in the job's directory, in every combination of sandboxes:
the package is meant for that, and its tests use it so.  `Edit` is anybody who
changes a file of the client meanwhile.  A content is its own hash.

### CommandLine and Archive

Their invariants compare what the code makes of a command line with a definition
that reads it as its user does.  `CommandLine`: a step, `ParseCommandLine`, is
one pass of the parser's loop, which takes the next argument of any command
line; `line` is what has been read, `parsed` what the parser has made of it,
with the option that waits for its value.  What has been read is itself a
command line, and `Nothing` the loop's start.  `ReadField` is the other reading:
an argument is a value when an odd number of options in a row stands before it.
`JobFields` is what of it goes into a compile or a link job.  A define does not
get there as it was typed: `ConcreteDefines` is the Go map that the runtime
makes of the defines, with the last value for each macro and the empty one for a
define without a value, and the compiler is given `-Dm=v` for each entry.
`InCommand` compares what a field says to the compiler with what the user said,
where `-DX` means `-DX=1`.  `RuntimeID`, `ParseRuntimeID` and `RuntimeToID` are the three conversions
of a runtime, `ModifiedRuntime` the effect of the compiler's flags on it.
`Archive` does the same for ar: `next` is what the loops of its parser look for
(the command, the archive, or members), `value` says that an option waits for its
value, `ArCommand` is what the runtime executes.  `Operands` is the other
reading, by the same rule about values (`OptionValues`).

### Lifecycle

`boot[d]` is where Start or Stop of each hosted daemon is, `bind[d]` what the
goroutine of ListenAndServe has come to, `listening` the open ports, `announcing`
the discoverers that run, `open[d]` the streams of each daemon.  The two modes
are the `daemon` command, which starts and stops any number of daemons, and the
standalone driver, which hosts one for its own job.  Calls that return by
themselves are left out; what holds a shutdown is a stream.

## 3. Runs

| run | expects | question | bounds |
|---|---|---|---|
| `scheduler` | pass | where can a job be? | 3 jobs, 3 executions, 1 outside caller |
| `scheduler_live` | pass | is the head retried? | 2 jobs, 3 executions, 1 outside caller |
| `scheduler_race` | violation | does Dequeue take the job just scheduled? | 4 jobs, 4 executions |
| `scheduler_wakeup` | violation | is a queued job retried? | 2 jobs, 2 executions |
| `jobs` | pass | what are watchers told? | 1 submitter, 1 observer, 1 canceller, channels of 2, 1 line |
| `jobs_stream_end` | violation | does an observer's stream end with the job? | as `jobs` |
| `jobs_exit` | violation | does exit code 0 mean completed? | as `jobs` |
| `discovery` | pass | what do tables, messages and ignore lists hold? | 3 daemons, 1 crash, 2 starts each, 1 lost copy, 1 announcing at a time |
| `discovery_live` | pass | do the daemons find each other, with current runtimes? | 3 daemons, 1 just restarted, 2 lost copies, time passes for 1 |
| `parts` | pass | what do the eight other components keep to? | see below; about 487 000 states, a minute |
| `unknown_runtime` | violation | does a placed job have a runtime? | 1 client that names its runtime, 2 runtimes |
| `standalone_stop` | violation | does Stop stop? | 1 standalone driver |

Why the bounds are enough.  A race in the scheduler needs two goroutines in
TryScheduleNext and two jobs in the queue; a job in front and one behind make
three, and the four of `scheduler_race` are two that run and two that wait.
Executions are goroutines that may ever be started, so three of them let each
of three jobs run or one job run twice.  A channel of two messages fills up
after the snapshot and one update, so updates are dropped, the blocking send
blocks, and the last message still has a place to be lost in; the code's ten
only need more output for the same.  A second submitter with the same id takes
the early return of `Insert` and holds no state; two observers are independent
of each other given the job.

For discovery, three daemons are a requester, one that answers and one that is
told about, and any of them passes on what it was told.  The runs start where
the interesting things begin, in a state the program comes to by itself:
`Settled` is a network in which all know each other and nobody was heard within
the window, `JustRestarted` the same with one daemon started again, at once or
later.  A table that knows everybody has something stale in it after one
restart.  One lost copy already makes a daemon believe it was heard when it was
not; the live run loses two.  In the live run time passes for one daemon only
(`Aging`), one of the two that may remember the restarted daemon: the others
show what happens when nobody is ever answered again.  Announcements overlap
with answers but not with each other (`MaxAnnouncing`): that bound is one of
TLC's, and the proofs do without it.

The bounds of `parts`, component by component:

* cache: a driver, a direct client and an archiver; a daemon that is started
  twice, on a host that changes twice.  For a driver to be answered by one daemon
  and to submit to another takes two starts, and for that daemon to miss the
  runtime one change; the second change brings the runtime back or moves another.
  The driver's and the direct client's runtime is one of two, either of which
  the host may have; the archiver takes both.
* detection: four hosts.  Several names of one compiler next to a clang that
  builds everything; versions that cannot be told; compilers that do not work;
  no archiver.
* queries: two leaves, one of which may be out of reach, and four frames, so
  that each daemon is asked back once.
* logging: two sessions and an administrator with two calls, over a logger and
  its parent.  Lost writes take two parties; the third shows that nothing else
  loses any.
* staging: two jobs one after the other (the second finds the first one's
  files), two edits, two contents besides the empty file.
* command lines: all of up to four out of fifteen arguments, one for each way
  in which the parser treats one; all of up to six out of six, for two defines of
  a macro, attached or as the value of `-D`, with or without a value, besides the
  source and the output that a job needs (`Considered`); all of up to five out of seven for ar, which
  is an option with its value, the command, an archive and a member.
* processes: both modes, two daemons, two other clients.

Deadlock is checked for discovery.  It is not for the other modules: an idle
daemon waits for submissions, an execution that hangs may leave nothing to do,
and jobs, calls and command lines are bounded.

What the six violations show is under "findings" in `PROJECT.json`:

1. two completions at a time start the head twice and drop the next job;
2. a completion between the busy answer and the append loses the wake-up;
3. only `CancelJob` closes the watchers' channels, so an observer's stream
   outlives the job;
4. a cancellation between READY and QUEUED closes the driver's stream with a
   status that is not terminal, which the driver turns into exit code 0;
5. a job that names a runtime which the daemon does not have is placed as if it
   had: the daemon looks it up, gets nil without an error, and dies of it.  A
   client that submits without asking first is enough.  A driver asks first, and
   brings this about only with a daemon that was started anew between its two
   calls and has lost the runtime; a query never does (`DriversDoNotCrashIt`
   holds);
6. the standalone driver stops reading the stream of its job without closing
   it, and then waits in Stop for the handler of that stream.

The passing properties that state what the code does where a reader might
expect more:

* `SteadyRuntimesServe`: what comes to the host after a daemon began to detect is
  denied by that daemon for the rest of its life; what was there before is not.
* `DetectsTheHost`: a compiler that builds nothing the detector tries is
  registered all the same, with the defaults.
* `AnswerAllOrNothing`: one unreachable peer hides all the others.
* `QueryEnds`: two daemons that know each other ask back and forth until the
  client gives up.
* `ConsoleShadowedByTailing`: tailing a logger that inherits its sinks gives it
  an entry that hides them for good.  `TailedUnlessDisturbed`: a session loses
  its records when another party writes back an older list.
* `TempDirDropsOutputs`, `NoInputReachesTheCompiler`: the directory is removed
  before the outputs are looked for in it, and references cannot be staged into
  it while file data is refused by the runtime in it; no job with an input
  completes with the C++ runtime.  `CommandLine` and `Archive` therefore
  describe the commands that would be executed.
* `CompletedOutputIsOfThisRun`: the result of a remote job has no hash, so an
  output that lies there from before is accepted.
* `OnlyTheseAreLost`: a compile job drops unknown flags and everything to be
  linked, a link job the compiler flags and the defines, both `-L`; of several
  defines of a macro the last one stays, and `-DX` reaches the compiler as `-DX=`,
  which defines X as nothing instead of 1, where `job.proto` says that defines
  are passed as `-D` flags.  `AsksForItsToolchain`: a
  version that is unknown or has four numbers does not survive the way from an ID
  and back.
* `ArchivesAsTyped`: with a command such as `rb`, whose member comes before the
  archive, the member is taken for the archive.
* `StopsOnceUnwatched`: one client that tails the logs keeps a daemon alive.

Each property has a mutant, an operator that gets the code wrong the way a
plausible bug would; the mutants stand next to the definition they change,
under the word Fault.

## 4. Fairness

`Scheduler!FairSpec` and `JobManager!Spec` assume weak fairness of the steps of
goroutines that can run: that is Go's scheduler.  They assume that an
execution which does not hang ends, because `exec.CommandContext` kills the
compiler when its context is done.  An execution may hang, and then nothing is
assumed of it: `bufio.Scanner` gives up at a line over its limit, nobody reads
the pipe any more, and `cmd.Run` waits for the copy into it.  Nothing is
assumed of users, clients, connections, cancellations or outside callers, nor
that a waiting job is ever retried.

`Discovery!Fairness` assumes weak fairness of each listener (its goroutine
runs, and what was not lost arrives) and strong fairness of each daemon's
announcements.  The latter needs an argument, for an announcement resets the
wait of all who hear it.  Each daemon looks at its clock once a second, from its
start on, so each has a phase within the second.  Who announces at a tick at
time T notes its own activity after sending, so at the tick at T + interval it
has not waited long enough, and its next chance is at T + interval + 1 s.  Every
other daemon noted the announcement when it heard it and has a tick between
T + interval and then; the first of these ticks is that of the next phase, and
its announcement puts off all others.  So the daemons take turns in the order
of their phases, and each announces itself again and again.  Who misses an
announcement only comes sooner.  (Two phases closer than the time a packet
takes are excluded by this argument.)  Nothing is assumed of crashes,
losses or ages; losses are finitely many.

`QueryFairness`: a
call arrives or fails, handlers run, and a caller's cancellation reaches the
server, as Connect passes the end of a request on.  `LifeFairness`: the
goroutines that stop daemons run, and the process exits when they are done.
Nothing is assumed of clients: they may stay for ever, and the liveness
properties say what depends on that.

## 5. Proofs

`SchedulerProofs` proves, for all sets of jobs, executions and callers and all
answers:

* `TypeCorrect`: `TypeOK`.
* `QueuedOnceCorrect`: `QueuedOnce`, in every state, raced or not.
* `HeadHeldCorrect`, `AtMostOnceCorrect`, `NoneLostCorrect`,
  `RemovedNeverRunsCorrect`: the four properties that hold until a race.

The argument.  `TypeOK` alone is not inductive, because Dequeue records the
head of a queue: `TypeInv` adds that a goroutine past its Peek holds a job.
`QueuedOnce` is inductive on top of it, with lemmas on what Append, Tail and
RemoveAt do to a sequence without duplicates.  The other four are not
inductive, not even together.  They follow from `Serial`, which says that, while
`~raced`, at most one goroutine is between Peek and Dequeue (`Alone`); every
started job came from a submission that was scheduled at once or through the
queue (`StartedFrom`); what left the queue was decided on (`Decided`); the head
is held; and no job is started twice.  `IInv` is `TypeInv`, `QueuedOnce` and
`~raced => Serial`; `SerialStep` has one case per action.  `IInv` is an
invariant of the run's instance as well.

The proofs rest on `SchedulerAssumption` only (executions and callers are
disjoint, `None` is no job).

`DiscoveryProofs` proves, for any set of daemons and any bounds on starts,
crashes, losses and announcements at a time:

* `DiscoveryTypeCorrect`: `TypeOK`.
* `DiscoveryRecordsAreGenuine`: `RecordsAreGenuine`.
* `DiscoveryUnansweredIsKnown`, `DiscoveryAnswersLackNobody`: the two that
  relate when a peer was heard, what is asked of it and who is on record.

None of them is inductive without the messages, for tables are filled from
messages and messages from tables.  `IInv` says of every message, on its way or
being handled, what the properties say of tables: its entries are genuine
(`GenuineMessage`), and those it asks not to answer are registered with its
sender as long as that has not been started again (`KnowsIgnored`).  That a good
message stays good follows once for all actions from `Grows`: starts only grow,
and a daemon that goes on running forgets nobody.  Then there is one lemma per
action.  `AnswersLackNobody` follows from `KnowsIgnored` of the message that is
being answered.  Besides the bounds, the proofs assume nothing
(`StartsPositive`, `BoundsNat`).

It also proves the refinement (`SchedulerImplementsDispatch`,
`ImplementsUnlessRaced`): for every instance, each
step before the first race is a step of `Dispatch` or a stutter.  `Calm` is what
a step starts from: `TypeInv`, `QueuedOnce`, `Serial` and `DroppedHeld` (a job
that was given up is held by the goroutine that gave it up, or has left the
queue).  There is one lemma per kind of step; the one about sequences is
`TailOfRemoveAt`: taking out a job behind the head and then the head is the same
as the other way round.

`JobManagerProofs` proves, for any set of clients, any size of channels and any
bounds, `TypeOK`, `OpenIffRegistered`, `ResultOnlyWhenTerminal`,
`CompletedShowsResult`, `NewsPending` and the action property
`FinishedStaysTerminal`.  `IInv` has, besides `TypeOK`, three parts.  `Handlers`:
open channels are registered, a handler that has no channel yet is registered
nowhere, nothing happens before the job is inserted, and one handler submits it.
`Shown`: a result is that of the execution, and is final only when the execution
is over; with that, a terminal status shows its result although the two are
written in two critical sections.  `NewsPending` holds because a message is
dropped only when the channel already holds one.

`RuntimeCacheProofs` proves, for any callers, runtimes and bounds, `CacheTypeOK`,
`SteadyRuntimesServe` and `DriversDoNotCrashIt`.  Neither of the two is inductive.
`CacheInv` ties the cache to the host for the runtimes that were steady since the
detection began (`SteadyOK`), and to what the last start has stored (`StoredOK`);
nobody has dealt with a daemon that is still detecting (`AnswersOK`), so what is
stored then changes no answer that somebody relies on; a job is in the daemon
that took it, and that of a query has its runtime there (`PlacedOK`); a driver
goes on only when the daemon that it asked had found its runtime (`DriversOK`).

It also proves `DetectsTheHost` of `Detection`, for any hosts.  At every step
nothing is lost (`NothingLost`): what has been found, what the tasks that are
left stand for (`KeysLeft`: all that the executable can do with what is chosen
already) and what the unseen compilers stand for are together what the host has.
The candidates that have passed are those tried that pass (`PassedOK`), so
replacing a task by its variants, or by the default, changes nothing.
`NoneTwice` says that no two toolchains found have the same ID.

`StagingProofs` proves, for any contents, runtimes and bounds, `StagingTypeOK`,
`RunsOnWhatWasHashed`, `CompletedOutputIsOfThisRun`, `TempDirDropsOutputs` and
`NoInputReachesTheCompiler`.  The invariant follows the hash: the input keeps it
until the runtime runs (`InputOK`), `Materialized` compares a file with it
(`BoxOK`), what the C++ runtime is left to run with is nothing (`CompilerOK`),
and the directory of a TempDir is empty when the outputs are looked for (`BoxIsGone`).

`LoggingProofs` proves, for any sessions, administrators, loggers and any number
of calls, `LoggingTypeOK`, `SinksOfLoggersExist`, `TailedUnlessDisturbed` and
`ConsoleShadowedByTailing`.  What these say of lists that are rewritten from
copies follows from what is known of the copies: an administrator's holds file
sinks where it is going to clear or drop (`FilesOnly`); a session tails every
logger it has visited, not only when it has visited all (`Tailing`); and an
entry that the configuration made names the console (`ConsoleKept`).

`DriverProofs` proves, for command lines of any length, `ParsedAsItReads` and
`OnlyTheseAreLost`, and `AsksForItsToolchain` for any toolchains.  Because the
loop is a sequence of steps, this takes no induction over the line but an
invariant of the loop, `LineInv`.  `ParsedAsItReads` alone is not inductive:
nothing in it says when the parser waits for a value.  `WaitsForValue` says that
it does exactly when the next argument reads as one, and for that `RunCounted`
has to say that the options in a row before it can be counted; that they have
one count only is the lemma `RunIsOne`.  The reading of an argument depends on
those before it only (`LocalReading`), so one more argument changes the entries
of one field (`EntriesGrow`).  `OnlyTheseAreLost` follows, for the defines from
`AllPlaced`: each entry of a field is some argument's, so the define that the map
keeps is the last one of its macro on the line.  `AsksForItsToolchain`
is a fact about the three conversions and needs no invariant: `FlagsAsk` proves
it for whatever the flags have set, `RuntimeIDInjective` says that two IDs are
equal only with equal fields, `PlainKept` that a plain version is read as it is.

It also proves `ArchivesAsTyped`, for command lines of any length, from `ArInv`.
Before the members the parser waits for a value exactly when the next argument
reads as one, as above (`ArRunCounted`, `ArWaitsForValue`); the first operands
are the command and the archive that were parsed (`HeadRead`), and what is behind
the archive are the inputs, one by one (`OperandsParsed`).  Since neither the
archive nor a member is an option there, no member reads as a value, so the
places of the members follow that of the archive (`PlacesFollow`).

`PartsProofs` proves `AnswerAllOrNothing` of `PeerQuery`, for a chain of any
length: every frame that is done has answered with its own daemon's runtimes
alone, or with those of every daemon it asks (`AllOrOwn`); a frame that merges
the answer of a frame below it merges all or nothing.  Then it puts the
components together as the run `parts` does: a step of one is no step of the
others (`StepOfEach`), so the seven invariants hold together (`PartsInv`), and
with them `PartsTypeOK` (`PartsTypeCorrect`) and all fifteen safety properties
of the run (`PartsSafe`).

These proofs rest on the assumptions of the modules only, which say of the
constants what the code fixes: sets that are disjoint, bounds that are numbers,
arguments that are known ones.

Only model-checked: the liveness properties, for TLAPS has no fairness here.
`Lifecycle` has no invariant of its own to prove: its property is liveness.

## 6. Not modelled

* The code generated from the `.proto` files, about half of the lines of the
  repository: accessors and descriptors.  What matters of it, that an empty
  content and a missing one are the same on the wire, is in `Staging`.
* Configuration, the command line client, the introspection and discovery
  services: sequential, or read-only views.
* Remote execution: `RemoteExecutor`, `RemoteTracker`, `RemotePreparer` and
  `peers/remote_manager.go` are called by their tests only.  The end of a remote
  stream removes the subscribers without closing their channels, and
  `Unsubscribe` cannot be called with the channel that `Subscribe` returns; a
  model would have to invent the actors.  `RemoteRuntime` is in `Staging`.
* Code without callers: `runtime_resolver.go`, `daemon_client.go`,
  `runtime_matcher.go`, `daemon/runtime_manager.go`, `cli_validation.go`,
  `variant_detector.go`, `pkg/toolchain`, `WriteJobDataToFileWithSourceDir`,
  `IsWorkdirContained`, and the removal of peers.
* A job that names a runtime with peer ids: no client makes one.
* `NewDaemon` and the search for free ports; levels, formats, the ring of
  records and the rotation of log files; how versions are cut out of what a
  compiler prints; times on record of a peer, timestamps of jobs.

The hazards in `PROJECT.json` that no property covers each have a note: most are
modelled, and what they would violate is promised nowhere, as for a job that the
scheduler refuses and that stays QUEUED.

Next would come a composition of `Scheduler` with `JobManager` in which the
context of one submission reaches the execution of another's job, and the
remote executor, as soon as the daemon calls it.
