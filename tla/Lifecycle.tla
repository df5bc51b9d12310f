----------------------------- MODULE Lifecycle -----------------------------
(***************************************************************************)
(* The start and the end of a process that hosts daemons: Daemon.Start and *)
(* Stop with the httpServer of pkg/daemon/daemon.go, Start and Stop of the *)
(* discoverer, the "daemon" command (pkg/cli/daemon.go), which hosts any   *)
(* number of daemons, and the standalone driver (pkg/drivers/              *)
(* driver_orchestrator.go), which hosts one for its own job.               *)
(*                                                                         *)
(* A stream is the RPC of a client that watches a job or tails the logs:   *)
(* its handler returns when the client goes away.  Other calls return by   *)
(* themselves and are left out.                                            *)
(***************************************************************************)
EXTENDS Naturals

CONSTANTS Daemons,  \* the daemons that a "daemon" command hosts
          First,    \* the one that a standalone driver hosts
          Clients,  \* other processes, with at most one stream each
          Modes     \* "command" and "standalone"

ASSUME LifecycleAssumption ==
  /\ First \in Daemons
  /\ "own" \notin Clients
  /\ Modes \subseteq {"command", "standalone"}

VARIABLES
  mode,       \* what the process is
  main,       \* where its main goroutine is
  boot,       \* where Start or Stop of each daemon is
  bind,       \* what the goroutine of ListenAndServe has come to
  listening,  \* the daemons whose port is open
  announcing, \* the daemons that announce themselves
  open        \* the streams of each daemon, "own" being that of the driver

lifeVars == <<mode, main, boot, bind, listening, announcing, open>>

Hosted == IF mode = "standalone" THEN {First} ELSE Daemons

LifeInit ==
  /\ mode \in Modes
  /\ main = "starting"
  /\ boot = [d \in Daemons |-> "new"] /\ bind = [d \in Daemons |-> "none"]
  /\ listening = {} /\ announcing = {}
  /\ open = [d \in Daemons |-> {}]

Boots(d, l) == boot' = [boot EXCEPT ![d] = l]

----------------------------------------------------------------------------
(***************************************************************************)
(* Daemon.Start, of all daemons at the same time.                          *)
(***************************************************************************)

\* The discoverer announces the daemon before the port is open.  When it
\* fails the daemon is stopped, otherwise it goes on when Listen fails.
StartDiscoverer(d) ==
  /\ boot[d] = "new"
  /\ \/ announcing' = announcing \cup {d} /\ Boots(d, "listen")
     \/ UNCHANGED announcing /\ boot' \in {[boot EXCEPT ![d] = l] : l \in {"listen", "failed"}}
  /\ UNCHANGED <<mode, main, bind, listening, open>>

Listen(d) ==
  /\ boot[d] = "listen"
  /\ bind' = [bind EXCEPT ![d] = "pending"]
  /\ Boots(d, "await")
  /\ UNCHANGED <<mode, main, listening, announcing, open>>

BindPort(d) ==
  /\ bind[d] = "pending"
  /\ \/ bind' = [bind EXCEPT ![d] = "bound"] /\ listening' = listening \cup {d}
     \/ bind' = [bind EXCEPT ![d] = "error"] /\ UNCHANGED listening
  /\ UNCHANGED <<mode, main, boot, announcing, open>>

\* start gives the goroutine half a second to report an error; success is
\* not reported, and an error that comes later is not read.
AwaitBind(d) ==
  /\ boot[d] = "await"
  /\ Boots(d, IF bind[d] = "error" THEN "failed" ELSE "started")
  /\ UNCHANGED <<mode, main, bind, listening, announcing, open>>

Gone == /\ main' = "exited"
        /\ listening' = {} /\ announcing' = {} /\ open' = [d \in Daemons |-> {}]

\* One failure ends the process, and with it the daemons that did start.
StartFails ==
  /\ main = "starting"
  /\ \A d \in Hosted : boot[d] \in {"started", "failed"}
  /\ \E d \in Hosted : boot[d] = "failed"
  /\ Gone
  /\ UNCHANGED <<mode, boot, bind>>

StartSucceeds ==
  /\ main = "starting"
  /\ \A d \in Hosted : boot[d] = "started"
  /\ main' = "running"
  /\ UNCHANGED <<mode, boot, bind, listening, announcing, open>>

----------------------------------------------------------------------------
(***************************************************************************)
(* The clients, and the driver with its job.                               *)
(***************************************************************************)
OpenStream(c) ==
  /\ \A d \in Daemons : c \notin open[d]
  /\ \E d \in listening : open' = [open EXCEPT ![d] = @ \cup {c}]
  /\ UNCHANGED <<mode, main, boot, bind, listening, announcing>>

LeaveStream(c) ==
  /\ \E d \in Daemons : c \in open[d] /\ open' = [open EXCEPT ![d] = @ \ {c}]
  /\ UNCHANGED <<mode, main, boot, bind, listening, announcing>>

SubmitOwnJob ==
  /\ mode = "standalone" /\ main = "running" /\ First \in listening
  /\ "own" \notin open[First]
  /\ open' = [open EXCEPT ![First] = @ \cup {"own"}]
  /\ UNCHANGED <<mode, main, boot, bind, listening, announcing>>

\* CancelJob closes the channel of the watcher, and the handler returns; a
\* client has to ask for it.
CancelOwnJob ==
  /\ Clients # {} /\ First \in listening
  /\ "own" \in open[First]
  /\ open' = [open EXCEPT ![First] = @ \ {"own"}]
  /\ UNCHANGED <<mode, main, boot, bind, listening, announcing>>

\* RunDriver returns, at the end of the job or before; it has stopped
\* reading the stream of its job and does not close it.
DriverReturns ==
  /\ mode = "standalone" /\ main = "running"
  /\ main' = "stopping"
  /\ UNCHANGED <<mode, boot, bind, listening, announcing, open>>

\* The signal handler is read once: a second signal changes nothing.
Interrupt ==
  /\ mode = "command" /\ main = "running"
  /\ main' = "stopping"
  /\ UNCHANGED <<mode, boot, bind, listening, announcing, open>>

----------------------------------------------------------------------------
(***************************************************************************)
(* Daemon.Stop, with a context that has no end.                            *)
(***************************************************************************)
StopDiscoverer(d) ==
  /\ main = "stopping" /\ d \in Hosted /\ boot[d] = "started"
  /\ announcing' = announcing \ {d}
  /\ Boots(d, "closing")
  /\ UNCHANGED <<mode, main, bind, listening, open>>

\* Fault: the port stays open until the streams are over.
CloseListeners_Last(d) ==
  /\ boot[d] = "closing"
  /\ Boots(d, "draining")
  /\ UNCHANGED <<mode, main, bind, listening, announcing, open>>

\* Shutdown closes the port first, also one that is just being opened.
CloseListeners(d) ==
  /\ boot[d] = "closing"
  /\ listening' = listening \ {d}
  /\ bind' = [bind EXCEPT ![d] = IF @ = "pending" THEN "error" ELSE @]
  /\ Boots(d, "draining")
  /\ UNCHANGED <<mode, main, announcing, open>>

\* It then waits for the handlers, whose contexts it does not cancel.
Drain(d) ==
  /\ boot[d] = "draining"
  /\ open[d] = {}
  /\ Boots(d, "stopped")
  /\ UNCHANGED <<mode, main, bind, listening, announcing, open>>

Exit ==
  /\ main = "stopping"
  /\ \A d \in Hosted : boot[d] = "stopped"
  /\ Gone
  /\ UNCHANGED <<mode, boot, bind>>

----------------------------------------------------------------------------
StartStep(d) == StartDiscoverer(d) \/ Listen(d) \/ BindPort(d) \/ AwaitBind(d)
StopStep(d)  == StopDiscoverer(d) \/ CloseListeners(d) \/ Drain(d)

LifeNext ==
  /\ main # "exited"
  /\ \/ \E d \in Hosted : StartStep(d) \/ StopStep(d)
     \/ StartFails \/ StartSucceeds \/ Exit
     \/ \E c \in Clients : OpenStream(c) \/ LeaveStream(c)
     \/ SubmitOwnJob \/ CancelOwnJob \/ DriverReturns \/ Interrupt

\* The goroutines that stop the daemons run.
LifeFairness ==
  /\ \A d \in Daemons : WF_lifeVars(StopStep(d))
  /\ WF_lifeVars(Exit)

LifeSpec == LifeInit /\ [][LifeNext]_lifeVars /\ LifeFairness

----------------------------------------------------------------------------
(***************************************************************************)
(* A process that is told to stop does so once its clients leave it alone: *)
(* clients that keep on connecting do not hold it.  One client that tails  *)
(* the logs, or watches a job that is over, does.                          *)
(***************************************************************************)
StopsOnceUnwatched ==
  ([]<>(\A d \in Daemons : open[d] = {})) => (main = "stopping" ~> main = "exited")

(***************************************************************************)
(* Daemon.Stop "gracefully shuts down the daemon and all services", and    *)
(* when that fails "the daemon will still stop".                           *)
(***************************************************************************)
StopStops == main = "stopping" ~> main = "exited"
=============================================================================
