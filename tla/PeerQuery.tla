------------------------------ MODULE PeerQuery ------------------------------
(***************************************************************************)
(* ListRuntimes and Match for the whole network: the aggregated manager of *)
(* pkg/runtimes/manager.go, the remote manager of pkg/runtimes/remote/     *)
(* manager.go, the handler of pkg/runtimes/service.go and the parallel Map *)
(* of internal/utils/map.go.                                               *)
(*                                                                         *)
(* Two daemons, "here" and "there", and leaves that have no peers.  A      *)
(* daemon asks every peer it knows, and does not set local_only: a daemon  *)
(* that knows the asker asks back.  The calls make a chain of frames: the  *)
(* client calls frame 1, which runs here and calls frame 2, which runs     *)
(* there, and so on.                                                       *)
(***************************************************************************)
EXTENDS Naturals

CONSTANTS Leaves,    \* daemons that both others know and that know nobody
          MaxFrames  \* bound: the length of the chain

ASSUME PeerQueryAssumption ==
  /\ MaxFrames \in Nat \ {0}
  /\ Leaves \cap {"here", "there"} = {}

Frames == 1..MaxFrames

VARIABLES
  mutual,     \* whether "there" knows "here"
  reachable,  \* the leaves that answer
  frame,      \* the state of each frame
  ctxDone,    \* the frames whose context is done
  answer      \* the daemons whose runtimes the frame has answered with

queryVars == <<mutual, reachable, frame, ctxDone, answer>>

FrameState == {"none", "asking", "failed", "done"}

QueryInit ==
  /\ mutual \in BOOLEAN
  /\ reachable \in SUBSET Leaves
  /\ frame = [k \in Frames |-> "none"]
  /\ ctxDone = {}
  /\ answer = [k \in Frames |-> {}]

Daemon(k) == IF k % 2 = 1 THEN "here" ELSE "there"

\* Whether the daemon of the frame has the other one among its peers.
AsksOther(k) == Daemon(k) = "here" \/ mutual

OtherCall(k) == IF k < MaxFrames THEN frame[k + 1] ELSE "none"

\* Fault: the answers of the peers that did answer are kept.
Merged_Partial(k) ==
  reachable \cup (IF AsksOther(k) /\ OtherCall(k) = "done" THEN answer[k + 1] ELSE {})

\* utils.Map gives no result at all when one of the calls failed, and the
\* aggregated manager then answers with its local runtimes.
Merged(k) ==
  IF \/ k \in ctxDone
     \/ reachable # Leaves
     \/ AsksOther(k) /\ OtherCall(k) # "done"
  THEN {}
  ELSE Leaves \cup (IF AsksOther(k) THEN answer[k + 1] ELSE {})

ClientAsks ==
  /\ frame[1] = "none"
  /\ frame' = [frame EXCEPT ![1] = "asking"]
  /\ UNCHANGED <<mutual, reachable, ctxDone, answer>>

\* The call to the other daemon arrives, or cannot be made.
CallOther(k) ==
  /\ frame[k] = "asking" /\ k \notin ctxDone
  /\ AsksOther(k)
  /\ k < MaxFrames /\ frame[k + 1] = "none"
  /\ \E r \in {"asking", "failed"} : frame' = [frame EXCEPT ![k + 1] = r]
  /\ UNCHANGED <<mutual, reachable, ctxDone, answer>>

\* Map joins all its calls; those of a done context fail at once.
Answer(k) ==
  /\ frame[k] = "asking"
  /\ k \in ctxDone \/ ~ AsksOther(k) \/ OtherCall(k) \in {"failed", "done"}
  /\ frame' = [frame EXCEPT ![k] = "done"]
  /\ answer' = [answer EXCEPT ![k] = {Daemon(k)} \cup Merged(k)]
  /\ UNCHANGED <<mutual, reachable, ctxDone>>

ClientGivesUp ==
  /\ frame[1] = "asking"
  /\ ctxDone' = ctxDone \cup {1}
  /\ UNCHANGED <<mutual, reachable, frame, answer>>

\* Fault: a nested call is made under a context of its own.
PassCancel_Detached(k) == FALSE

\* The call of a done context is aborted, which ends the context of its
\* handler in the other daemon.
PassCancel(k) ==
  /\ k \in ctxDone
  /\ k < MaxFrames /\ frame[k + 1] = "asking" /\ k + 1 \notin ctxDone
  /\ ctxDone' = ctxDone \cup {k + 1}
  /\ UNCHANGED <<mutual, reachable, frame, answer>>

QueryNext ==
  \/ ClientAsks \/ ClientGivesUp
  \/ \E k \in Frames : CallOther(k) \/ Answer(k) \/ PassCancel(k)

\* A call arrives or fails, a handler runs, and an abort reaches the server.
QueryFairness ==
  \A k \in Frames : WF_queryVars(CallOther(k)) /\ WF_queryVars(Answer(k))
                      /\ WF_queryVars(PassCancel(k))

QuerySpec == QueryInit /\ [][QueryNext]_queryVars /\ QueryFairness

----------------------------------------------------------------------------
(***************************************************************************)
(* The answer is that of the whole network or of this daemon alone: one    *)
(* peer that cannot be reached hides all the others.                       *)
(***************************************************************************)
AnswerAllOrNothing ==
  frame[1] = "done"
    => answer[1] \in {{"here"}, {"here", "there"} \cup Leaves}

(***************************************************************************)
(* A query leaves no call behind in any daemon, if the two daemons do not  *)
(* know each other or once its client gives up.  Two daemons that do know  *)
(* each other ask back and forth until then.                               *)
(***************************************************************************)
QueryEnds ==
  (frame[1] = "asking" /\ (~ mutual \/ 1 \in ctxDone))
    ~> (\A k \in Frames : frame[k] # "asking")
=============================================================================
