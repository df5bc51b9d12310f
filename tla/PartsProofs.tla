---------------------------- MODULE PartsProofs ----------------------------
(***************************************************************************)
(* Theorems about the queries between daemons, and about the components    *)
(* that share no state, put together as they are model-checked: each keeps *)
(* its own invariant, and the steps of the others leave it alone.          *)
(***************************************************************************)
EXTENDS MCParts, RuntimeCacheProofs, LoggingProofs, StagingProofs, DriverProofs

\* The daemons that a query can reach.
Network == {"here", "there"} \cup Leaves

\* Of what a frame has answered: its own runtimes, alone or with those of
\* every daemon that it asks.
AllOrOwn(k) ==
  /\ Daemon(k) \in answer[k] /\ answer[k] \subseteq Network
  /\ answer[k] = {Daemon(k)} \/ Leaves \subseteq answer[k]
  /\ answer[k] = {Daemon(k)} \/ ~ AsksOther(k) \/ answer[k] = Network

\* No frame that has answered has answered with a part of what it merged.
QueryInv ==
  /\ frame \in [Frames -> FrameState]
  /\ answer \in [Frames -> SUBSET Network]
  /\ \A k \in Frames : frame[k] = "done" => AllOrOwn(k)

\* Before the client asks nobody has answered.
LEMMA QueryInvInit == QueryInit => QueryInv
BY DEF QueryInit, QueryInv, FrameState

\* What a frame adds to its own runtimes is nothing, or all that it asks for.
LEMMA MergedAllOrNone ==
    ASSUME QueryInv, NEW k \in Frames, Merged(k) # {}
    PROVE  /\ Leaves \subseteq Merged(k) /\ Merged(k) \subseteq Network
           /\ AsksOther(k) => {Daemon(k)} \cup Merged(k) = Network
<1>1. CASE AsksOther(k)
  <2>1. k + 1 \in Frames /\ frame[k + 1] = "done" /\ Merged(k) = Leaves \cup answer[k + 1]
      BY <1>1, PeerQueryAssumption DEF Merged, OtherCall, Frames
  <2>2. Daemon(k + 1) \in answer[k + 1] /\ answer[k + 1] \subseteq Network
      BY <2>1 DEF QueryInv, AllOrOwn
  <2>3. {Daemon(k), Daemon(k + 1)} = {"here", "there"}
      BY DEF Daemon, Frames
  <2> QED
      BY <2>1, <2>2, <2>3 DEF Network
<1>2. CASE ~ AsksOther(k)
    BY <1>2 DEF Merged, Network
<1> QED
    BY <1>1, <1>2

\* Every step of a query: only Answer makes a frame done.
LEMMA QueryInvStep == QueryInv /\ [QueryNext]_queryVars => QueryInv'
<1> SUFFICES ASSUME QueryInv, [QueryNext]_queryVars PROVE QueryInv'
    OBVIOUS
<1>1. CASE ClientAsks
    BY <1>1 DEF ClientAsks, QueryInv, FrameState, AllOrOwn, AsksOther
<1>2. CASE ClientGivesUp
    BY <1>2 DEF ClientGivesUp, QueryInv, AllOrOwn, AsksOther
<1>3. ASSUME NEW k \in Frames, CallOther(k) PROVE QueryInv'
    BY <1>3 DEF CallOther, QueryInv, FrameState, AllOrOwn, AsksOther, Frames
<1>4. ASSUME NEW k \in Frames, PassCancel(k) PROVE QueryInv'
    BY <1>4 DEF PassCancel, QueryInv, AllOrOwn, AsksOther
<1>5. ASSUME NEW k \in Frames, Answer(k) PROVE QueryInv'
  <2>1. frame' = [frame EXCEPT ![k] = "done"] /\ UNCHANGED mutual
        /\ answer' = [answer EXCEPT ![k] = {Daemon(k)} \cup Merged(k)]
      BY <1>5 DEF Answer
  <2>2. Daemon(k) \in Network
      BY DEF Daemon, Network
  <2>3. {Daemon(k)} \cup Merged(k) \subseteq Network
      BY <2>2, MergedAllOrNone DEF QueryInv
  <2>4. AllOrOwn(k)'
      BY <2>1, <2>2, <2>3, MergedAllOrNone DEF AllOrOwn, AsksOther, QueryInv
  <2>5. \A i \in Frames \ {k} : AllOrOwn(i) => AllOrOwn(i)'
      BY <2>1 DEF AllOrOwn, AsksOther, QueryInv
  <2> QED
      BY <2>1, <2>3, <2>4, <2>5 DEF QueryInv, FrameState
<1>6. CASE UNCHANGED queryVars
    BY <1>6 DEF queryVars, QueryInv, AllOrOwn, AsksOther
<1> QED
    BY <1>1, <1>2, <1>3, <1>4, <1>5, <1>6 DEF QueryNext

\* The client's frame runs here, where every daemon is asked.
LEMMA QueryInvAnswers == QueryInv => AnswerAllOrNothing
<1>1. 1 \in Frames /\ Daemon(1) = "here" /\ AsksOther(1)
    BY PeerQueryAssumption DEF Frames, Daemon, AsksOther
<1> QED
    BY <1>1 DEF QueryInv, AllOrOwn, AnswerAllOrNothing, Network

(***************************************************************************)
(* The aggregated manager answers with its own runtimes or with those of   *)
(* the whole network, however long the chain of calls that ask back is,    *)
(* and whoever cannot be reached or gives up.                              *)
(***************************************************************************)
THEOREM QueryAllOrNothing == QuerySpec => []AnswerAllOrNothing
BY QueryInvInit, QueryInvStep, QueryInvAnswers, PTL DEF QuerySpec

----------------------------------------------------------------------------
\* The invariants of the parts that are proved about.
PartsInv ==
  /\ CacheInv /\ DetectInv /\ QueryInv /\ LoggingInv /\ StagingInv /\ LineInv /\ ArInv

\* Each of them starts with its own initial state.
LEMMA PartsInvInit == PartsInit => PartsInv
BY CacheInvInit, DetectInvInit, QueryInvInit, LoggingInvInit, StagingInvInit, LineInvInit,
   ArInvInit
   DEF PartsInit, PartsInv

\* A step of a part is a step of that part, and of the others none.
LEMMA StepOfEach ==
    ASSUME PartsNext
    PROVE  /\ [CacheNext]_cacheVars /\ [DetectNext]_detectVars /\ [QueryNext]_queryVars
           /\ [LoggingNext]_loggingVars /\ [StagingNext]_stagingVars /\ [LineNext]_lineVars
           /\ [ArNext]_arVars
BY DEF PartsNext, Stay

\* So every step keeps the invariant of each.
LEMMA PartsInvStep ==
    PartsInv /\ [PartsNext]_<<part, cacheVars, detectVars, queryVars, loggingVars,
                             stagingVars, lineVars, arVars, lifeVars>> => PartsInv'
<1> SUFFICES ASSUME PartsInv,
                    [PartsNext]_<<part, cacheVars, detectVars, queryVars, loggingVars,
                                  stagingVars, lineVars, arVars, lifeVars>>
             PROVE  PartsInv'
    OBVIOUS
<1>1. /\ [CacheNext]_cacheVars /\ [DetectNext]_detectVars /\ [QueryNext]_queryVars
      /\ [LoggingNext]_loggingVars /\ [StagingNext]_stagingVars /\ [LineNext]_lineVars
      /\ [ArNext]_arVars
    BY StepOfEach
<1>2. CacheInv' /\ DetectInv' /\ QueryInv' /\ LoggingInv' /\ StagingInv'
    BY <1>1, CacheInvStep, DetectInvStep, QueryInvStep, LoggingInvStep, StagingInvStep
    DEF PartsInv
<1>3. LineInv'
    BY <1>1, LineInvStep, LineInvStays DEF PartsInv, LineNext
<1>4. ArInv'
    BY <1>1, ArInvStep, ArInvStays DEF PartsInv, ArNext
<1> QED
    BY <1>2, <1>3, <1>4 DEF PartsInv

\* The invariant of each part holds while any part runs.
LEMMA PartsAlways == PartsSpec => []PartsInv
BY PartsInvInit, PartsInvStep, PTL DEF PartsSpec

(***************************************************************************)
(* The variables of the runtime cache, the logging registry and the staged *)
(* jobs have their types, whichever component runs.                        *)
(***************************************************************************)
THEOREM PartsTypeCorrect == PartsSpec => []PartsTypeOK
<1>1. PartsInv => PartsTypeOK
    BY DEF PartsInv, PartsTypeOK, CacheInv, LoggingInv, StagingInv
<1> QED
    BY <1>1, PartsAlways, PTL

\* The safety properties of the run.
PartsSafety ==
  /\ SteadyRuntimesServe /\ DriversDoNotCrashIt /\ DetectsTheHost
  /\ AnswerAllOrNothing
  /\ SinksOfLoggersExist /\ TailedUnlessDisturbed /\ ConsoleShadowedByTailing
  /\ RunsOnWhatWasHashed /\ CompletedOutputIsOfThisRun /\ TempDirDropsOutputs
  /\ NoInputReachesTheCompiler
  /\ ParsedAsItReads /\ OnlyTheseAreLost /\ AsksForItsToolchain
  /\ ArchivesAsTyped

\* The invariants of the parts say all of that.
LEMMA PartsInvSays == PartsInv => PartsSafety
<1> SUFFICES ASSUME PartsInv PROVE PartsSafety
    OBVIOUS
<1>1. SteadyRuntimesServe /\ DriversDoNotCrashIt /\ DetectsTheHost
    BY DetectInvSays DEF PartsInv, CacheInv
<1>2. AnswerAllOrNothing
    BY QueryInvAnswers DEF PartsInv
<1>3. SinksOfLoggersExist /\ TailedUnlessDisturbed /\ ConsoleShadowedByTailing
    BY LoggingInvSays DEF PartsInv
<1>4. /\ RunsOnWhatWasHashed /\ CompletedOutputIsOfThisRun /\ TempDirDropsOutputs
      /\ NoInputReachesTheCompiler
    BY DEF PartsInv, StagingInv, Properties
<1>5. ParsedAsItReads /\ OnlyTheseAreLost /\ AsksForItsToolchain
    BY LineInvSays, FlagsAsk DEF PartsInv, AsksForItsToolchain
<1>6. ArchivesAsTyped
    BY ArInvSays DEF PartsInv
<1> QED
    BY <1>1, <1>2, <1>3, <1>4, <1>5, <1>6 DEF PartsSafety

(***************************************************************************)
(* What holds of each of these components holds of them together: no       *)
(* property rests on the other components standing still.                  *)
(***************************************************************************)
THEOREM PartsSafe == PartsSpec => []PartsSafety
BY PartsInvSays, PartsAlways, PTL
=============================================================================
