---------------------------- MODULE LoggingProofs ----------------------------
(***************************************************************************)
(* Proofs about Logging, for any sessions, administrators, loggers and any *)
(* number of calls.  What the three properties say of lists that are being *)
(* rewritten from copies follows from what is known of the copies.         *)
(***************************************************************************)
EXTENDS Logging, TLAPS

\* An administrator clears, makes and drops file sinks only.
FilesOnly ==
  \A a \in Admins :
    /\ step[a] \in {"clear", "attach"} => cur[a] \in Filed
    /\ step[a] \in {"clear", "disable", "drop"} => copy[a] \subseteq FileSinks

\* The loggers that a session has been attached to, or thinks it has.
Visited(s) == targets[s] \ (todo[s] \cup (IF step[s] = "attaching" THEN {cur[s]} ELSE {}))

Tailed(s) == \A l \in Visited(s) : s \in list[l] \/ l \in disturbed

\* A session tails what it has visited, from the first logger on.
Tailing ==
  \A s \in Sessions :
    /\ step[s] \in {"attach", "attaching", "stream"} => Tailed(s)
    /\ step[s] = "stream" => todo[s] = {}

\* Who still has the entry that the configuration made writes to the console.
ConsoleKept == \A l \in configured \ (created \cup disturbed) : Console \in list[l]

LoggingInv == LoggingTypeOK /\ FilesOnly /\ SinksOfLoggersExist /\ Tailing /\ ConsoleKept

----------------------------------------------------------------------------
\* The registry starts with the console, which the root logger writes to.
LEMMA LoggingInvInit == LoggingInit => LoggingInv
<1> SUFFICES ASSUME LoggingInit PROVE LoggingInv
    OBVIOUS
<1> USE LoggingAssumption DEF LoggingInit
<1>1. LoggingTypeOK
    BY DEF LoggingTypeOK, Loggers, SinkNames, SessionStepName, AdminStepName
<1>2. FilesOnly /\ SinksOfLoggersExist /\ Tailing /\ ConsoleKept
    BY DEF FilesOnly, SinksOfLoggersExist, Tailing, ConsoleKept, Loggers
<1> QED
    BY <1>1, <1>2 DEF LoggingInv

----------------------------------------------------------------------------
\* Sessions.

\* A session that begins has visited nothing.
LEMMA OpenTailKeepsLoggingInv ==
    ASSUME LoggingInv, NEW s \in Sessions, OpenTail(s), UNCHANGED <<calls, old>>
    PROVE  LoggingInv'
<1> USE LoggingAssumption DEF LoggingInv, OpenTail, Moves, historyVars
<1>1. LoggingTypeOK'
    BY DEF LoggingTypeOK, FilesOnly, Loggers, SinkNames, FileSinks, AdminStepName
<1>2. FilesOnly'
    BY DEF FilesOnly
<1>3. SinksOfLoggersExist'
    BY DEF SinksOfLoggersExist
<1>4. Tailing'
    BY DEF LoggingTypeOK, Tailing, Tailed, Visited
<1>5. ConsoleKept'
    BY DEF ConsoleKept
<1> QED
    BY <1>1, <1>2, <1>3, <1>4, <1>5

\* The logger that is being read is not yet visited.
LEMMA ReadSinksKeepsLoggingInv ==
    ASSUME LoggingInv, NEW s \in Sessions, ReadSinks(s), UNCHANGED <<calls, old>>
    PROVE  LoggingInv'
<1> USE LoggingAssumption DEF LoggingInv, ReadSinks, Moves, registryVars, historyVars
<1>1. LoggingTypeOK'
    BY DEF LoggingTypeOK, SessionStepName
<1>2. FilesOnly'
    BY DEF FilesOnly
<1>3. SinksOfLoggersExist'
    BY DEF SinksOfLoggersExist
<1>4. Tailing'
    BY DEF LoggingTypeOK, Tailing, Tailed, Visited
<1>5. ConsoleKept'
    BY DEF ConsoleKept
<1> QED
    BY <1>1, <1>2, <1>3, <1>4, <1>5

\* Either the list is the one that was read, and who was in it stays, or the
\* logger counts as disturbed.
LEMMA WriteAttachedKeepsLoggingInv ==
    ASSUME LoggingInv, NEW s \in Sessions, WriteAttached(s), UNCHANGED <<calls, old>>
    PROVE  LoggingInv'
<1> USE LoggingAssumption DEF LoggingInv, WriteAttached, SetLoggerSinks, Noted, Sharing,
        Moves, Forgets
<1>1. LoggingTypeOK'
    BY DEF LoggingTypeOK, Loggers, SessionStepName
<1>2. FilesOnly'
    BY DEF FilesOnly
<1>3. SinksOfLoggersExist'
    BY DEF SinksOfLoggersExist
<1>4. Tailing'
    BY DEF LoggingTypeOK, Tailing, Tailed, Visited
<1>5. ConsoleKept'
    BY DEF ConsoleKept
<1> QED
    BY <1>1, <1>2, <1>3, <1>4, <1>5

\* The sink that goes is that of a session that does not tail any more.
LEMMA WriteDetachedKeepsLoggingInv ==
    ASSUME LoggingInv, NEW s \in Sessions, WriteDetached(s), UNCHANGED <<calls, old>>
    PROVE  LoggingInv'
<1> USE LoggingAssumption DEF LoggingInv, WriteDetached, SetLoggerSinks, Noted, Moves, Forgets
<1>1. LoggingTypeOK'
    BY DEF LoggingTypeOK, Loggers, SessionStepName
<1>2. FilesOnly'
    BY DEF FilesOnly
<1>3. SinksOfLoggersExist'
    BY DEF SinksOfLoggersExist
<1>4. Tailing'
    BY DEF Tailing, Tailed, Visited
<1>5. ConsoleKept'
    BY DEF ConsoleKept
<1> QED
    BY <1>1, <1>2, <1>3, <1>4, <1>5

\* A session that fails tails nothing.
LEMMA WriteRefusedKeepsLoggingInv ==
    ASSUME LoggingInv, NEW s \in Sessions, WriteRefused(s), UNCHANGED <<calls, old>>
    PROVE  LoggingInv'
<1> USE LoggingAssumption DEF LoggingInv, WriteRefused, Moves, Forgets, registryVars,
        historyVars
<1>1. LoggingTypeOK'
    BY DEF LoggingTypeOK, Loggers, SessionStepName
<1>2. FilesOnly'
    BY DEF FilesOnly
<1>3. SinksOfLoggersExist'
    BY DEF SinksOfLoggersExist
<1>4. Tailing'
    BY DEF LoggingTypeOK, Tailing, Tailed, Visited
<1>5. ConsoleKept'
    BY DEF ConsoleKept
<1> QED
    BY <1>1, <1>2, <1>3, <1>4, <1>5

\* Nothing is left to be visited.
LEMMA StreamLogsKeepsLoggingInv ==
    ASSUME LoggingInv, NEW s \in Sessions, StreamLogs(s), UNCHANGED <<calls, old>>
    PROVE  LoggingInv'
<1> USE LoggingAssumption DEF LoggingInv, StreamLogs, Moves, registryVars, historyVars
<1>1. LoggingTypeOK'
    BY DEF LoggingTypeOK, SessionStepName
<1>2. FilesOnly'
    BY DEF FilesOnly
<1>3. SinksOfLoggersExist'
    BY DEF SinksOfLoggersExist
<1>4. Tailing'
    BY DEF Tailing, Tailed, Visited
<1>5. ConsoleKept'
    BY DEF ConsoleKept
<1> QED
    BY <1>1, <1>2, <1>3, <1>4, <1>5

\* A session that detaches does not count as tailing.
LEMMA CloseTailKeepsLoggingInv ==
    ASSUME LoggingInv, NEW s \in Sessions, CloseTail(s), UNCHANGED <<calls, old>>
    PROVE  LoggingInv'
<1> USE LoggingAssumption DEF LoggingInv, CloseTail, Moves, registryVars, historyVars
<1>1. LoggingTypeOK'
    BY DEF LoggingTypeOK, SessionStepName
<1>2. FilesOnly'
    BY DEF FilesOnly
<1>3. SinksOfLoggersExist'
    BY DEF SinksOfLoggersExist
<1>4. Tailing'
    BY DEF LoggingTypeOK, Tailing, Tailed, Visited
<1>5. ConsoleKept'
    BY DEF ConsoleKept
<1> QED
    BY <1>1, <1>2, <1>3, <1>4, <1>5

\* Its sink stays in the registry.
LEMMA EndTailKeepsLoggingInv ==
    ASSUME LoggingInv, NEW s \in Sessions, EndTail(s), UNCHANGED <<calls, old>>
    PROVE  LoggingInv'
<1> USE LoggingAssumption DEF LoggingInv, EndTail, Moves, registryVars, historyVars
<1>1. LoggingTypeOK'
    BY DEF LoggingTypeOK, SessionStepName
<1>2. FilesOnly'
    BY DEF FilesOnly
<1>3. SinksOfLoggersExist'
    BY DEF SinksOfLoggersExist
<1>4. Tailing'
    BY DEF Tailing, Tailed, Visited
<1>5. ConsoleKept'
    BY DEF ConsoleKept
<1> QED
    BY <1>1, <1>2, <1>3, <1>4, <1>5

----------------------------------------------------------------------------
\* Administrators.

\* The sinks that an administrator names are no session's, nor the console.
LEMMA AdminAttachKeepsLoggingInv ==
    ASSUME LoggingInv, NEW a \in Admins, AdminAttach(a), calls < MaxCalls, calls' = calls + 1, UNCHANGED old
    PROVE  LoggingInv'
<1> USE LoggingAssumption DEF LoggingInv, AdminAttach, AttachSink, historyVars, sessionVars
<1>1. LoggingTypeOK'
    BY DEF LoggingTypeOK
<1>2. FilesOnly'
    BY DEF FilesOnly
<1>3. SinksOfLoggersExist'
    BY DEF SinksOfLoggersExist
<1>4. Tailing'
    BY DEF Tailing, Tailed, Visited
<1>5. ConsoleKept'
    BY DEF ConsoleKept
<1> QED
    BY <1>1, <1>2, <1>3, <1>4, <1>5

\* The same for one that is taken out.
LEMMA AdminDetachKeepsLoggingInv ==
    ASSUME LoggingInv, NEW a \in Admins, AdminDetach(a), calls < MaxCalls, calls' = calls + 1, UNCHANGED old
    PROVE  LoggingInv'
<1> USE LoggingAssumption DEF LoggingInv, AdminDetach, DetachSink, historyVars, sessionVars
<1>1. LoggingTypeOK'
    BY DEF LoggingTypeOK
<1>2. FilesOnly'
    BY DEF FilesOnly
<1>3. SinksOfLoggersExist'
    BY DEF SinksOfLoggersExist
<1>4. Tailing'
    BY DEF Tailing, Tailed, Visited
<1>5. ConsoleKept'
    BY DEF ConsoleKept
<1> QED
    BY <1>1, <1>2, <1>3, <1>4, <1>5

\* A sink that some entry names is not removed, and who has no entry has no list.
LEMMA AdminRemoveSinkKeepsLoggingInv ==
    ASSUME LoggingInv, NEW a \in Admins, AdminRemoveSink(a), calls < MaxCalls, calls' = calls + 1, UNCHANGED old
    PROVE  LoggingInv'
<1> USE LoggingAssumption DEF LoggingInv, AdminRemoveSink, RemoveSink, historyVars,
        sessionVars
<1>1. LoggingTypeOK'
    BY DEF LoggingTypeOK
<1>2. FilesOnly'
    BY DEF FilesOnly
<1>3. SinksOfLoggersExist'
    BY DEF LoggingTypeOK, SinksOfLoggersExist
<1>4. Tailing'
    BY DEF Tailing, Tailed, Visited
<1>5. ConsoleKept'
    BY DEF ConsoleKept
<1> QED
    BY <1>1, <1>2, <1>3, <1>4, <1>5

\* A logger whose entry goes is disturbed.
LEMMA RemoveLoggerKeepsLoggingInv ==
    ASSUME LoggingInv, NEW a \in Admins, RemoveLogger(a), calls < MaxCalls, calls' = calls + 1, UNCHANGED old
    PROVE  LoggingInv'
<1> USE LoggingAssumption DEF LoggingInv, RemoveLogger, sessionVars
<1>1. LoggingTypeOK'
    BY DEF LoggingTypeOK
<1>2. FilesOnly'
    BY DEF FilesOnly
<1>3. SinksOfLoggersExist'
    BY DEF SinksOfLoggersExist
<1>4. Tailing'
    BY DEF Tailing, Tailed, Visited
<1>5. ConsoleKept'
    BY DEF ConsoleKept
<1> QED
    BY <1>1, <1>2, <1>3, <1>4, <1>5

\* Only reads.
LEMMA AddLoggerKeepsLoggingInv ==
    ASSUME LoggingInv, NEW a \in Admins, AddLogger(a), calls < MaxCalls, calls' = calls + 1, UNCHANGED old
    PROVE  LoggingInv'
<1> USE LoggingAssumption DEF LoggingInv, AddLogger, Moves, registryVars, historyVars,
        sessionVars
<1>1. LoggingTypeOK'
    BY DEF LoggingTypeOK, AdminStepName
<1>2. FilesOnly'
    BY DEF FilesOnly
<1>3. SinksOfLoggersExist'
    BY DEF SinksOfLoggersExist
<1>4. Tailing'
    BY DEF Tailing, Tailed, Visited
<1>5. ConsoleKept'
    BY DEF ConsoleKept
<1> QED
    BY <1>1, <1>2, <1>3, <1>4, <1>5

\* What is to be cleared are file sinks of a logger that may have one.
LEMMA EnableFileSinkKeepsLoggingInv ==
    ASSUME LoggingInv, NEW a \in Admins, EnableFileSink(a), calls < MaxCalls, calls' = calls + 1, UNCHANGED old
    PROVE  LoggingInv'
<1> USE LoggingAssumption DEF LoggingInv, EnableFileSink, Moves, registryVars, historyVars,
        sessionVars
<1>1. LoggingTypeOK'
    BY DEF LoggingTypeOK, AdminStepName
<1>2. FilesOnly'
    BY DEF LoggingTypeOK, FilesOnly
<1>3. SinksOfLoggersExist'
    BY DEF SinksOfLoggersExist
<1>4. Tailing'
    BY DEF Tailing, Tailed, Visited
<1>5. ConsoleKept'
    BY DEF ConsoleKept
<1> QED
    BY <1>1, <1>2, <1>3, <1>4, <1>5

\* What is to be dropped is a file sink.
LEMMA DisableFileSinkKeepsLoggingInv ==
    ASSUME LoggingInv, NEW a \in Admins, DisableFileSink(a), calls < MaxCalls, calls' = calls + 1, UNCHANGED old
    PROVE  LoggingInv'
<1> USE LoggingAssumption DEF LoggingInv, DisableFileSink, Moves, registryVars, historyVars,
        sessionVars
<1>1. LoggingTypeOK'
    BY DEF LoggingTypeOK, AdminStepName
<1>2. FilesOnly'
    BY DEF LoggingTypeOK, FilesOnly
<1>3. SinksOfLoggersExist'
    BY DEF SinksOfLoggersExist
<1>4. Tailing'
    BY DEF Tailing, Tailed, Visited
<1>5. ConsoleKept'
    BY DEF ConsoleKept
<1> QED
    BY <1>1, <1>2, <1>3, <1>4, <1>5

\* An old sink is a file sink.
LEMMA DetachOldKeepsLoggingInv ==
    ASSUME LoggingInv, NEW a \in Admins, DetachOld(a), UNCHANGED calls
    PROVE  LoggingInv'
<1> USE LoggingAssumption DEF LoggingInv, DetachOld, DetachSink, historyVars, sessionVars
<1>1. LoggingTypeOK'
    BY DEF LoggingTypeOK, FilesOnly, AdminStepName
<1>2. FilesOnly'
    BY DEF FilesOnly
<1>3. SinksOfLoggersExist'
    BY DEF LoggingTypeOK, SinksOfLoggersExist
<1>4. Tailing'
    BY DEF LoggingTypeOK, FilesOnly, Tailing, Tailed, Visited
<1>5. ConsoleKept'
    BY DEF LoggingTypeOK, FilesOnly, ConsoleKept
<1> QED
    BY <1>1, <1>2, <1>3, <1>4, <1>5

\* Removed only if no entry names it.
LEMMA RemoveOldKeepsLoggingInv ==
    ASSUME LoggingInv, NEW a \in Admins, RemoveOld(a), UNCHANGED calls
    PROVE  LoggingInv'
<1> USE LoggingAssumption DEF LoggingInv, RemoveOld, TryRemoveSink, RemoveSink, historyVars,
        sessionVars
<1>1. LoggingTypeOK'
    BY DEF LoggingTypeOK
<1>2. FilesOnly'
    BY DEF FilesOnly
<1>3. SinksOfLoggersExist'
    BY DEF LoggingTypeOK, SinksOfLoggersExist
<1>4. Tailing'
    BY DEF Tailing, Tailed, Visited
<1>5. ConsoleKept'
    BY DEF ConsoleKept
<1> QED
    BY <1>1, <1>2, <1>3, <1>4, <1>5

\* A logger whose sinks are replaced is disturbed.
LEMMA ReplaceSinksKeepsLoggingInv ==
    ASSUME LoggingInv, NEW a \in Admins, ReplaceSinks(a), UNCHANGED <<calls, old>>
    PROVE  LoggingInv'
<1> USE LoggingAssumption DEF LoggingInv, ReplaceSinks, SetLoggerSinks, Returns, Moves,
        Forgets, sessionVars
<1>1. LoggingTypeOK'
    BY DEF LoggingTypeOK, FilesOnly, Loggers, SinkNames, FileSinks, AdminStepName
<1>2. FilesOnly'
    BY DEF FilesOnly
<1>3. SinksOfLoggersExist'
    BY DEF SinksOfLoggersExist
<1>4. Tailing'
    BY DEF Tailing, Tailed, Visited
<1>5. ConsoleKept'
    BY DEF ConsoleKept
<1> QED
    BY <1>1, <1>2, <1>3, <1>4, <1>5

\* The new sink is one of the file sinks.
LEMMA RegisterFileSinkKeepsLoggingInv ==
    ASSUME LoggingInv, NEW a \in Admins, RegisterFileSink(a), UNCHANGED <<calls, old>>
    PROVE  LoggingInv'
<1> USE LoggingAssumption DEF LoggingInv, RegisterFileSink, Cleared, Moves, historyVars,
        sessionVars
<1>1. LoggingTypeOK'
    BY DEF LoggingTypeOK, FilesOnly, SinkNames, FileSinks, AdminStepName
<1>2. FilesOnly'
    BY DEF FilesOnly
<1>3. SinksOfLoggersExist'
    BY DEF SinksOfLoggersExist
<1>4. Tailing'
    BY DEF Tailing, Tailed, Visited
<1>5. ConsoleKept'
    BY DEF ConsoleKept
<1> QED
    BY <1>1, <1>2, <1>3, <1>4, <1>5

\* Changes nothing but the call.
LEMMA FileSinkExistsKeepsLoggingInv ==
    ASSUME LoggingInv, NEW a \in Admins, FileSinkExists(a), UNCHANGED <<calls, old>>
    PROVE  LoggingInv'
<1> USE LoggingAssumption DEF LoggingInv, FileSinkExists, Cleared, Returns, Moves, Forgets,
        registryVars, historyVars, sessionVars
<1>1. LoggingTypeOK'
    BY DEF LoggingTypeOK, Loggers, SessionStepName
<1>2. FilesOnly'
    BY DEF LoggingTypeOK, FilesOnly
<1>3. SinksOfLoggersExist'
    BY DEF SinksOfLoggersExist
<1>4. Tailing'
    BY DEF Tailing, Tailed, Visited
<1>5. ConsoleKept'
    BY DEF ConsoleKept
<1> QED
    BY <1>1, <1>2, <1>3, <1>4, <1>5

\* The sink was checked in the same critical section.
LEMMA AttachFileSinkKeepsLoggingInv ==
    ASSUME LoggingInv, NEW a \in Admins, AttachFileSink(a), UNCHANGED <<calls, old>>
    PROVE  LoggingInv'
<1> USE LoggingAssumption DEF LoggingInv, AttachFileSink, AttachSink, Returns, Moves,
        Forgets, historyVars, sessionVars
<1>1. LoggingTypeOK'
    BY DEF LoggingTypeOK, Loggers, SessionStepName
<1>2. FilesOnly'
    BY DEF LoggingTypeOK, FilesOnly
<1>3. SinksOfLoggersExist'
    BY DEF SinksOfLoggersExist
<1>4. Tailing'
    BY DEF Tailing, Tailed, Visited
<1>5. ConsoleKept'
    BY DEF ConsoleKept
<1> QED
    BY <1>1, <1>2, <1>3, <1>4, <1>5

\* Only a sink without users goes.
LEMMA UndoFileSinkKeepsLoggingInv ==
    ASSUME LoggingInv, NEW a \in Admins, UndoFileSink(a), UNCHANGED <<calls, old>>
    PROVE  LoggingInv'
<1> USE LoggingAssumption DEF LoggingInv, UndoFileSink, TryRemoveSink, RemoveSink, Returns,
        Moves, Forgets, historyVars, sessionVars
<1>1. LoggingTypeOK'
    BY DEF LoggingTypeOK, Loggers, SessionStepName
<1>2. FilesOnly'
    BY DEF LoggingTypeOK, FilesOnly
<1>3. SinksOfLoggersExist'
    BY DEF LoggingTypeOK, SinksOfLoggersExist
<1>4. Tailing'
    BY DEF Tailing, Tailed, Visited
<1>5. ConsoleKept'
    BY DEF ConsoleKept
<1> QED
    BY <1>1, <1>2, <1>3, <1>4, <1>5

\* What is detached is a file sink.
LEMMA DetachFileSinkKeepsLoggingInv ==
    ASSUME LoggingInv, NEW a \in Admins, DetachFileSink(a), UNCHANGED <<calls, old>>
    PROVE  LoggingInv'
<1> USE LoggingAssumption DEF LoggingInv, DetachFileSink, DetachSink, Returns, Moves,
        Forgets, historyVars, sessionVars
<1>1. LoggingTypeOK'
    BY DEF LoggingTypeOK, Loggers, AdminStepName
<1>2. FilesOnly'
    BY DEF LoggingTypeOK, FilesOnly
<1>3. SinksOfLoggersExist'
    BY DEF LoggingTypeOK, SinksOfLoggersExist
<1>4. Tailing'
    BY DEF LoggingTypeOK, FilesOnly, Tailing, Tailed, Visited
<1>5. ConsoleKept'
    BY DEF LoggingTypeOK, FilesOnly, ConsoleKept
<1> QED
    BY <1>1, <1>2, <1>3, <1>4, <1>5

\* Only a sink without users goes.
LEMMA DropFileSinkKeepsLoggingInv ==
    ASSUME LoggingInv, NEW a \in Admins, DropFileSink(a), UNCHANGED <<calls, old>>
    PROVE  LoggingInv'
<1> USE LoggingAssumption DEF LoggingInv, DropFileSink, TryRemoveSink, RemoveSink, Returns,
        Moves, Forgets, historyVars, sessionVars
<1>1. LoggingTypeOK'
    BY DEF LoggingTypeOK, Loggers, SessionStepName
<1>2. FilesOnly'
    BY DEF FilesOnly
<1>3. SinksOfLoggersExist'
    BY DEF LoggingTypeOK, SinksOfLoggersExist
<1>4. Tailing'
    BY DEF Tailing, Tailed, Visited
<1>5. ConsoleKept'
    BY DEF ConsoleKept
<1> QED
    BY <1>1, <1>2, <1>3, <1>4, <1>5

----------------------------------------------------------------------------
\* Every step of a session and of an administrator.
LEMMA LoggingInvStep == LoggingInv /\ [LoggingNext]_loggingVars => LoggingInv'
<1> SUFFICES ASSUME LoggingInv, [LoggingNext]_loggingVars PROVE LoggingInv'
    OBVIOUS
<1>1. ASSUME NEW s \in Sessions, SessionNext(s), UNCHANGED <<calls, old>> PROVE LoggingInv'
    BY <1>1, OpenTailKeepsLoggingInv, ReadSinksKeepsLoggingInv,
       WriteAttachedKeepsLoggingInv, WriteDetachedKeepsLoggingInv, WriteRefusedKeepsLoggingInv,
       StreamLogsKeepsLoggingInv, CloseTailKeepsLoggingInv, EndTailKeepsLoggingInv
    DEF SessionNext
<1>2. ASSUME NEW a \in Admins, AdminCall(a) PROVE LoggingInv'
    BY <1>2, AdminAttachKeepsLoggingInv, AdminDetachKeepsLoggingInv,
       AdminRemoveSinkKeepsLoggingInv, RemoveLoggerKeepsLoggingInv, AddLoggerKeepsLoggingInv,
       EnableFileSinkKeepsLoggingInv, DisableFileSinkKeepsLoggingInv
    DEF AdminCall
<1>3. ASSUME NEW a \in Admins, AdminStep(a) PROVE LoggingInv'
    BY <1>3, DetachOldKeepsLoggingInv, RemoveOldKeepsLoggingInv,
       ReplaceSinksKeepsLoggingInv, RegisterFileSinkKeepsLoggingInv, FileSinkExistsKeepsLoggingInv,
       AttachFileSinkKeepsLoggingInv, UndoFileSinkKeepsLoggingInv, DetachFileSinkKeepsLoggingInv,
       DropFileSinkKeepsLoggingInv
    DEF AdminStep
<1>4. CASE UNCHANGED loggingVars
    BY <1>4 DEF loggingVars, LoggingInv, LoggingTypeOK, FilesOnly, SinksOfLoggersExist, Tailing,
                Tailed, Visited, ConsoleKept
<1> QED
    BY <1>1, <1>2, <1>3, <1>4 DEF LoggingNext

\* The invariant holds in every state of the registry.
LEMMA LoggingAlways == LoggingSpec => []LoggingInv
BY LoggingInvInit, LoggingInvStep, PTL DEF LoggingSpec

\* What the invariant says of the three properties.
LEMMA LoggingInvSays ==
  LoggingInv => SinksOfLoggersExist /\ TailedUnlessDisturbed /\ ConsoleShadowedByTailing
<1>1. LoggingInv => TailedUnlessDisturbed
    BY DEF LoggingInv, Tailing, Tailed, Visited, TailedUnlessDisturbed
<1>2. LoggingInv => ConsoleShadowedByTailing
    BY DEF LoggingInv, ConsoleKept, ConsoleShadowedByTailing
<1> QED
    BY <1>1, <1>2 DEF LoggingInv

----------------------------------------------------------------------------
(***************************************************************************)
(* Every variable has its type, and a logger that has lost its entry, or   *)
(* never had one, has no list.                                             *)
(***************************************************************************)
THEOREM LoggingTypeCorrect == LoggingSpec => []LoggingTypeOK
<1> LoggingInv => LoggingTypeOK
    BY DEF LoggingInv
<1> QED
    BY LoggingAlways, PTL

(***************************************************************************)
(* SetLoggerSinks and AttachSink look up the names in the critical section *)
(* in which they write them, and RemoveSink refuses a sink that an entry   *)
(* names: no logger writes to a sink that is gone.                         *)
(***************************************************************************)
THEOREM LoggingSinksExist == LoggingSpec => []SinksOfLoggersExist
BY LoggingAlways, LoggingInvSays, PTL

(***************************************************************************)
(* A client that tails a logger is in its list unless somebody replaced    *)
(* the list with one made from an older reading, or on purpose.            *)
(***************************************************************************)
THEOREM LoggingTailed == LoggingSpec => []TailedUnlessDisturbed
BY LoggingAlways, LoggingInvSays, PTL

(***************************************************************************)
(* The console is lost to a logger only through an entry that a session    *)
(* made for it, or a list that was replaced.                               *)
(***************************************************************************)
THEOREM LoggingConsoleShadowed == LoggingSpec => []ConsoleShadowedByTailing
BY LoggingAlways, LoggingInvSays, PTL
=============================================================================
