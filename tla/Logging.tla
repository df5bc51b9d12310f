------------------------------- MODULE Logging -------------------------------
(***************************************************************************)
(* Which sinks a logger writes to, while clients tail the logs and others  *)
(* configure them: the Registry of pkg/logging/logger.go, the sink         *)
(* functions of pkg/logging/global.go, TailLogs of service_handler.go and  *)
(* LocalConfigManager of config_manager.go.                                *)
(*                                                                         *)
(* Every step is one critical section of Registry.mu.  The order of a      *)
(* logger's sinks is left out; so are levels, formats and file sizes,      *)
(* which no step tests.  The name of a session's sink is taken to be new:  *)
(* a name that is in use refuses the session, nothing more.                *)
(***************************************************************************)
EXTENDS Naturals

CONSTANTS Sessions,  \* TailLogs RPCs, each with the sink of its own name
          Admins,    \* callers of the configuration manager
          Root,      \* the logger that the configuration names
          Kids,      \* its descendants, without a configuration of their own
          Filed,     \* bound: the loggers for which a file sink is enabled
          MaxCalls,  \* bound: the calls of the administrators
          Console    \* the sink of the root logger

Loggers == {Root} \cup Kids

\* The name that EnableFileSink gives to the sink of a logger.
FileOf(l) == <<"file", l>>

FileSinks == {FileOf(l) : l \in Filed}
SinkNames == {Console} \cup FileSinks \cup Sessions

ASSUME LoggingAssumption ==
  /\ Sessions \cap Admins = {}
  /\ Console \notin Sessions
  /\ Sessions \cap FileSinks = {} /\ Console \notin FileSinks
  /\ Root \notin Kids
  /\ Filed \subseteq Loggers
  /\ MaxCalls \in Nat

VARIABLES
  sinks,       \* Registry.sinks: the names registered
  configured,  \* the loggers with an entry in Registry.loggerConfigs
  list,        \* the sinkNames of each entry
  step,        \* where each session and each admin is
  todo,        \* the loggers that a session has still to visit
  targets,     \* the loggers a session tails
  cur,         \* the logger that a session or an admin works on
  copy,        \* the sink names it has read
  old,         \* the sink that an admin has detached and removes next
  calls,       \* how many calls the administrators have made
  created,     \* history: the loggers whose entry a session made
  disturbed    \* history: the loggers whose list was replaced unseen

registryVars == <<sinks, configured, list>>
historyVars  == <<created, disturbed>>
loggingVars  == <<sinks, configured, list, step, todo, targets, cur, copy, old,
                  calls, created, disturbed>>

SessionStepName == {"idle", "attach", "attaching", "stream", "detach", "detaching",
                "ended", "failed"}
AdminStepName == {"idle", "replace", "clear", "attach", "disable", "drop"}

LoggingInit ==
  /\ sinks = {Console}
  /\ configured = {Root}
  /\ list = [l \in Loggers |-> IF l = Root THEN {Console} ELSE {}]
  /\ step = [p \in Sessions \cup Admins |-> "idle"]
  /\ todo = [s \in Sessions |-> {}] /\ targets = [s \in Sessions |-> {}]
  /\ cur = [p \in Sessions \cup Admins |-> Root]
  /\ copy = [p \in Sessions \cup Admins |-> {}]
  /\ old = [a \in Admins |-> {}] /\ calls = 0
  /\ created = {} /\ disturbed = {}

\* The entry that getLoggerConfig finds: the logger's own, or its parent's.
ResolvesTo(l) == IF l \in configured THEN l ELSE Root

Moves(p, l) == step' = [step EXCEPT ![p] = l]

\* The local variables of a call end with it.
Forgets(p) == cur' = [cur EXCEPT ![p] = Root] /\ copy' = [copy EXCEPT ![p] = {}]

----------------------------------------------------------------------------
(***************************************************************************)
(* The methods of the registry.                                            *)
(***************************************************************************)

\* Fault: the names are not looked up.
SetLoggerSinks_Unchecked(l, names) ==
  /\ configured' = configured \cup {l}
  /\ list' = [list EXCEPT ![l] = names]

\* Makes the entry when there is none; refuses a sink that is not there.
SetLoggerSinks(l, names) ==
  /\ names \subseteq sinks
  /\ configured' = configured \cup {l}
  /\ list' = [list EXCEPT ![l] = names]

\* Fault: the sinks the logger had are lost.
AttachSink_Replaces(l, n) ==
  /\ n \in sinks /\ l \in configured /\ n \notin list[l]
  /\ list' = [list EXCEPT ![l] = {n}]

AttachSink(l, n) ==
  /\ n \in sinks /\ l \in configured /\ n \notin list[l]
  /\ list' = [list EXCEPT ![l] = @ \cup {n}]

DetachSink(l, n) ==
  /\ l \in configured /\ n \in list[l]
  /\ list' = [list EXCEPT ![l] = @ \ {n}]

RemoveSink(n) ==
  /\ n \in sinks
  /\ \A l \in configured : n \notin list[l]
  /\ sinks' = sinks \ {n}

\* A caller that passes over the error.
TryRemoveSink(n) ==
  \/ RemoveSink(n)
  \/ (n \in sinks => \E l \in configured : n \in list[l]) /\ UNCHANGED sinks

----------------------------------------------------------------------------
(***************************************************************************)
(* TailLogs.  AddSinkToLoggers and RemoveSinkFromLoggers read the list of  *)
(* a logger and write the new one in a second critical section.            *)
(***************************************************************************)

\* The session's sink is registered; without a filter every logger that has
\* an entry is tailed, with one the logger it names, known or not.
OpenTail(s) ==
  /\ step[s] = "idle"
  /\ sinks' = sinks \cup {s}
  /\ \E ls \in {configured} \cup {{l} : l \in Kids} :
       targets' = [targets EXCEPT ![s] = ls] /\ todo' = [todo EXCEPT ![s] = ls]
  /\ Moves(s, "attach")
  /\ UNCHANGED <<configured, list, cur, copy, historyVars>>

ReadSinks(s) ==
  /\ step[s] \in {"attach", "detach"}
  /\ \E l \in todo[s] :
       /\ cur' = [cur EXCEPT ![s] = l]
       /\ copy' = [copy EXCEPT ![s] = list[l]]
       /\ todo' = [todo EXCEPT ![s] = @ \ {l}]
  /\ Moves(s, IF step[s] = "attach" THEN "attaching" ELSE "detaching")
  /\ UNCHANGED <<registryVars, targets, historyVars>>

\* What a write does besides: it makes an entry, or replaces a list that is
\* no longer the one read, or not with the list intended.
Noted(s, l, intended) ==
  /\ created' = IF l \in configured THEN created ELSE created \cup {l}
  /\ disturbed' = IF list[l] = copy[s] /\ intended THEN disturbed ELSE disturbed \cup {l}

\* Sessions that extend the same list at the same time: append may have
\* given them one array, where the last name written is that of both.
Sharing(s) ==
  {t \in Sessions : step[t] = "attaching" /\ cur[t] = cur[s] /\ copy[t] = copy[s]}

WriteAttached(s) ==
  LET l == cur[s] IN
  /\ step[s] = "attaching"
  /\ \E t \in {s} \cup Sharing(s) :
       SetLoggerSinks(l, copy[s] \cup {t}) /\ Noted(s, l, t = s)
  /\ Moves(s, "attach") /\ Forgets(s)
  /\ UNCHANGED <<sinks, todo, targets>>

WriteDetached(s) ==
  LET l == cur[s] IN
  /\ step[s] = "detaching"
  /\ SetLoggerSinks(l, copy[s] \ {s})
  /\ Noted(s, l, TRUE)
  /\ Moves(s, "detach") /\ Forgets(s)
  /\ UNCHANGED <<sinks, todo, targets>>

\* A sink of the list is gone: the RPC fails, and what it has attached stays.
WriteRefused(s) ==
  /\ step[s] \in {"attaching", "detaching"}
  /\ ~ (copy[s] \subseteq sinks)
  /\ Moves(s, "failed") /\ Forgets(s)
  /\ todo' = [todo EXCEPT ![s] = {}] /\ targets' = [targets EXCEPT ![s] = {}]
  /\ UNCHANGED <<registryVars, historyVars>>

StreamLogs(s) ==
  /\ step[s] = "attach" /\ todo[s] = {}
  /\ Moves(s, "stream")
  /\ UNCHANGED <<registryVars, todo, targets, cur, copy, historyVars>>

\* The client is gone: the channel is closed, then the sink is detached.
CloseTail(s) ==
  /\ step[s] = "stream"
  /\ todo' = [todo EXCEPT ![s] = targets[s]]
  /\ Moves(s, "detach")
  /\ UNCHANGED <<registryVars, targets, cur, copy, historyVars>>

\* Nothing removes the sink from the registry.
EndTail(s) ==
  /\ step[s] = "detach" /\ todo[s] = {}
  /\ Moves(s, "ended")
  /\ targets' = [targets EXCEPT ![s] = {}]
  /\ UNCHANGED <<registryVars, todo, cur, copy, historyVars>>

SessionNext(s) ==
  \/ OpenTail(s) \/ ReadSinks(s) \/ WriteAttached(s) \/ WriteDetached(s)
  \/ WriteRefused(s) \/ StreamLogs(s) \/ CloseTail(s) \/ EndTail(s)

----------------------------------------------------------------------------
(***************************************************************************)
(* LocalConfigManager: AttachSink, DetachSink, RemoveSink and RemoveLogger *)
(* are one critical section; AddLogger, EnableFileSink and DisableFileSink *)
(* are several.  The sinks an administrator names are file sinks, and the  *)
(* console for AddLogger, whose default it is.                             *)
(***************************************************************************)
sessionVars == <<todo, targets>>

Returns(a) == Moves(a, "idle") /\ Forgets(a)

AdminAttach(a) ==
  /\ step[a] = "idle"
  /\ \E l \in Loggers, n \in FileSinks : AttachSink(l, n)
  /\ UNCHANGED <<sinks, configured, step, sessionVars, cur, copy, historyVars>>

AdminDetach(a) ==
  /\ step[a] = "idle"
  /\ \E l \in Loggers, n \in FileSinks : DetachSink(l, n)
  /\ UNCHANGED <<sinks, configured, step, sessionVars, cur, copy, historyVars>>

AdminRemoveSink(a) ==
  /\ step[a] = "idle"
  /\ \E n \in FileSinks : RemoveSink(n)
  /\ UNCHANGED <<configured, list, step, sessionVars, cur, copy, historyVars>>

\* Fault: the entry goes and its list stays.
RemoveLogger_KeepsList(a) ==
  /\ step[a] = "idle"
  /\ \E l \in configured :
       /\ configured' = configured \ {l}
       /\ disturbed' = disturbed \cup {l}
  /\ UNCHANGED <<sinks, list, step, sessionVars, cur, copy, created>>

RemoveLogger(a) ==
  /\ step[a] = "idle"
  /\ \E l \in configured :
       /\ configured' = configured \ {l}
       /\ list' = [list EXCEPT ![l] = {}]
       /\ disturbed' = disturbed \cup {l}
  /\ UNCHANGED <<sinks, step, sessionVars, cur, copy, created>>

\* AddLogger sets the level first, which fails for a logger without an
\* entry: it replaces the sinks of a logger, and never adds one.
AddLogger(a) ==
  /\ step[a] = "idle"
  /\ \E l \in configured : cur' = [cur EXCEPT ![a] = l]
  /\ Moves(a, "replace")
  /\ UNCHANGED <<registryVars, sessionVars, copy, historyVars>>

ReplaceSinks(a) ==
  /\ step[a] = "replace"
  /\ SetLoggerSinks(cur[a], {Console})
  /\ disturbed' = disturbed \cup {cur[a]}
  /\ Returns(a)
  /\ UNCHANGED <<sinks, sessionVars, created>>

\* Fault: all the sinks that the logger has are to be cleared.
EnableFileSink_ClearsAll(a) ==
  /\ step[a] = "idle"
  /\ \E l \in Filed :
       /\ cur' = [cur EXCEPT ![a] = l]
       /\ copy' = [copy EXCEPT ![a] = list[l]]
  /\ Moves(a, "clear")
  /\ UNCHANGED <<registryVars, sessionVars, historyVars>>

\* EnableFileSink: the file sinks that the logger has are to be cleared.
EnableFileSink(a) ==
  /\ step[a] = "idle"
  /\ \E l \in Filed :
       /\ cur' = [cur EXCEPT ![a] = l]
       /\ copy' = [copy EXCEPT ![a] = list[l] \cap FileSinks]
  /\ Moves(a, "clear")
  /\ UNCHANGED <<registryVars, sessionVars, historyVars>>

\* An old file sink is detached and then removed; the call goes on where
\* one of the two fails.
DetachOld(a) ==
  /\ step[a] = "clear" /\ old[a] = {}
  /\ \E n \in copy[a] \cap sinks :
       /\ DetachSink(cur[a], n) \/ (n \notin list[cur[a]] /\ UNCHANGED list)
       /\ copy' = [copy EXCEPT ![a] = @ \ {n}] /\ old' = [old EXCEPT ![a] = {n}]
  /\ UNCHANGED <<sinks, configured, step, sessionVars, cur, historyVars>>

RemoveOld(a) ==
  /\ \E n \in old[a] : TryRemoveSink(n)
  /\ old' = [old EXCEPT ![a] = {}]
  /\ UNCHANGED <<configured, list, step, sessionVars, cur, copy, historyVars>>

Cleared(a) == step[a] = "clear" /\ old[a] = {} /\ copy[a] \cap sinks = {}

RegisterFileSink(a) ==
  /\ Cleared(a)
  /\ FileOf(cur[a]) \notin sinks
  /\ sinks' = sinks \cup {FileOf(cur[a])}
  /\ copy' = [copy EXCEPT ![a] = {}]
  /\ Moves(a, "attach")
  /\ UNCHANGED <<configured, list, sessionVars, cur, historyVars>>

\* A name that is still in use ends the call with an error.
FileSinkExists(a) ==
  /\ Cleared(a)
  /\ FileOf(cur[a]) \in sinks
  /\ Returns(a)
  /\ UNCHANGED <<registryVars, sessionVars, historyVars>>

AttachFileSink(a) ==
  /\ step[a] = "attach"
  /\ AttachSink(cur[a], FileOf(cur[a]))
  /\ Returns(a)
  /\ UNCHANGED <<sinks, configured, sessionVars, historyVars>>

\* The attachment failed: the sink just made is removed again.
UndoFileSink(a) ==
  LET l == cur[a] IN
  /\ step[a] = "attach"
  /\ FileOf(l) \notin sinks \/ l \notin configured \/ FileOf(l) \in list[l]
  /\ TryRemoveSink(FileOf(l))
  /\ Returns(a)
  /\ UNCHANGED <<configured, list, sessionVars, historyVars>>

\* DisableFileSink stops at the first step that fails.
DisableFileSink(a) ==
  /\ step[a] = "idle"
  /\ \E l \in configured : \E n \in list[l] \cap FileSinks :
       /\ cur' = [cur EXCEPT ![a] = l]
       /\ copy' = [copy EXCEPT ![a] = {n}]
  /\ Moves(a, "disable")
  /\ UNCHANGED <<registryVars, sessionVars, historyVars>>

DetachFileSink(a) ==
  /\ step[a] = "disable"
  /\ \E n \in copy[a] :
       \/ DetachSink(cur[a], n) /\ Moves(a, "drop") /\ UNCHANGED <<cur, copy>>
       \/ n \notin list[cur[a]] /\ Returns(a) /\ UNCHANGED list
  /\ UNCHANGED <<sinks, configured, sessionVars, historyVars>>

DropFileSink(a) ==
  /\ step[a] = "drop"
  /\ \E n \in copy[a] : TryRemoveSink(n)
  /\ Returns(a)
  /\ UNCHANGED <<configured, list, sessionVars, historyVars>>

AdminCall(a) ==
  /\ calls < MaxCalls /\ calls' = calls + 1 /\ UNCHANGED old
  /\ \/ AdminAttach(a) \/ AdminDetach(a) \/ AdminRemoveSink(a)
     \/ RemoveLogger(a) \/ AddLogger(a)
     \/ EnableFileSink(a) \/ DisableFileSink(a)

AdminStep(a) ==
  /\ UNCHANGED calls
  /\ \/ DetachOld(a) \/ RemoveOld(a)
     \/ /\ \/ ReplaceSinks(a)
           \/ RegisterFileSink(a) \/ FileSinkExists(a)
           \/ AttachFileSink(a) \/ UndoFileSink(a)
           \/ DetachFileSink(a) \/ DropFileSink(a)
        /\ UNCHANGED old

LoggingNext ==
  \/ \E s \in Sessions : SessionNext(s) /\ UNCHANGED <<calls, old>>
  \/ \E a \in Admins : AdminCall(a) \/ AdminStep(a)

LoggingSpec == LoggingInit /\ [][LoggingNext]_loggingVars

----------------------------------------------------------------------------
\* Every variable has its type, and a logger without an entry has no list.
LoggingTypeOK ==
  /\ sinks \subseteq SinkNames
  /\ configured \subseteq Loggers
  /\ list \in [Loggers -> SUBSET SinkNames]
  /\ step \in [Sessions \cup Admins -> SessionStepName \cup AdminStepName]
  /\ todo \in [Sessions -> SUBSET Loggers] /\ targets \in [Sessions -> SUBSET Loggers]
  /\ cur \in [Sessions \cup Admins -> Loggers]
  /\ copy \in [Sessions \cup Admins -> SUBSET SinkNames]
  /\ old \in [Admins -> SUBSET FileSinks] /\ calls \in 0..MaxCalls
  /\ created \subseteq Loggers /\ disturbed \subseteq Loggers
  /\ \A l \in Loggers \ configured : list[l] = {}

(***************************************************************************)
(* A logger writes to sinks that exist: whatever is removed, replaced or   *)
(* enabled while lists are being rewritten from copies, no list keeps the  *)
(* name of a sink that is gone, where its records would vanish.            *)
(***************************************************************************)
SinksOfLoggersExist == \A l \in Loggers : list[l] \subseteq sinks

(***************************************************************************)
(* A client that tails a logger is sent its records: the session's sink is *)
(* in the list of every logger it asked for, unless another session or an  *)
(* administrator replaced that list without having seen it there.          *)
(***************************************************************************)
TailedUnlessDisturbed ==
  \A s \in Sessions : step[s] = "stream" =>
    \A l \in targets[s] : s \in list[l] \/ l \in disturbed

(***************************************************************************)
(* The records of a logger reach the console, unless its list was replaced *)
(* or a session made its entry: tailing a logger that inherits its sinks   *)
(* gives it an entry that hides them, which stays when the session is over.*)
(***************************************************************************)
ConsoleShadowedByTailing ==
  \A l \in Loggers :
    LET r == ResolvesTo(l) IN
    r \in configured \ (created \cup disturbed) => Console \in list[r]
=============================================================================
