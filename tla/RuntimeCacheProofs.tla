------------------------- MODULE RuntimeCacheProofs -------------------------
(***************************************************************************)
(* What holds of the runtimes of a host, for any clients, any runtimes and *)
(* any host, however often it changes and the daemon is started.           *)
(*                                                                         *)
(* Of the runtime cache: CacheTypeOK, SteadyRuntimesServe and              *)
(* DriversDoNotCrashIt.  The inductive invariant ties what is cached to    *)
(* what is installed, for the runtimes that were steady since the          *)
(* detection began, and what a client was told to the start of the daemon  *)
(* that told it.                                                           *)
(*                                                                         *)
(* Of a detection: DetectsTheHost.  The inductive invariant says that the  *)
(* tasks that are left, the compilers that have not been asked and the     *)
(* toolchains make up together what there is on the host.                  *)
(***************************************************************************)
EXTENDS RuntimeCache, Detection, SequenceTheorems, TLAPS

\* A daemon that has detected keeps the answer.
StoredOK ==
  /\ daemon # "down" => starts >= 1
  /\ daemon \in {"detected", "serving"} => cache = detections[starts]

\* Of the runtimes that were steady since, it has those that are installed.
SteadyOK ==
  daemon \in {"detected", "serving"} =>
    \A r \in NativeRuntimes : lastChange[r] < starts => (r \in cache <=> r \in installed)

\* Nobody has an answer from a daemon that has not detected.
AnswersOK ==
  \A c \in Callers :
    /\ answeredBy[c] <= starts /\ ranBy[c] <= starts
    /\ daemon = "detecting" => answeredBy[c] # starts /\ ranBy[c] # starts

\* A job is in the daemon that took it; that of a query has a runtime there.
PlacedOK ==
  \A c \in Callers : at[c] = "placed" =>
    ranBy[c] = starts /\ (c \in Archivers => Known(c))

\* A driver goes on when the daemon that it asked has found its runtime.
DriversOK ==
  /\ \A c \in Callers : at[c] = "known" => c \in Drivers
  /\ \A c \in Drivers : at[c] \in {"known", "placed", "crashed"} =>
       answeredBy[c] > 0 /\ wants[c] \cap detections[answeredBy[c]] # {}

CacheInv ==
  /\ CacheTypeOK
  /\ StoredOK /\ SteadyOK /\ AnswersOK /\ PlacedOK /\ DriversOK
  /\ SteadyRuntimesServe /\ DriversDoNotCrashIt

----------------------------------------------------------------------------
\* Before the daemon starts nobody has an answer.
LEMMA CacheInvInit == CacheInit => CacheInv
<1> SUFFICES ASSUME CacheInit PROVE CacheInv
    OBVIOUS
<1>1. 0 \in Starts
    BY RuntimeCacheAssumption DEF Starts
<1>2. CacheTypeOK
    BY <1>1, RuntimeCacheAssumption DEF CacheInit, CacheTypeOK, CallerState, DaemonState
<1>3. \A c \in Callers : at[c] = "idle" /\ answeredBy[c] = 0 /\ ranBy[c] = 0
    BY DEF CacheInit
<1>4. starts = 0 /\ daemon = "down"
    BY DEF CacheInit
<1>5. StoredOK /\ SteadyOK /\ AnswersOK /\ PlacedOK
    BY <1>3, <1>4 DEF StoredOK, SteadyOK, AnswersOK, PlacedOK
<1>6. DriversOK /\ SteadyRuntimesServe /\ DriversDoNotCrashIt
    BY <1>3 DEF DriversOK, SteadyRuntimesServe, DriversDoNotCrashIt, Callers
<1> QED
    BY <1>2, <1>5, <1>6 DEF CacheInv

\* What has changed has done so since the last detection began.
LEMMA ChangeKeepsCacheInv == CacheInv /\ ChangeHost => CacheInv'
<1> SUFFICES ASSUME CacheInv, ChangeHost PROVE CacheInv'
    OBVIOUS
<1>1. /\ UNCHANGED <<daemon, starts, cache, detections, at, wants, answeredBy, ranBy>>
      /\ installed' \subseteq NativeRuntimes /\ changes' = changes + 1 /\ changes < MaxChanges
      /\ lastChange' = [r \in NativeRuntimes |->
            IF r \in installed <=> r \in installed' THEN lastChange[r] ELSE starts]
    BY DEF ChangeHost, daemonVars, callerVars
<1>2. starts \in Starts /\ starts \in Nat /\ lastChange \in [NativeRuntimes -> Starts]
    BY RuntimeCacheAssumption DEF CacheInv, CacheTypeOK, Starts
<1>3. CacheTypeOK'
    BY <1>1, <1>2, RuntimeCacheAssumption DEF CacheInv, CacheTypeOK
<1>4. SteadyOK'
    BY <1>1, <1>2 DEF CacheInv, SteadyOK
<1>5. SteadyRuntimesServe'
  <2> SUFFICES ASSUME NEW c \in Callers, at[c] \in {"unknown", "refused", "crashed"},
                      NEW r \in wants[c] \cap installed'
               PROVE  lastChange'[r] >= DeniedBy(c)
      BY <1>1 DEF SteadyRuntimesServe, DeniedBy
  <2>1. DeniedBy(c) \in Nat /\ DeniedBy(c) <= starts /\ r \in NativeRuntimes
      BY <1>1, RuntimeCacheAssumption
      DEF CacheInv, CacheTypeOK, AnswersOK, DeniedBy, Starts
  <2>2. CASE r \in installed
    <3>1. lastChange'[r] = lastChange[r]
        BY <1>1, <2>1, <2>2
    <3> QED
        BY <2>2, <3>1 DEF CacheInv, SteadyRuntimesServe
  <2>3. CASE r \notin installed
    <3>1. lastChange'[r] = starts
        BY <1>1, <2>1, <2>3
    <3> QED
        BY <1>2, <2>1, <3>1
  <2> QED
      BY <2>2, <2>3
<1>6. StoredOK' /\ AnswersOK' /\ PlacedOK' /\ DriversOK' /\ DriversDoNotCrashIt'
    BY <1>1 DEF CacheInv, StoredOK, AnswersOK, PlacedOK, Known, DriversOK, DriversDoNotCrashIt
<1> QED
    BY <1>3, <1>4, <1>5, <1>6 DEF CacheInv

\* A daemon that starts has answered nobody yet.
LEMMA StartKeepsCacheInv == CacheInv /\ StartDaemon => CacheInv'
<1> SUFFICES ASSUME CacheInv, StartDaemon PROVE CacheInv'
    OBVIOUS
<1>1. /\ UNCHANGED <<installed, changes, lastChange, detections, at, wants, answeredBy, ranBy>>
      /\ daemon = "down" /\ daemon' = "detecting" /\ starts < MaxStarts
      /\ starts' = starts + 1 /\ cache' = {}
    BY DEF StartDaemon, hostVars, callerVars
<1>2. starts \in Nat /\ starts' \in Starts
      /\ \A c \in Callers : answeredBy[c] \in Nat /\ ranBy[c] \in Nat
    BY <1>1, RuntimeCacheAssumption DEF CacheInv, CacheTypeOK, Starts
<1>3. \A c \in Callers : at[c] # "placed"
    BY <1>1 DEF CacheInv, CacheTypeOK
<1>4. CacheTypeOK'
    BY <1>1, <1>2, <1>3 DEF CacheInv, CacheTypeOK, DaemonState
<1>5. StoredOK' /\ SteadyOK' /\ AnswersOK' /\ PlacedOK'
    BY <1>1, <1>2, <1>3 DEF CacheInv, StoredOK, SteadyOK, AnswersOK, PlacedOK
<1>6. DriversOK' /\ SteadyRuntimesServe' /\ DriversDoNotCrashIt'
    BY <1>1 DEF CacheInv, DriversOK, SteadyRuntimesServe, DeniedBy, DriversDoNotCrashIt
<1> QED
    BY <1>4, <1>5, <1>6 DEF CacheInv

\* Nobody relies on the answer that is stored now.
LEMMA DetectKeepsCacheInv == CacheInv /\ DetectRuntimes => CacheInv'
<1> SUFFICES ASSUME CacheInv, DetectRuntimes PROVE CacheInv'
    OBVIOUS
<1>1. PICK S \in SUBSET NativeRuntimes :
        /\ Detects(S) /\ cache' = S /\ detections' = [detections EXCEPT ![starts] = S]
    BY DEF DetectRuntimes
<1>2. /\ UNCHANGED <<installed, changes, lastChange, at, wants, answeredBy, ranBy, starts>>
      /\ daemon = "detecting" /\ daemon' = "detected"
    BY DEF DetectRuntimes, hostVars, callerVars
<1>3. starts \in Starts /\ detections \in [Starts -> SUBSET NativeRuntimes]
      /\ \A c \in Callers : answeredBy[c] \in Starts /\ ranBy[c] \in Starts
    BY DEF CacheInv, CacheTypeOK
<1>4. \A n \in Starts : detections'[n] = IF n = starts THEN S ELSE detections[n]
    BY <1>1, <1>3
<1>5. CacheTypeOK'
    BY <1>1, <1>2, <1>3 DEF CacheInv, CacheTypeOK, DaemonState
<1>6. StoredOK' /\ SteadyOK'
    BY <1>1, <1>2, <1>3, <1>4 DEF CacheInv, StoredOK, SteadyOK, Detects
<1>7. \A c \in Callers : at[c] # "placed" /\ answeredBy[c] # starts /\ ranBy[c] # starts
    BY <1>2 DEF CacheInv, CacheTypeOK, AnswersOK
<1>8. AnswersOK' /\ PlacedOK'
    BY <1>2, <1>7 DEF CacheInv, AnswersOK, PlacedOK
<1>9. \A c \in Callers : /\ detections'[answeredBy[c]] = detections[answeredBy[c]]
                         /\ detections'[ranBy[c]] = detections[ranBy[c]]
    BY <1>3, <1>4, <1>7
<1>10. DriversOK' /\ SteadyRuntimesServe' /\ DriversDoNotCrashIt'
    BY <1>2, <1>9
    DEF CacheInv, DriversOK, SteadyRuntimesServe, DeniedBy, DriversDoNotCrashIt, Callers
<1> QED
    BY <1>5, <1>6, <1>8, <1>10 DEF CacheInv

\* Serving and going down leave what is known as it is.
LEMMA ServeKeepsCacheInv == CacheInv /\ (Serve \/ StopDaemon) => CacheInv'
<1>1. ASSUME CacheInv, Serve PROVE CacheInv'
  <2>1. /\ UNCHANGED <<installed, changes, lastChange, detections, at, wants, answeredBy, ranBy,
                      starts, cache>>
        /\ daemon = "detected" /\ daemon' = "serving"
      BY <1>1 DEF Serve, hostVars, callerVars
  <2>2. CacheTypeOK'
      BY <1>1, <2>1 DEF CacheInv, CacheTypeOK, DaemonState
  <2> QED
      BY <1>1, <2>1, <2>2 DEF CacheInv, StoredOK, SteadyOK, AnswersOK, PlacedOK, Known,
         DriversOK, SteadyRuntimesServe, DeniedBy, DriversDoNotCrashIt
<1>2. ASSUME CacheInv, StopDaemon PROVE CacheInv'
  <2>1. /\ UNCHANGED <<installed, changes, lastChange, detections, wants, answeredBy, ranBy,
                      starts, cache>>
        /\ daemon' = "down" /\ at' = WithoutDaemon
      BY <1>2 DEF StopDaemon, hostVars
  <2>2. /\ at' \in [Callers -> CallerState]
        /\ \A c \in Callers : at'[c] = IF at[c] = "placed" THEN "failed" ELSE at[c]
      BY <1>2, <2>1 DEF CacheInv, CacheTypeOK, WithoutDaemon, CallerState
  <2>3. CacheTypeOK'
      BY <1>2, <2>1, <2>2 DEF CacheInv, CacheTypeOK, DaemonState
  <2>4. StoredOK' /\ SteadyOK' /\ AnswersOK' /\ PlacedOK'
      BY <1>2, <2>1, <2>2 DEF CacheInv, StoredOK, SteadyOK, AnswersOK, PlacedOK
  <2>5. DriversOK' /\ SteadyRuntimesServe' /\ DriversDoNotCrashIt'
      BY <1>2, <2>1, <2>2
      DEF CacheInv, DriversOK, SteadyRuntimesServe, DeniedBy, DriversDoNotCrashIt, Callers
  <2> QED
      BY <2>3, <2>4, <2>5 DEF CacheInv
<1> QED
    BY <1>1, <1>2

\* Whom a serving daemon denies its runtimes, it has none of them.
LEMMA DeniedIsSteady ==
    ASSUME CacheInv, daemon = "serving", NEW c \in Callers, ~ Known(c),
           NEW r \in wants[c] \cap installed
    PROVE  lastChange[r] >= starts
<1>1. /\ r \in NativeRuntimes /\ lastChange[r] \in Nat /\ starts \in Nat
      /\ r \notin cache
    BY RuntimeCacheAssumption DEF CacheInv, CacheTypeOK, Known, Starts
<1> QED
    BY <1>1 DEF CacheInv, SteadyOK

\* A client that asks, places its job or finds nobody there.
LEMMA CallKeepsCacheInv ==
    ASSUME CacheInv, NEW c \in Callers,
           CallFails(c) \/ AskRuntime(c) \/ PlaceExplicit(c)
    PROVE  CacheInv'
<1>1. UNCHANGED <<installed, changes, lastChange, daemon, starts, cache, detections, wants>>
    BY DEF CallFails, AskRuntime, PlaceExplicit, hostVars, daemonVars
<1>2. /\ starts \in Starts /\ starts \in Nat
      /\ at \in [Callers -> CallerState]
      /\ answeredBy \in [Callers -> Starts] /\ ranBy \in [Callers -> Starts]
    BY RuntimeCacheAssumption DEF CacheInv, CacheTypeOK, Starts
<1>3. CASE CallFails(c)
  <2>1. UNCHANGED <<answeredBy, ranBy>> /\ at' = [at EXCEPT ![c] = "failed"]
      BY <1>3 DEF CallFails, Goes
  <2>2. CacheTypeOK'
      BY <1>1, <1>2, <2>1 DEF CacheInv, CacheTypeOK, CallerState
  <2>3. StoredOK' /\ SteadyOK' /\ AnswersOK' /\ PlacedOK'
      BY <1>1, <1>2, <2>1 DEF CacheInv, StoredOK, SteadyOK, AnswersOK, PlacedOK, Known
  <2>4. DriversOK' /\ SteadyRuntimesServe' /\ DriversDoNotCrashIt'
      BY <1>1, <1>2, <2>1
      DEF CacheInv, DriversOK, SteadyRuntimesServe, DeniedBy, DriversDoNotCrashIt, Callers
  <2> QED
      BY <2>2, <2>3, <2>4 DEF CacheInv
<1>4. CASE AskRuntime(c)
  <2>1. /\ daemon = "serving" /\ c \in Drivers /\ UNCHANGED ranBy /\ at[c] = "idle"
        /\ at' = [at EXCEPT ![c] = IF Known(c) THEN "known" ELSE "unknown"]
        /\ answeredBy' = [answeredBy EXCEPT ![c] = starts]
      BY <1>4 DEF AskRuntime, Goes
  <2>2. starts > 0 /\ cache = detections[starts]
      BY <1>2, <2>1 DEF CacheInv, StoredOK
  <2>3. CacheTypeOK'
      BY <1>1, <1>2, <2>1 DEF CacheInv, CacheTypeOK, CallerState
  <2>4. StoredOK' /\ SteadyOK' /\ AnswersOK' /\ PlacedOK'
      BY <1>1, <1>2, <2>1 DEF CacheInv, StoredOK, SteadyOK, AnswersOK, PlacedOK, Known
  <2>5. DriversOK'
      BY <1>1, <1>2, <2>1, <2>2 DEF CacheInv, DriversOK, Known, Callers
  <2>6. SteadyRuntimesServe'
    <3>1. CASE Known(c)
        BY <1>1, <1>2, <2>1, <3>1 DEF CacheInv, SteadyRuntimesServe, DeniedBy
    <3>2. CASE ~ Known(c)
        BY <1>1, <1>2, <2>1, <3>2, DeniedIsSteady DEF CacheInv, SteadyRuntimesServe, DeniedBy
    <3> QED
        BY <3>1, <3>2
  <2>7. DriversDoNotCrashIt'
      BY <1>1, <1>2, <2>1 DEF CacheInv, DriversDoNotCrashIt
  <2> QED
      BY <2>3, <2>4, <2>5, <2>6, <2>7 DEF CacheInv
<1>5. CASE PlaceExplicit(c)
  <2>1. /\ daemon = "serving" /\ UNCHANGED answeredBy /\ at' = [at EXCEPT ![c] = "placed"]
        /\ ranBy' = [ranBy EXCEPT ![c] = starts] /\ c \in Drivers \cup Direct
        /\ c \in Drivers => at[c] = "known"
      BY <1>5, RuntimeCacheAssumption DEF PlaceExplicit, Goes
  <2>2. c \notin Archivers
      BY <2>1, RuntimeCacheAssumption
  <2>3. CacheTypeOK'
      BY <1>1, <1>2, <2>1 DEF CacheInv, CacheTypeOK, CallerState
  <2>4. StoredOK' /\ SteadyOK' /\ AnswersOK' /\ PlacedOK'
      BY <1>1, <1>2, <2>1, <2>2 DEF CacheInv, StoredOK, SteadyOK, AnswersOK, PlacedOK, Known
  <2>5. DriversOK' /\ SteadyRuntimesServe' /\ DriversDoNotCrashIt'
      BY <1>1, <1>2, <2>1
      DEF CacheInv, DriversOK, SteadyRuntimesServe, DeniedBy, DriversDoNotCrashIt, Callers
  <2> QED
      BY <2>3, <2>4, <2>5 DEF CacheInv
<1> QED
    BY <1>3, <1>4, <1>5

\* A job with a query is refused, or placed on a runtime that is cached.
LEMMA MatchKeepsCacheInv ==
    ASSUME CacheInv, NEW c \in Callers, PlaceMatching(c)
    PROVE  CacheInv'
<1>1. /\ UNCHANGED <<installed, changes, lastChange, daemon, starts, cache, detections, answeredBy>>
      /\ daemon = "serving" /\ c \in Archivers /\ c \notin Drivers
      /\ ranBy' = [ranBy EXCEPT ![c] = starts]
    BY RuntimeCacheAssumption DEF PlaceMatching, hostVars, daemonVars
<1>2. /\ starts \in Starts /\ starts \in Nat /\ wants \in [Callers -> SUBSET NativeRuntimes]
      /\ at \in [Callers -> CallerState] /\ ranBy \in [Callers -> Starts]
    BY RuntimeCacheAssumption DEF CacheInv, CacheTypeOK, Starts
<1>3. CASE ~ Known(c) /\ Goes(c, "refused") /\ UNCHANGED wants
  <2>1. at' = [at EXCEPT ![c] = "refused"] /\ UNCHANGED wants
      BY <1>3 DEF Goes
  <2>2. CacheTypeOK'
      BY <1>1, <1>2, <2>1 DEF CacheInv, CacheTypeOK, CallerState
  <2>3. StoredOK' /\ SteadyOK' /\ AnswersOK' /\ PlacedOK'
      BY <1>1, <1>2, <2>1 DEF CacheInv, StoredOK, SteadyOK, AnswersOK, PlacedOK, Known
  <2>4. SteadyRuntimesServe'
      BY <1>1, <1>2, <1>3, <2>1, DeniedIsSteady DEF CacheInv, SteadyRuntimesServe, DeniedBy
  <2>5. DriversOK' /\ DriversDoNotCrashIt'
      BY <1>1, <1>2, <2>1 DEF CacheInv, DriversOK, DriversDoNotCrashIt, Callers
  <2> QED
      BY <2>2, <2>3, <2>4, <2>5 DEF CacheInv
<1>4. ASSUME NEW r \in wants[c] \cap cache, wants' = [wants EXCEPT ![c] = {r}],
             Goes(c, "placed")
      PROVE  CacheInv'
  <2>1. /\ at' = [at EXCEPT ![c] = "placed"] /\ r \in NativeRuntimes
        /\ wants' \in [Callers -> SUBSET NativeRuntimes]
        /\ \A d \in Callers : wants'[d] = IF d = c THEN {r} ELSE wants[d]
      BY <1>2, <1>4 DEF Goes
  <2>2. CacheTypeOK'
      BY <1>1, <1>2, <2>1 DEF CacheInv, CacheTypeOK, CallerState
  <2>3. StoredOK' /\ SteadyOK' /\ AnswersOK'
      BY <1>1, <1>2 DEF CacheInv, StoredOK, SteadyOK, AnswersOK
  <2>4. PlacedOK'
      BY <1>1, <1>2, <1>4, <2>1 DEF CacheInv, PlacedOK, Known
  <2>5. DriversOK' /\ SteadyRuntimesServe' /\ DriversDoNotCrashIt'
      BY <1>1, <1>2, <2>1
      DEF CacheInv, DriversOK, SteadyRuntimesServe, DeniedBy, DriversDoNotCrashIt, Callers
  <2> QED
      BY <2>2, <2>3, <2>4, <2>5 DEF CacheInv
<1> QED
    BY <1>3, <1>4 DEF PlaceMatching

\* A job runs, or takes the daemon down with it.
LEMMA ExecuteKeepsCacheInv ==
    ASSUME CacheInv, NEW c \in Callers, ExecuteChosen(c)
    PROVE  CacheInv'
<1>1. /\ UNCHANGED <<installed, changes, lastChange, starts, cache, detections, wants, answeredBy, ranBy>>
      /\ at[c] = "placed" /\ daemon = "serving" /\ ranBy[c] = starts
    BY DEF ExecuteChosen, hostVars, daemonVars, CacheInv, CacheTypeOK, PlacedOK
<1>2. /\ starts \in Nat /\ at \in [Callers -> CallerState]
      /\ \A d \in Callers : answeredBy[d] \in Nat /\ answeredBy[d] <= starts
    BY RuntimeCacheAssumption DEF CacheInv, CacheTypeOK, AnswersOK, Starts
<1>3. CASE Known(c) /\ Goes(c, "started") /\ UNCHANGED daemonVars
  <2>1. at' = [at EXCEPT ![c] = "started"] /\ UNCHANGED daemon
      BY <1>3 DEF Goes, daemonVars
  <2>2. CacheTypeOK'
      BY <1>1, <1>2, <2>1 DEF CacheInv, CacheTypeOK, CallerState
  <2>3. StoredOK' /\ SteadyOK' /\ AnswersOK' /\ PlacedOK'
      BY <1>1, <1>2, <2>1 DEF CacheInv, StoredOK, SteadyOK, AnswersOK, PlacedOK, Known
  <2>4. DriversOK' /\ SteadyRuntimesServe' /\ DriversDoNotCrashIt'
      BY <1>1, <1>2, <2>1
      DEF CacheInv, DriversOK, SteadyRuntimesServe, DeniedBy, DriversDoNotCrashIt, Callers
  <2> QED
      BY <2>2, <2>3, <2>4 DEF CacheInv
<1>4. CASE ~ Known(c) /\ at' = [WithoutDaemon EXCEPT ![c] = "crashed"] /\ daemon' = "down"
  <2>1. /\ at' \in [Callers -> CallerState]
        /\ \A d \in Callers : at'[d] = IF d = c THEN "crashed"
                                       ELSE IF at[d] = "placed" THEN "failed" ELSE at[d]
      BY <1>2, <1>4 DEF WithoutDaemon, CallerState
  <2>2. CacheTypeOK'
      BY <1>1, <1>4, <2>1 DEF CacheInv, CacheTypeOK, DaemonState
  <2>3. StoredOK' /\ SteadyOK' /\ AnswersOK' /\ PlacedOK'
      BY <1>1, <1>4, <2>1 DEF CacheInv, StoredOK, SteadyOK, AnswersOK, PlacedOK
  <2>4. DriversOK'
      BY <1>1, <2>1 DEF CacheInv, DriversOK, Callers
  <2>5. SteadyRuntimesServe'
    <3> SUFFICES ASSUME NEW d \in Callers, at'[d] \in {"unknown", "refused", "crashed"},
                        NEW r \in wants[d] \cap installed
                 PROVE  lastChange[r] >= DeniedBy(d)'
        BY <1>1 DEF SteadyRuntimesServe
    <3>1. CASE d = c
        BY <1>1, <1>4, <2>1, <3>1, DeniedIsSteady DEF DeniedBy
    <3>2. CASE d # c
        BY <1>1, <2>1, <3>2 DEF CacheInv, SteadyRuntimesServe, DeniedBy
    <3> QED
        BY <3>1, <3>2
  <2>6. cache = detections[starts] /\ wants[c] \cap cache = {}
      BY <1>1, <1>4 DEF CacheInv, StoredOK, Known
  <2>7. DriversDoNotCrashIt'
    <3> SUFFICES ASSUME NEW d \in Callers \ Direct, at'[d] = "crashed"
                 PROVE  /\ d \in Drivers /\ 0 < answeredBy[d] /\ answeredBy[d] < ranBy[d]
                        /\ wants[d] \cap detections[answeredBy[d]] # {}
                        /\ wants[d] \cap detections[ranBy[d]] = {}
        BY <1>1 DEF DriversDoNotCrashIt
    <3>1. CASE d = c
      <4>1. c \in Drivers
          BY <1>1, <1>4, <3>1 DEF CacheInv, PlacedOK, Callers
      <4>2. answeredBy[c] > 0 /\ wants[c] \cap detections[answeredBy[c]] # {}
          BY <1>1, <4>1 DEF CacheInv, DriversOK
      <4>3. answeredBy[c] # starts
          BY <2>6, <4>2
      <4> QED
          BY <1>1, <1>2, <2>6, <3>1, <4>1, <4>2, <4>3
    <3>2. CASE d # c
        BY <2>1, <3>2 DEF CacheInv, DriversDoNotCrashIt
    <3> QED
        BY <3>1, <3>2
  <2> QED
      BY <2>2, <2>3, <2>4, <2>5, <2>7 DEF CacheInv
<1> QED
    BY <1>3, <1>4 DEF ExecuteChosen

\* Every step of the host, the daemon and its clients keeps the invariant.
LEMMA CacheInvStep == CacheInv /\ [CacheNext]_cacheVars => CacheInv'
<1> SUFFICES ASSUME CacheInv, [CacheNext]_cacheVars PROVE CacheInv'
    OBVIOUS
<1>1. CASE CacheNext
    BY <1>1, ChangeKeepsCacheInv, StartKeepsCacheInv, DetectKeepsCacheInv, ServeKeepsCacheInv,
       CallKeepsCacheInv, MatchKeepsCacheInv, ExecuteKeepsCacheInv DEF CacheNext
<1>2. CASE UNCHANGED cacheVars
  <2>1. UNCHANGED <<installed, changes, lastChange, daemon, starts, cache, detections, at, wants,
                   answeredBy, ranBy>>
      BY <1>2 DEF cacheVars, hostVars, daemonVars, callerVars
  <2> QED
      BY <2>1 DEF CacheInv, CacheTypeOK, StoredOK, SteadyOK, AnswersOK, PlacedOK, Known,
         DriversOK, SteadyRuntimesServe, DeniedBy, DriversDoNotCrashIt
<1> QED
    BY <1>1, <1>2

\* The invariant holds in every state of the daemon and its clients.
LEMMA CacheAlways == CacheSpec => []CacheInv
BY CacheInvInit, CacheInvStep, PTL DEF CacheSpec

\* The variables of the runtime cache and its clients have their types.
THEOREM CacheTypeCorrect == CacheSpec => []CacheTypeOK
<1>1. CacheInv => CacheTypeOK
    BY DEF CacheInv
<1> QED
    BY <1>1, CacheAlways, PTL

\* A client is denied an installed runtime only when it came since the
\* daemon that the client dealt with began to detect.
THEOREM CacheSteadyServes == CacheSpec => []SteadyRuntimesServe
<1>1. CacheInv => SteadyRuntimesServe
    BY DEF CacheInv
<1> QED
    BY <1>1, CacheAlways, PTL

\* The job of a driver brings a daemon down only when it is another daemon
\* than the one that knew the driver's runtime; a query's job never does.
THEOREM CacheSurvivesDrivers == CacheSpec => []DriversDoNotCrashIt
<1>1. CacheInv => DriversDoNotCrashIt
    BY DEF CacheInv
<1> QED
    BY <1>1, CacheAlways, PTL

----------------------------------------------------------------------------
\* What the detector chooses from.
Names ==
  {"unknown", "unspecified", "glibc", "musl", "x86_64", "aarch64", "arm", "libstdc++", "libc++"}

TaskSet ==
  [of : Executables, step : {"cruntimes", "archs", "stdlibs", "build"},
   cruntime : Names, arch : Names, stdlib : Names]

ToolchainSet ==
  [language : {"c", "cpp"}, compiler : {"gcc", "clang"}, path : Executables,
   version : STRING \cup {Unknown}, cruntime : Names, cversion : STRING \cup {Unknown},
   stdlib : Names, arch : Names]

DetectTypeOK ==
  /\ host \in Hosts /\ detected \in BOOLEAN
  /\ unseen \subseteq FindCompilerPaths
  /\ left \in Seq(TaskSet) /\ tried \in Nat /\ passed \in Seq(Names)
  /\ toolchains \in Seq(ToolchainSet)

\* The library of a C++ compiler is chosen last, that of a C compiler never.
LibraryChosen ==
  \A t \in Range(left) :
    /\ t.step \in {"cruntimes", "archs"} => t.stdlib = "unspecified"
    /\ t.step = "stdlibs" => LanguageOf(t.of.of) = "cpp"

\* The candidates that have been tried for a task and pass.
PassedOf(t) == {Candidates(t)[i] : i \in {j \in 1..tried : Passes(t, Candidates(t)[j])}}

\* Those that pass have passed.
PassedOK ==
  IF left = <<>> \/ Head(left).step = "build" THEN tried = 0 /\ passed = <<>>
  ELSE /\ tried <= Len(Candidates(Head(left)))
       /\ Range(passed) = PassedOf(Head(left))

\* What a task is to find, what an executable is, and what has been found.
CRuntimesLeft(t) == IF t.step = "cruntimes" THEN HostCRuntimes(t.of) ELSE {t.cruntime}
ArchsLeft(t) == IF t.step \in {"cruntimes", "archs"} THEN HostArchs(t.of) ELSE {t.arch}
StdlibsLeft(t) == IF t.step = "build" THEN {t.stdlib} ELSE HostStdlibs(t.of)
KeysLeft(t) == KeysWith(t.of, CRuntimesLeft(t), ArchsLeft(t), StdlibsLeft(t))
KeysOf(x) == KeysWith(x, HostCRuntimes(x), HostArchs(x), HostStdlibs(x))
Found == {Key(t) : t \in Range(toolchains)}

LeftKeys == UNION {KeysLeft(t) : t \in Range(left)}
UnseenKeys == UNION {KeysOf(host.path[i]) : i \in unseen}

\* Nothing is lost and nothing made up.
NothingLost == HostKeys = (Found \cup LeftKeys) \cup UnseenKeys

\* No two of the toolchains are the same runtime, so all are registered.
NoneTwice ==
  \A i, j \in DOMAIN toolchains : Key(toolchains[i]) = Key(toolchains[j]) => i = j
AllRegistered ==
  detected => left = <<>> /\ unseen = {} /\ registry = Range(toolchains)

DetectInv ==
  DetectTypeOK /\ LibraryChosen /\ PassedOK /\ NothingLost
    /\ NoneTwice /\ AllRegistered

----------------------------------------------------------------------------
\* Lemmas about sequences.

\* What is in a sequence is its head and what is in its tail.
LEMMA RangeHeadTail ==
    ASSUME NEW S, NEW s \in Seq(S), s # <<>>
    PROVE  Range(s) = {Head(s)} \cup Range(Tail(s))
<1>1. /\ Tail(s) \in Seq(S) /\ Len(Tail(s)) = Len(s) - 1 /\ Len(s) \in Nat /\ Len(s) # 0
      /\ Head(s) = s[1]
      /\ \A i \in 1..Len(Tail(s)) : Tail(s)[i] = s[i + 1]
    BY HeadTailProperties, EmptySeq
<1>2. Range(s) = {s[i] : i \in 1..Len(s)}
    BY RangeEquality
<1>3. Range(Tail(s)) = {Tail(s)[i] : i \in 1..Len(Tail(s))}
    BY <1>1, RangeEquality
<1>4. \A i \in 1..Len(s) : i = 1 \/ i - 1 \in 1..Len(Tail(s))
    BY <1>1
<1>5. \A i \in 1..Len(s) : i = 1 \/ s[i] = Tail(s)[i - 1]
    BY <1>1, <1>4
<1>6. \A i \in 1..Len(Tail(s)) : i + 1 \in 1..Len(s)
    BY <1>1
<1>7. 1 \in 1..Len(s)
    BY <1>1
<1>8. Range(s) \subseteq {Head(s)} \cup Range(Tail(s))
    BY <1>1, <1>2, <1>3, <1>4, <1>5
<1>9. {Head(s)} \cup Range(Tail(s)) \subseteq Range(s)
    BY <1>1, <1>2, <1>3, <1>6, <1>7
<1> QED
    BY <1>8, <1>9

\* What is in a sequence that grows is what was in it and what is added.
LEMMA RangeAppend ==
    ASSUME NEW S, NEW s \in Seq(S), NEW e \in S
    PROVE  Range(Append(s, e)) = Range(s) \cup {e}
<1>1. /\ Append(s, e) \in Seq(S) /\ Len(Append(s, e)) = Len(s) + 1 /\ Len(s) \in Nat
      /\ \A i \in 1..Len(s) : Append(s, e)[i] = s[i]
      /\ Append(s, e)[Len(s) + 1] = e
    BY AppendProperties
<1>2. Range(s) = {s[i] : i \in 1..Len(s)}
    BY RangeEquality
<1>3. Range(Append(s, e)) = {Append(s, e)[i] : i \in 1..(Len(s) + 1)}
    BY <1>1, RangeEquality
<1>4. 1..(Len(s) + 1) = 1..Len(s) \cup {Len(s) + 1}
    BY <1>1
<1> QED
    BY <1>1, <1>2, <1>3, <1>4

\* What is in the empty sequence and in one of one element.
LEMMA RangeSmall == Range(<<>>) = {} /\ \A e : Range(<<e>>) = {e}
BY DEF Range

----------------------------------------------------------------------------
\* A host stays what it is, and what is to be found on it.
LEMMA HostStays ==
    ASSUME UNCHANGED host
    PROVE  /\ HostKeys' = HostKeys /\ Executables' = Executables
           /\ TaskSet' = TaskSet /\ ToolchainSet' = ToolchainSet
           /\ FindCompilerPaths' = FindCompilerPaths
           /\ \A t : KeysLeft(t)' = KeysLeft(t)
           /\ \A i : KeysOf(host.path[i])' = KeysOf(host.path[i])
BY DEF HostKeys, Executables, TaskSet, ToolchainSet, FindCompilerPaths,
       KeysLeft, KeysOf, KeysWith, CRuntimeVersion, CRuntimesLeft, ArchsLeft, StdlibsLeft

\* The executables of a host have the fields that are asked for.
LEMMA ExecutablesTyped ==
    ASSUME DetectTypeOK, NEW x \in Executables
    PROVE  /\ x.of \in {"gcc", "g++", "clang", "clang++"} /\ x.version \in STRING
           /\ x.works \in BOOLEAN /\ x.archs \subseteq {"x86_64", "aarch64", "arm"}
           /\ x.stdlibs \subseteq {"libstdc++", "libc++"} /\ host.glibc \in STRING
<1> DEFINE E == [of : STRING, suffix : STRING, version : STRING, works : BOOLEAN,
                 archs : SUBSET {"x86_64", "aarch64", "arm"},
                 stdlibs : SUBSET {"libstdc++", "libc++"}]
<1>1. host \in [path : Seq(E), archiver : BOOLEAN, glibc : STRING]
    BY HostsAssumption DEF DetectTypeOK
<1>2. PICK i \in DOMAIN host.path : IsValidCompiler(host.path[i]) /\ x = host.path[i]
    BY DEF Executables, FindCompilerPaths
<1>3. host.path \in Seq(E) /\ host.glibc \in STRING
    BY <1>1
<1> HIDE DEF E
<1>4. x \in E
    BY <1>2, <1>3, ElementOfSeq
<1> QED
    BY <1>2, <1>3, <1>4 DEF E, IsValidCompiler

\* The candidates of a task are a few names.
LEMMA CandidatesTyped == \A t : Candidates(t) \in Seq(Names)
<1>1. \A t : Candidates(t) \in {CRuntimes, Archs, <<"libstdc++", "libc++">>, <<"libstdc++">>}
    BY DEF Candidates, Stdlibs
<1>2. /\ "glibc" \in Names /\ "musl" \in Names /\ "x86_64" \in Names /\ "aarch64" \in Names
      /\ "arm" \in Names /\ "libstdc++" \in Names /\ "libc++" \in Names
    BY DEF Names
<1>3. /\ CRuntimes \in Seq(Names) /\ Archs \in Seq(Names)
      /\ <<"libstdc++", "libc++">> \in Seq(Names) /\ <<"libstdc++">> \in Seq(Names)
    BY <1>2 DEF CRuntimes, Archs
<1> QED
    BY <1>1, <1>3

\* A task for which nothing has been tried.
LEMMA FreshTask ==
    ASSUME tried' = 0, passed' = <<>>
    PROVE  PassedOK'
<1>1. Range(passed') = {} /\ 1..tried' = {}
    BY RangeSmall
<1>2. (Range(passed) = PassedOf(Head(left)))'
    BY <1>1 DEF PassedOf
<1>3. tried' <= Len(Candidates(Head(left')))
    BY CandidatesTyped
<1> QED
    BY <1>2, <1>3 DEF PassedOK

----------------------------------------------------------------------------
\* A detection starts with every compiler unseen.
LEMMA DetectInvInit == DetectInit => DetectInv
<1> SUFFICES ASSUME DetectInit PROVE DetectInv
    OBVIOUS
<1> USE DEF DetectInit
<1>1. DetectTypeOK
    BY EmptySeq DEF DetectTypeOK
<1>2. Range(left) = {} /\ Range(toolchains) = {}
    BY RangeSmall
<1>3. LibraryChosen /\ PassedOK /\ NoneTwice /\ AllRegistered
    BY <1>2 DEF LibraryChosen, PassedOK, NoneTwice, AllRegistered
<1>4. NothingLost
  <2>1. Found = {} /\ LeftKeys = {}
      BY <1>2 DEF Found, LeftKeys
  <2>2. HostKeys = UNION {KeysOf(x) : x \in Executables}
      BY DEF HostKeys, KeysOf
  <2>3. HostKeys = UnseenKeys
      BY <2>2 DEF UnseenKeys, Executables
  <2> QED
      BY <2>1, <2>3 DEF NothingLost
<1> QED
    BY <1>1, <1>3, <1>4 DEF DetectInv

\* The next executable: what was to be found of it is now to be found of its
\* only task.
LEMMA NextCompilerKeepsDetectInv ==
    DetectInv /\ DetectCompilerToolchains => DetectInv'
<1> SUFFICES ASSUME DetectInv, DetectCompilerToolchains PROVE DetectInv'
    OBVIOUS
<1>1. PICK i \in unseen :
        /\ left' = <<[of |-> host.path[i], step |-> "cruntimes", cruntime |-> Unknown,
                      arch |-> Unknown, stdlib |-> "unspecified"]>>
        /\ unseen' = unseen \ {i}
    BY DEF DetectCompilerToolchains
<1>2. /\ UNCHANGED <<host, tried, passed, toolchains, registry, detected>> /\ left = <<>>
    BY DEF DetectCompilerToolchains
<1>3. PICK t : t = [of |-> host.path[i], step |-> "cruntimes", cruntime |-> Unknown,
                    arch |-> Unknown, stdlib |-> "unspecified"]
    OBVIOUS
<1>4. /\ t.of = host.path[i] /\ t.step = "cruntimes" /\ t.stdlib = "unspecified"
      /\ left' = <<t>> /\ t \in TaskSet
  <2>1. host.path[i] \in Executables
      BY DEF DetectInv, DetectTypeOK, Executables
  <2>2. PICK x : x = host.path[i]
      OBVIOUS
  <2>3. t = [of |-> x, step |-> "cruntimes", cruntime |-> "unknown", arch |-> "unknown",
             stdlib |-> "unspecified"]
      BY <1>3, <2>2 DEF Unknown
  <2>4. t \in TaskSet
      BY <2>1, <2>2, <2>3 DEF TaskSet, Names
  <2> QED
      BY <1>1, <1>3, <2>2, <2>3, <2>4
<1>5. left' \in Seq(TaskSet) /\ left' # <<>> /\ Head(left') = t /\ Range(left') = {t}
      /\ Range(left) = {}
    BY <1>2, <1>4, RangeSmall
<1>6. DetectTypeOK'
    BY <1>1, <1>2, <1>5, HostStays DEF DetectInv, DetectTypeOK
<1>7. LibraryChosen'
    BY <1>4, <1>5 DEF LibraryChosen
<1>8. PassedOK'
    BY <1>2, FreshTask DEF DetectInv, PassedOK
<1>9. KeysLeft(t) = KeysOf(host.path[i])
    BY <1>4 DEF KeysLeft, KeysOf, CRuntimesLeft, ArchsLeft, StdlibsLeft
<1>10. NothingLost'
  <2>1. LeftKeys = {} /\ LeftKeys' = KeysOf(host.path[i])
      BY <1>2, <1>5, <1>9, HostStays DEF LeftKeys
  <2>2. UnseenKeys = UnseenKeys' \cup KeysOf(host.path[i])
      BY <1>1, <1>2, HostStays DEF UnseenKeys
  <2>3. Found' = Found
      BY <1>2 DEF Found
  <2> QED
      BY <1>2, <2>1, <2>2, <2>3, HostStays DEF DetectInv, NothingLost
<1>11. NoneTwice' /\ AllRegistered'
    BY <1>1, <1>2, <1>5 DEF DetectInv, NoneTwice, AllRegistered, Found
<1> QED
    BY <1>6, <1>7, <1>8, <1>10, <1>11 DEF DetectInv

\* A run of the compiler for one candidate.
LEMMA TryKeepsDetectInv == DetectInv /\ TryCandidate => DetectInv'
<1> SUFFICES ASSUME DetectInv, TryCandidate PROVE DetectInv'
    OBVIOUS
<1>1. PICK t : t = Head(left)
    OBVIOUS
<1>2. PICK c : c = Candidates(t)[tried + 1]
    OBVIOUS
<1>3. /\ left # <<>> /\ t.step # "build" /\ tried < Len(Candidates(t))
      /\ passed' = IF Passes(t, c) THEN Append(passed, c) ELSE passed
      /\ tried' = tried + 1
      /\ UNCHANGED <<host, unseen, left, toolchains, registry, detected>>
    BY <1>1, <1>2 DEF TryCandidate
<1>4. tried \in Nat /\ passed \in Seq(Names)
    BY DEF DetectInv, DetectTypeOK
<1>5. c \in Names /\ Len(Candidates(t)) \in Nat
  <2>1. Candidates(t) \in Seq(Names)
      BY CandidatesTyped
  <2>2. tried + 1 \in 1..Len(Candidates(t)) /\ Len(Candidates(t)) \in Nat
      BY <1>3, <1>4, <2>1
  <2> QED
      BY <1>2, <2>1, <2>2, ElementOfSeq
<1>6. DetectTypeOK'
  <2>1. passed' \in Seq(Names)
      BY <1>3, <1>4, <1>5, AppendProperties
  <2>2. tried' \in Nat
      BY <1>3, <1>4
  <2> QED
      BY <1>3, <2>1, <2>2, HostStays DEF DetectInv, DetectTypeOK
<1>7. PassedOK'
  <2>1. left' # <<>> /\ Head(left') = t
      BY <1>1, <1>3
  <2>2. tried' <= Len(Candidates(t))
      BY <1>3, <1>4, <1>5
  <2>3. Range(passed') = PassedOf(t)'
    <3>1. Range(passed) = PassedOf(t)
        BY <1>1, <1>3, <1>4 DEF DetectInv, PassedOK
    <3>2. 1..tried' = 1..tried \cup {tried + 1}
        BY <1>3, <1>4
    <3>3. PassedOf(t)' = PassedOf(t) \cup (IF Passes(t, c) THEN {c} ELSE {})
        BY <1>2, <3>2 DEF PassedOf
    <3>4. Range(passed') = Range(passed) \cup (IF Passes(t, c) THEN {c} ELSE {})
        BY <1>3, <1>4, <1>5, RangeAppend
    <3> QED
        BY <3>1, <3>3, <3>4
  <2> QED
      BY <1>3, <2>1, <2>2, <2>3 DEF PassedOK
<1>8. LibraryChosen' /\ NoneTwice'
    BY <1>3 DEF DetectInv, LibraryChosen, NoneTwice
<1>9. NothingLost'
  <2>1. Found' = Found /\ LeftKeys' = LeftKeys /\ UnseenKeys' = UnseenKeys
      BY <1>3, HostStays DEF Found, LeftKeys, UnseenKeys
  <2> QED
      BY <1>3, <2>1, HostStays DEF DetectInv, NothingLost
<1>10. AllRegistered'
    BY <1>3 DEF DetectInv, AllRegistered, Found
<1> QED
    BY <1>6, <1>7, <1>8, <1>9, <1>10 DEF DetectInv

----------------------------------------------------------------------------
\* What a task is to find at its step.
VariantsOf(t) ==
  CASE t.step = "cruntimes" -> HostCRuntimes(t.of)
    [] t.step = "archs"     -> HostArchs(t.of)
    [] OTHER                -> HostStdlibs(t.of)

\* With all candidates tried, they are those that have passed, or the default.
LEMMA AllTried ==
    ASSUME DetectInv, left # <<>>, Head(left).step # "build",
           tried = Len(Candidates(Head(left)))
    PROVE  Range(OrDefault(passed, Default(Head(left)))) = VariantsOf(Head(left))
<1>1. PICK t : t = Head(left)
    OBVIOUS
<1>2. t \in TaskSet /\ t \in Range(left) /\ t.of \in Executables
  <2>1. left \in Seq(TaskSet)
      BY DEF DetectInv, DetectTypeOK
  <2>2. t \in TaskSet /\ t \in Range(left)
      BY <1>1, <2>1, HeadTailProperties, RangeHeadTail
  <2> QED
      BY <2>2 DEF TaskSet
<1>3. PICK x : x = t.of
    OBVIOUS
<1>4. /\ x.of \in {"gcc", "g++", "clang", "clang++"} /\ x.works \in BOOLEAN
      /\ x.archs \subseteq {"x86_64", "aarch64", "arm"}
      /\ x.stdlibs \subseteq {"libstdc++", "libc++"}
    BY <1>2, <1>3, ExecutablesTyped DEF DetectInv
<1>5. /\ t.step \in {"cruntimes", "archs", "stdlibs"}
      /\ t.step = "stdlibs" => LanguageOf(x.of) = "cpp"
    BY <1>1, <1>2, <1>3 DEF TaskSet, DetectInv, LibraryChosen
<1>6. Range(passed) = PassedOf(t) /\ tried = Len(Candidates(t))
    BY <1>1 DEF DetectInv, PassedOK
<1>7. Range(OrDefault(passed, Default(t)))
        = IF PassedOf(t) = {} THEN {Default(t)} ELSE PassedOf(t)
  <2>1. passed = <<>> <=> Range(passed) = {}
    <3>1. passed \in Seq(Names)
        BY DEF DetectInv, DetectTypeOK
    <3> QED
        BY <3>1, RangeSmall, RangeHeadTail
  <2> QED
      BY <1>6, <2>1, RangeSmall DEF OrDefault
<1>8. CASE t.step = "cruntimes"
  <2>1. PassedOf(t) = IF x.works THEN {"glibc", "musl"} ELSE {}
    <3>1. Candidates(t) = <<"glibc", "musl">> /\ \A c : Passes(t, c) <=> x.works
        BY <1>3, <1>4, <1>8 DEF Candidates, CRuntimes, Passes
    <3>2. tried = 2
        BY <1>6, <3>1
    <3>3. 1..2 = {1, 2}
        OBVIOUS
    <3> QED
        BY <3>1, <3>2, <3>3 DEF PassedOf
  <2> QED
      BY <1>1, <1>3, <1>7, <1>8, <2>1 DEF VariantsOf, HostCRuntimes, Default
<1>9. CASE t.step = "archs"
  <2>1. PassedOf(t) = x.archs
    <3>1. Candidates(t) = <<"x86_64", "aarch64", "arm">> /\ \A c : Passes(t, c) <=> c \in x.archs
        BY <1>3, <1>9 DEF Candidates, Archs, Passes
    <3>2. tried = 3
        BY <1>6, <3>1
    <3>3. 1..3 = {1, 2, 3}
        OBVIOUS
    <3> QED
        BY <1>4, <3>1, <3>2, <3>3 DEF PassedOf
  <2> QED
      BY <1>1, <1>3, <1>7, <1>9, <2>1 DEF VariantsOf, HostArchs, Default, Either
<1>10. CASE t.step = "stdlibs"
  <2>0. \A c : Passes(t, c) <=> c \in x.stdlibs
      BY <1>3, <1>10 DEF Passes
  <2>1. CASE CompilerOf(x.of) = "clang"
    <3>1. Candidates(t) = <<"libstdc++", "libc++">>
        BY <1>3, <1>10, <2>1 DEF Candidates, Stdlibs
    <3>2. tried = 2 /\ 1..2 = {1, 2}
        BY <1>6, <3>1
    <3>3. PassedOf(t) = x.stdlibs
        BY <1>4, <2>0, <3>1, <3>2 DEF PassedOf
    <3> QED
        BY <1>1, <1>3, <1>5, <1>7, <1>10, <2>1, <3>3 DEF VariantsOf, HostStdlibs, Default, Either
  <2>2. CASE CompilerOf(x.of) # "clang"
    <3>1. Candidates(t) = <<"libstdc++">>
        BY <1>3, <1>10, <2>2 DEF Candidates, Stdlibs
    <3>2. tried = 1 /\ 1..1 = {1}
        BY <1>6, <3>1
    <3>3. PassedOf(t) = IF "libstdc++" \in x.stdlibs THEN {"libstdc++"} ELSE {}
      <4>1. PassedOf(t) = {Candidates(t)[i] : i \in {j \in {1} : Candidates(t)[j] \in x.stdlibs}}
          BY <2>0, <3>2 DEF PassedOf
      <4>2. Candidates(t)[1] = "libstdc++"
          BY <3>1
      <4> QED
          BY <4>1, <4>2
    <3>4. PassedOf(t) = x.stdlibs \ {"libc++"}
        BY <1>4, <3>3
    <3> QED
        BY <1>1, <1>3, <1>5, <1>7, <1>10, <2>2, <3>4 DEF VariantsOf, HostStdlibs, Default, Either
  <2> QED
      BY <2>1, <2>2
<1> QED
    BY <1>5, <1>8, <1>9, <1>10

\* The keys of a task are those of its variants.
LEMMA VariantKeys ==
    ASSUME DetectTypeOK, NEW t \in TaskSet, t.step # "build",
           t.step \in {"cruntimes", "archs"} => t.stdlib = "unspecified",
           t.step = "stdlibs" => LanguageOf(t.of.of) = "cpp"
    PROVE  KeysLeft(t) = UNION {KeysLeft(Chosen(t, v)) : v \in VariantsOf(t)}
<1>1. CASE t.step = "cruntimes"
  <2>1. \A v : /\ Chosen(t, v).of = t.of /\ Chosen(t, v).step = "archs"
               /\ Chosen(t, v).cruntime = v
      BY <1>1 DEF Chosen, TaskSet
  <2>2. \A v : KeysLeft(Chosen(t, v)) = KeysWith(t.of, {v}, HostArchs(t.of), HostStdlibs(t.of))
      BY <2>1 DEF KeysLeft, CRuntimesLeft, ArchsLeft, StdlibsLeft
  <2>3. KeysLeft(t) = KeysWith(t.of, HostCRuntimes(t.of), HostArchs(t.of), HostStdlibs(t.of))
      BY <1>1 DEF KeysLeft, CRuntimesLeft, ArchsLeft, StdlibsLeft
  <2> QED
      BY <1>1, <2>2, <2>3 DEF VariantsOf, KeysWith
<1>2. CASE t.step = "archs"
  <2>1. \A v : /\ Chosen(t, v).of = t.of /\ Chosen(t, v).cruntime = t.cruntime
               /\ Chosen(t, v).step = IF LanguageOf(t.of.of) = "cpp" THEN "stdlibs" ELSE "build"
               /\ Chosen(t, v).arch = v /\ Chosen(t, v).stdlib = "unspecified"
      BY <1>2 DEF Chosen, TaskSet
  <2>2. LanguageOf(t.of.of) # "cpp" => HostStdlibs(t.of) = {"unspecified"}
      BY DEF LanguageOf, HostStdlibs
  <2>3. \A v : KeysLeft(Chosen(t, v)) = KeysWith(t.of, {t.cruntime}, {v}, HostStdlibs(t.of))
      BY <2>1, <2>2 DEF KeysLeft, CRuntimesLeft, ArchsLeft, StdlibsLeft
  <2>4. KeysLeft(t) = KeysWith(t.of, {t.cruntime}, HostArchs(t.of), HostStdlibs(t.of))
      BY <1>2 DEF KeysLeft, CRuntimesLeft, ArchsLeft, StdlibsLeft
  <2> QED
      BY <1>2, <2>3, <2>4 DEF VariantsOf, KeysWith
<1>3. CASE t.step = "stdlibs"
  <2>1. \A v : /\ Chosen(t, v).of = t.of /\ Chosen(t, v).cruntime = t.cruntime
               /\ Chosen(t, v).step = "build" /\ Chosen(t, v).arch = t.arch
               /\ Chosen(t, v).stdlib = v
      BY <1>3 DEF Chosen, TaskSet
  <2>2. \A v : KeysLeft(Chosen(t, v)) = KeysWith(t.of, {t.cruntime}, {t.arch}, {v})
      BY <2>1 DEF KeysLeft, CRuntimesLeft, ArchsLeft, StdlibsLeft
  <2>3. KeysLeft(t) = KeysWith(t.of, {t.cruntime}, {t.arch}, HostStdlibs(t.of))
      BY <1>3 DEF KeysLeft, CRuntimesLeft, ArchsLeft, StdlibsLeft
  <2> QED
      BY <1>3, <2>2, <2>3 DEF VariantsOf, KeysWith
<1> QED
    BY <1>1, <1>2, <1>3 DEF TaskSet

\* What remains of a task when a variant is chosen.
LEMMA ChosenTyped ==
    ASSUME NEW t \in TaskSet, t.step # "build", NEW v \in Names,
           t.step \in {"cruntimes", "archs"} => t.stdlib = "unspecified"
    PROVE  LET r == Chosen(t, v)
           IN  /\ r \in TaskSet
               /\ r.step \in {"cruntimes", "archs"} => r.stdlib = "unspecified"
               /\ r.step = "stdlibs" => LanguageOf(r.of.of) = "cpp"
<1>1. CASE t.step = "cruntimes"
    BY <1>1 DEF Chosen, TaskSet
<1>2. CASE t.step = "archs"
    BY <1>2 DEF Chosen, TaskSet
<1>3. CASE t.step = "stdlibs"
    BY <1>3 DEF Chosen, TaskSet
<1> QED
    BY <1>1, <1>2, <1>3 DEF TaskSet

\* A task is replaced by its variants.
LEMMA ForEachFoundKeepsDetectInv == DetectInv /\ ForEachFound => DetectInv'
<1> SUFFICES ASSUME DetectInv, ForEachFound PROVE DetectInv'
    OBVIOUS
<1>1. PICK t : t = Head(left)
    OBVIOUS
<1>2. PICK vs : vs = OrDefault(passed, Default(t))
    OBVIOUS
<1>3. PICK ts : ts = [i \in 1..Len(vs) |-> Chosen(t, vs[i])]
    OBVIOUS
<1>4. /\ left # <<>> /\ t.step # "build" /\ tried = Len(Candidates(t))
      /\ left' = ts \o Tail(left) /\ tried' = 0 /\ passed' = <<>>
      /\ UNCHANGED <<host, unseen, toolchains, registry, detected>>
    BY <1>1, <1>2, <1>3 DEF ForEachFound
<1>5. /\ left \in Seq(TaskSet) /\ passed \in Seq(Names) /\ t \in TaskSet
      /\ Tail(left) \in Seq(TaskSet) /\ Range(left) = {t} \cup Range(Tail(left))
  <2>1. left \in Seq(TaskSet) /\ passed \in Seq(Names)
      BY DEF DetectInv, DetectTypeOK
  <2> QED
      BY <1>1, <1>4, <2>1, HeadTailProperties, RangeHeadTail
<1>6. vs \in Seq(Names) /\ vs # <<>>
  <2>1. Default(t) \in Names
      BY DEF Default, Names
  <2> QED
      BY <1>2, <1>5, <2>1 DEF OrDefault
<1>7. /\ t.step \in {"cruntimes", "archs"} => t.stdlib = "unspecified"
      /\ t.step = "stdlibs" => LanguageOf(t.of.of) = "cpp"
    BY <1>5 DEF DetectInv, LibraryChosen
<1>8. Len(vs) \in Nat /\ Len(vs) # 0 /\ \A i \in 1..Len(vs) : vs[i] \in Names
    BY <1>6, EmptySeq, ElementOfSeq
<1>9. \A i \in 1..Len(vs) : Chosen(t, vs[i]) \in TaskSet
    BY <1>4, <1>5, <1>7, <1>8, ChosenTyped
<1>10. ts \in Seq(TaskSet) /\ Len(ts) = Len(vs) /\ ts # <<>>
    BY <1>3, <1>8, <1>9
<1>11. Range(ts) = {Chosen(t, v) : v \in Range(vs)}
  <2>1. Range(vs) = {vs[i] : i \in 1..Len(vs)} /\ Range(ts) = {ts[i] : i \in 1..Len(vs)}
      BY <1>6, <1>10, RangeEquality
  <2> QED
      BY <1>3, <2>1
<1>12. /\ left' \in Seq(TaskSet) /\ left' # <<>>
       /\ Range(left') = Range(ts) \cup Range(Tail(left))
  <2>1. left' = ts \o Tail(left) /\ Tail(left) \in Seq(TaskSet) /\ ts \in Seq(TaskSet)
      BY <1>4, <1>5, <1>10
  <2>2. left' \in Seq(TaskSet)
      BY <2>1
  <2>3. Range(left') = Range(ts) \cup Range(Tail(left))
      BY <2>1, RangeConcatenation
  <2>4. left' # <<>>
      BY <1>8, <1>10, <2>1, EmptySeq
  <2> QED
      BY <2>2, <2>3, <2>4
<1>13. DetectTypeOK'
    BY <1>4, <1>12, HostStays, EmptySeq DEF DetectInv, DetectTypeOK
<1>14. LibraryChosen'
  <2>1. \A v \in Range(vs) : v \in Names
      BY <1>6, RangeOfSeq
  <2>2. \A r \in Range(ts) :
          /\ r.step \in {"cruntimes", "archs"} => r.stdlib = "unspecified"
          /\ r.step = "stdlibs" => LanguageOf(r.of.of) = "cpp"
      BY <1>4, <1>5, <1>7, <1>11, <2>1, ChosenTyped
  <2> QED
      BY <1>5, <1>12, <2>2 DEF DetectInv, LibraryChosen
<1>15. PassedOK'
    BY <1>4, FreshTask
<1>16. LeftKeys' = LeftKeys
  <2>1. Range(vs) = VariantsOf(t)
      BY <1>1, <1>2, <1>4, AllTried
  <2>2. KeysLeft(t) = UNION {KeysLeft(Chosen(t, v)) : v \in Range(vs)}
      BY <1>4, <1>5, <1>7, <2>1, VariantKeys DEF DetectInv
  <2>3. LeftKeys = KeysLeft(t) \cup (UNION {KeysLeft(r) : r \in Range(Tail(left))})
      BY <1>5 DEF LeftKeys
  <2>4. LeftKeys' = UNION {KeysLeft(r) : r \in Range(left')}
      BY <1>4, HostStays DEF LeftKeys
  <2>5. LeftKeys' = (UNION {KeysLeft(r) : r \in Range(ts)})
                      \cup (UNION {KeysLeft(r) : r \in Range(Tail(left))})
      BY <1>12, <2>4
  <2> QED
      BY <1>11, <2>2, <2>3, <2>5
<1>17. NothingLost'
  <2>1. Found' = Found /\ UnseenKeys' = UnseenKeys
      BY <1>4, HostStays DEF Found, UnseenKeys
  <2> QED
      BY <1>4, <1>16, <2>1, HostStays DEF DetectInv, NothingLost
<1>18. NoneTwice' /\ AllRegistered'
    BY <1>4, <1>12 DEF DetectInv, NoneTwice, AllRegistered
<1> QED
    BY <1>13, <1>14, <1>15, <1>17, <1>18 DEF DetectInv

----------------------------------------------------------------------------
\* The key of the toolchain that a task ends with.
KeyOf(t) ==
  <<LanguageOf(t.of.of), CompilerOf(t.of.of), t.of.version, t.cruntime,
    CRuntimeVersion(t.cruntime), t.stdlib, t.arch>>

\* It is the only one that is left to find.
LEMMA LastKey == \A t : t.step = "build" => KeysLeft(t) = {KeyOf(t)}
BY DEF KeysLeft, KeysWith, KeyOf, CRuntimesLeft, ArchsLeft, StdlibsLeft

\* The toolchain that is built has that key.
LEMMA KeyBuilt == \A t : Key(Toolchain(t)) = KeyOf(t)
BY DEF Key, Toolchain, KeyOf

\* A toolchain is built, unless one like it has been.
LEMMA BuildKeepsDetectInv == DetectInv /\ BuildToolchain => DetectInv'
<1> SUFFICES ASSUME DetectInv, BuildToolchain PROVE DetectInv'
    OBVIOUS
<1>1. PICK t : t = Head(left)
    OBVIOUS
<1>2. toolchains' = IF \E i \in DOMAIN toolchains : Key(toolchains[i]) = Key(Toolchain(t))
                    THEN toolchains ELSE Append(toolchains, Toolchain(t))
    BY <1>1 DEF BuildToolchain
<1>3. /\ left # <<>> /\ t.step = "build" /\ left' = Tail(left)
      /\ UNCHANGED <<host, unseen, tried, passed, registry, detected>>
    BY <1>1 DEF BuildToolchain
<1>4. PICK c : c = Toolchain(t)
    OBVIOUS
<1>5. /\ left \in Seq(TaskSet) /\ t \in TaskSet /\ left' \in Seq(TaskSet)
      /\ Range(left) = {t} \cup Range(left') /\ toolchains \in Seq(ToolchainSet)
  <2>1. left \in Seq(TaskSet) /\ toolchains \in Seq(ToolchainSet)
      BY DEF DetectInv, DetectTypeOK
  <2> QED
      BY <1>1, <1>3, <2>1, HeadTailProperties, RangeHeadTail
<1>7. c \in ToolchainSet
  <2>1. t.of \in Executables /\ t.cruntime \in Names /\ t.arch \in Names /\ t.stdlib \in Names
      BY <1>5 DEF TaskSet
  <2>2. t.of.version \in STRING /\ host.glibc \in STRING
      BY <2>1, ExecutablesTyped DEF DetectInv
  <2> QED
      BY <1>4, <2>1, <2>2 DEF Toolchain, ToolchainSet, CRuntimeVersion, LanguageOf, CompilerOf
<1>8. DetectTypeOK'
  <2>1. toolchains' \in Seq(ToolchainSet)
      BY <1>2, <1>4, <1>5, <1>7, AppendProperties
  <2> QED
      BY <1>3, <1>5, <2>1, HostStays DEF DetectInv, DetectTypeOK
<1>9. LibraryChosen'
    BY <1>5 DEF DetectInv, LibraryChosen
<1>10. PassedOK'
    BY <1>1, <1>3, FreshTask DEF DetectInv, PassedOK
<1>11. Found' = Found \cup {Key(c)}
  <2>1. CASE \E i \in DOMAIN toolchains : Key(toolchains[i]) = Key(c)
    <3>1. Key(c) \in Found
        BY <2>1 DEF Found, Range
    <3>2. toolchains' = toolchains
        BY <1>2, <1>4, <2>1
    <3> QED
        BY <3>1, <3>2 DEF Found
  <2>2. CASE ~ \E i \in DOMAIN toolchains : Key(toolchains[i]) = Key(c)
    <3>1. Range(toolchains') = Range(toolchains) \cup {c}
        BY <1>2, <1>4, <1>5, <1>7, <2>2, RangeAppend
    <3> QED
        BY <3>1 DEF Found
  <2> QED
      BY <2>1, <2>2
<1>12. LeftKeys = {KeyOf(t)} \cup LeftKeys' /\ UnseenKeys' = UnseenKeys
  <2>1. LeftKeys' = UNION {KeysLeft(r) : r \in Range(left')}
      BY <1>3, HostStays DEF LeftKeys
  <2>2. LeftKeys = KeysLeft(t) \cup (UNION {KeysLeft(r) : r \in Range(left')})
      BY <1>5 DEF LeftKeys
  <2> QED
      BY <1>3, <2>1, <2>2, LastKey, HostStays DEF UnseenKeys
<1>13. HostKeys = (Found \cup {KeyOf(t)}) \cup (LeftKeys' \cup UnseenKeys)
    BY <1>12 DEF DetectInv, NothingLost
<1>14. NothingLost'
  <2>1. Key(c) = KeyOf(t)
      BY <1>4, KeyBuilt
  <2> QED
      BY <1>3, <1>11, <1>12, <1>13, <2>1, HostStays DEF NothingLost
<1>16. NoneTwice'
  <2>1. CASE \E i \in DOMAIN toolchains : Key(toolchains[i]) = Key(c)
      BY <1>2, <1>4, <2>1 DEF DetectInv, NoneTwice
  <2>2. CASE ~ \E i \in DOMAIN toolchains : Key(toolchains[i]) = Key(c)
    <3>1. toolchains' = Append(toolchains, c)
        BY <1>2, <1>4, <2>2
    <3>2. /\ DOMAIN toolchains = 1..Len(toolchains) /\ Len(toolchains) \in Nat
          /\ DOMAIN toolchains' = 1..Len(toolchains) \cup {Len(toolchains) + 1}
          /\ \A i \in 1..Len(toolchains) : toolchains'[i] = toolchains[i]
          /\ toolchains'[Len(toolchains) + 1] = c
        BY <1>5, <1>7, <3>1, AppendProperties
    <3> QED
        BY <2>2, <3>2 DEF DetectInv, NoneTwice
  <2> QED
      BY <2>1, <2>2
<1>17. AllRegistered'
    BY <1>3 DEF DetectInv, AllRegistered
<1> QED
    BY <1>8, <1>9, <1>10, <1>14, <1>16, <1>17 DEF DetectInv

\* All toolchains are registered.
LEMMA RegisterKeepsDetectInv == DetectInv /\ RegisterAll => DetectInv'
<1> SUFFICES ASSUME DetectInv, RegisterAll PROVE DetectInv'
    OBVIOUS
<1>1. /\ registry' = {toolchains[i] : i \in {j \in DOMAIN toolchains :
                        \A h \in 1..(j - 1) : Key(toolchains[h]) # Key(toolchains[j])}}
      /\ detected' = TRUE /\ left = <<>> /\ unseen = {}
      /\ UNCHANGED <<host, unseen, left, tried, passed, toolchains>>
    BY DEF RegisterAll, askVars
<1>2. registry' = Range(toolchains)
  <2>1. DOMAIN toolchains = 1..Len(toolchains) /\ Len(toolchains) \in Nat
      BY DEF DetectInv, DetectTypeOK
  <2>2. \A j \in DOMAIN toolchains : \A h \in 1..(j - 1) :
          h \in DOMAIN toolchains /\ h # j
      BY <2>1
  <2>3. \A j \in DOMAIN toolchains : \A h \in 1..(j - 1) :
          Key(toolchains[h]) # Key(toolchains[j])
      BY <2>2 DEF DetectInv, NoneTwice
  <2> QED
      BY <1>1, <2>3 DEF Range
<1>3. DetectTypeOK'
    BY <1>1, HostStays DEF DetectInv, DetectTypeOK
<1>4. LibraryChosen' /\ NoneTwice'
    BY <1>1, HostStays DEF DetectInv, LibraryChosen, NoneTwice, Found
<1>5. PassedOK'
    BY <1>1, FreshTask DEF DetectInv, PassedOK
<1>6. NothingLost'
  <2>1. Found' = Found /\ LeftKeys' = LeftKeys /\ UnseenKeys' = UnseenKeys
      BY <1>1, HostStays DEF Found, LeftKeys, UnseenKeys
  <2> QED
      BY <1>1, <2>1, HostStays DEF DetectInv, NothingLost
<1>7. AllRegistered'
    BY <1>1, <1>2 DEF AllRegistered, Found
<1> QED
    BY <1>3, <1>4, <1>5, <1>6, <1>7 DEF DetectInv

\* Every step, and none, keeps the invariant.
LEMMA DetectInvStep == DetectInv /\ [DetectNext]_detectVars => DetectInv'
<1> SUFFICES ASSUME DetectInv, UNCHANGED detectVars PROVE DetectInv'
    BY NextCompilerKeepsDetectInv, TryKeepsDetectInv, ForEachFoundKeepsDetectInv,
       BuildKeepsDetectInv, RegisterKeepsDetectInv DEF DetectNext
<1>1. UNCHANGED <<host, unseen, left, tried, passed, toolchains, registry, detected>>
    BY DEF detectVars, askVars
<1>2. DetectTypeOK' /\ LibraryChosen' /\ NoneTwice' /\ AllRegistered'
  <2>1. DetectTypeOK'
      BY <1>1, HostStays DEF DetectInv, DetectTypeOK
  <2>2. LibraryChosen' /\ NoneTwice'
      BY <1>1 DEF DetectInv, LibraryChosen, NoneTwice
  <2>3. Found' = Found
      BY <1>1 DEF Found
  <2>5. AllRegistered'
      BY <1>1, <2>3 DEF DetectInv, AllRegistered
  <2> QED
      BY <2>1, <2>2, <2>5
<1>3. PassedOK'
    BY <1>1 DEF DetectInv, PassedOK, PassedOf
<1>4. NothingLost'
  <2>1. Found' = Found /\ LeftKeys' = LeftKeys /\ UnseenKeys' = UnseenKeys
      BY <1>1, HostStays DEF Found, LeftKeys, UnseenKeys
  <2> QED
      BY <1>1, <2>1, HostStays DEF DetectInv, NothingLost
<1> QED
    BY <1>2, <1>3, <1>4 DEF DetectInv

\* At the end nothing is left to find.
LEMMA DetectInvSays == DetectInv => DetectsTheHost
<1> SUFFICES ASSUME DetectInv, detected PROVE DetectsTheHost
    BY DEF DetectsTheHost
<1>1. left = <<>> /\ unseen = {} /\ registry = Range(toolchains)
    BY DEF DetectInv, AllRegistered
<1>2. LeftKeys = {} /\ UnseenKeys = {}
    BY <1>1, RangeSmall DEF LeftKeys, UnseenKeys
<1>3. Found = HostKeys
    BY <1>2 DEF DetectInv, NothingLost
<1>4. \A t, u \in registry : Key(t) = Key(u) => t = u
    BY <1>1 DEF DetectInv, NoneTwice, Range
<1> QED
    BY <1>1, <1>3, <1>4 DEF DetectsTheHost, Found

(***************************************************************************)
(* A detection of any host registers each combination that there is to     *)
(* find on it, and none of them twice.                                     *)
(***************************************************************************)
THEOREM DetectionExact == DetectSpec => []DetectsTheHost
BY DetectInvInit, DetectInvStep, DetectInvSays, PTL DEF DetectSpec
=============================================================================
