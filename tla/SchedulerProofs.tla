-------------------------- MODULE SchedulerProofs --------------------------
(***************************************************************************)
(* Proofs about Scheduler: type correctness, the safety invariants of the  *)
(* queue and of the two-step retry, and that it implements Dispatch until  *)
(* the first race, for every number of jobs and goroutines.                *)
(***************************************************************************)
EXTENDS Scheduler, SequenceTheorems, TLAPS

----------------------------------------------------------------------------
(***************************************************************************)
(* The inductive invariant.  The invariants of the runs do not stand by    *)
(* themselves: a retry starts a job for the first time only because every  *)
(* job started so far was started by its own EnqueueJob, or has left the   *)
(* queue, or is the head that a goroutine is about to dequeue.             *)
(***************************************************************************)

\* Between Peek and Dequeue a goroutine holds a job, never None, and so does
\* an execution goroutine: what is started or given up is a job.
HoldsAJob ==
  /\ \A t \in Threads : InWindow(t) => held[t] \in Jobs
  /\ \A g \in Execs : pc[g] # "unborn" => job[g] \in Jobs

TypeInv == TypeOK /\ HoldsAJob

\* At most one goroutine is between Peek and Dequeue.
Alone ==
  \A t, u \in Threads : InWindow(t) /\ InWindow(u) => t = u

\* Where a started job was started from.
StartedFrom ==
  \A g \in Execs :
    pc[g] # "unborn" =>
      \/ sub[job[g]] = "scheduled"
      \/ job[g] \in gone
      \/ \E t \in Threads : pc[t] = "dequeue" /\ held[t] = job[g]

\* What TryScheduleNext knows of the job that it is about to dequeue.
Decided ==
  \A t \in Threads : /\ pc[t] = "dequeue" => held[t] \in StartedJobs
                     /\ pc[t] = "drop" => held[t] \in dropped

HeadHeld     == \A t \in Threads : InWindow(t) => queue # <<>> /\ Head(queue) = held[t]
AtMostOnce   == \A g, h \in Execs : pc[g] # "unborn" /\ pc[h] # "unborn" /\ job[g] = job[h]
                                    => g = h
NoneLost     == gone \subseteq StartedJobs \cup dropped
RemovedNeverRuns == removed \cap StartedJobs = {}

Serial ==
  /\ Alone /\ HeadHeld
  /\ StartedFrom /\ Decided
  /\ AtMostOnce /\ NoneLost /\ RemovedNeverRuns

IInv ==
  /\ TypeInv
  /\ QueuedOnce
  /\ ~raced => Serial

----------------------------------------------------------------------------
(***************************************************************************)
(* The queue's sequences.                                                  *)
(***************************************************************************)

\* No element of a sequence is repeated.
Distinct(s) == \A i, k \in 1..Len(s) : s[i] = s[k] => i = k

\* The elements of a sequence, by their indices (queue.go: GetAll, Len).
LEMMA ToSetIndices ==
  ASSUME NEW S, NEW s \in Seq(S), NEW x
  PROVE  x \in ToSet(s) <=> \E i \in 1..Len(s) : s[i] = x
BY LenProperties DEF ToSet

\* JobQueue.Enqueue of a job that is not queued keeps the others.
LEMMA AppendDistinct ==
  ASSUME NEW S, NEW s \in Seq(S), NEW e \in S, Distinct(s), e \notin ToSet(s)
  PROVE  /\ Append(s, e) \in Seq(S)
         /\ Distinct(Append(s, e))
         /\ ToSet(Append(s, e)) = ToSet(s) \cup {e}
         /\ s # <<>> => Append(s, e) # <<>> /\ Head(Append(s, e)) = Head(s)
<1>1. /\ Append(s, e) \in Seq(S)
      /\ Len(Append(s, e)) = Len(s) + 1
      /\ \A i \in 1..Len(s) : Append(s, e)[i] = s[i]
      /\ Append(s, e)[Len(s) + 1] = e
  BY AppendProperties
<1>2. Len(s) \in Nat
  BY LenProperties
<1>3. \A i \in 1..Len(s) : s[i] # e
  BY ToSetIndices
<1>4. Distinct(Append(s, e))
  BY <1>1, <1>2, <1>3 DEF Distinct
<1>5. ASSUME NEW x
      PROVE  x \in ToSet(Append(s, e)) <=> x \in ToSet(s) \cup {e}
  <2>. DEFINE q == Append(s, e)
  <2>0. q \in Seq(S) /\ Len(q) = Len(s) + 1
    BY <1>1
  <2>. HIDE DEF q
  <2>3. x \in ToSet(q) <=> \E i \in 1..Len(q) : q[i] = x
    BY <2>0, ToSetIndices
  <2>1. x \in ToSet(Append(s, e)) <=> \E i \in 1..(Len(s) + 1) : Append(s, e)[i] = x
    BY <2>0, <2>3 DEF q
  <2>2. x \in ToSet(s) <=> \E i \in 1..Len(s) : s[i] = x
    BY ToSetIndices
  <2>. QED  BY <2>1, <2>2, <1>1, <1>2
<1>6. s # <<>> => Append(s, e) # <<>> /\ Head(Append(s, e)) = Head(s)
  BY HeadTailAppend, AppendProperties
<1>. QED  BY <1>1, <1>4, <1>5, <1>6

\* JobQueue.Dequeue takes out the first job and no other.
LEMMA TailDistinct ==
  ASSUME NEW S, NEW s \in Seq(S), Distinct(s), s # <<>>
  PROVE  /\ Tail(s) \in Seq(S)
         /\ Head(s) \in S
         /\ Distinct(Tail(s))
         /\ ToSet(Tail(s)) = ToSet(s) \ {Head(s)}
         /\ Head(s) \in ToSet(s)
<1>1. /\ Head(s) \in S
      /\ Tail(s) \in Seq(S)
      /\ Len(Tail(s)) = Len(s) - 1
      /\ \A i \in 1..Len(Tail(s)) : Tail(s)[i] = s[i + 1]
  BY HeadTailProperties
<1>2. Len(s) \in Nat \ {0}
  BY EmptySeq
<1>3. Head(s) = s[1]
  OBVIOUS
<1>4. Distinct(Tail(s))
  BY <1>1, <1>2 DEF Distinct
<1>5. ASSUME NEW x
      PROVE  x \in ToSet(Tail(s)) <=> x \in ToSet(s) \ {Head(s)}
  <2>1. x \in ToSet(Tail(s)) <=> \E i \in 1..(Len(s) - 1) : Tail(s)[i] = x
    BY <1>1, ToSetIndices
  <2>2. x \in ToSet(s) <=> \E i \in 1..Len(s) : s[i] = x
    BY ToSetIndices
  <2>3. ASSUME x \in ToSet(Tail(s))
        PROVE  x \in ToSet(s) /\ x # Head(s)
    BY <2>1, <2>2, <2>3, <1>1, <1>2, <1>3 DEF Distinct
  <2>4. ASSUME x \in ToSet(s), x # Head(s)
        PROVE  x \in ToSet(Tail(s))
    <3>1. PICK i \in 1..Len(s) : s[i] = x
      BY <2>2, <2>4
    <3>2. i - 1 \in 1..(Len(s) - 1)
      BY <3>1, <2>4, <1>2, <1>3
    <3>3. Tail(s)[i - 1] = x
      BY <3>1, <3>2, <1>1, <1>2
    <3>. QED  BY <2>1, <3>2, <3>3
  <2>. QED  BY <2>3, <2>4
<1>6. Head(s) \in ToSet(s)
  BY <1>2, <1>3, ToSetIndices
<1>. QED  BY <1>1, <1>4, <1>5, <1>6

\* JobQueue.Remove takes out the job at one index and keeps the order.
LEMMA RemoveAtIndices ==
  ASSUME NEW S, NEW s \in Seq(S), NEW i \in 1..Len(s)
  PROVE  /\ RemoveAt(s, i) \in Seq(S)
         /\ Len(RemoveAt(s, i)) = Len(s) - 1
         /\ \A k \in 1..(Len(s) - 1) :
               RemoveAt(s, i)[k] = IF k < i THEN s[k] ELSE s[k + 1]
<1>. DEFINE front == SubSeq(s, 1, i - 1)
            back  == SubSeq(s, i + 1, Len(s))
<1>1. Len(s) \in Nat /\ \A k \in 1..Len(s) : s[k] \in S
  BY LenProperties, ElementOfSeq
<1>2. /\ front \in Seq(S)
      /\ Len(front) = i - 1
      /\ \A k \in 1..(i - 1) : front[k] = s[k]
  <2>1. \A k \in 1..(i - 1) : s[k] \in S
    BY <1>1
  <2>2. /\ front \in Seq(S)
        /\ Len(front) = IF 1 <= i - 1 THEN (i - 1) - 1 + 1 ELSE 0
        /\ \A k \in 1..((i - 1) - 1 + 1) : front[k] = s[1 + k - 1]
    BY <2>1, SubSeqProperties
  <2>. QED  BY <1>1, <2>2
<1>3. /\ back \in Seq(S)
      /\ Len(back) = Len(s) - i
      /\ \A k \in 1..(Len(s) - i) : back[k] = s[i + k]
  <2>1. \A k \in (i + 1)..Len(s) : s[k] \in S
    BY <1>1
  <2>2. /\ back \in Seq(S)
        /\ Len(back) = IF i + 1 <= Len(s) THEN Len(s) - (i + 1) + 1 ELSE 0
        /\ \A k \in 1..(Len(s) - (i + 1) + 1) : back[k] = s[(i + 1) + k - 1]
    BY <2>1, <1>1, SubSeqProperties
  <2>. QED  BY <1>1, <2>2
<1>4. /\ front \o back \in Seq(S)
      /\ Len(front \o back) = (i - 1) + (Len(s) - i)
      /\ \A k \in 1..((i - 1) + (Len(s) - i)) :
           (front \o back)[k] = IF k <= i - 1 THEN front[k] ELSE back[k - (i - 1)]
  <2>. HIDE DEF front, back
  <2>1. /\ front \o back \in Seq(S)
        /\ Len(front \o back) = Len(front) + Len(back)
        /\ \A k \in 1..(Len(front) + Len(back)) :
             (front \o back)[k] = IF k <= Len(front) THEN front[k] ELSE back[k - Len(front)]
    BY <1>2, <1>3, ConcatProperties
  <2>. QED  BY <2>1, <1>2, <1>3
<1>5. RemoveAt(s, i) = front \o back
  BY DEF RemoveAt
<1>. HIDE DEF front, back
<1>6. (i - 1) + (Len(s) - i) = Len(s) - 1
  BY <1>1
<1>7. ASSUME NEW k \in 1..(Len(s) - 1)
      PROVE  (front \o back)[k] = IF k < i THEN s[k] ELSE s[k + 1]
  <2>1. (front \o back)[k] = IF k <= i - 1 THEN front[k] ELSE back[k - (i - 1)]
    BY <1>4, <1>6
  <2>2. CASE k < i
    BY <2>1, <2>2, <1>1, <1>2
  <2>3. CASE ~(k < i)
    <3>1. k - (i - 1) \in 1..(Len(s) - i) /\ i + (k - (i - 1)) = k + 1 /\ ~(k <= i - 1)
      BY <2>3, <1>1
    <3>. QED  BY <3>1, <2>1, <2>3, <1>3
  <2>. QED  BY <2>2, <2>3
<1>. QED  BY <1>4, <1>5, <1>6, <1>7

\* JobQueue.Remove takes out the job it was asked for and no other.
LEMMA RemoveAtDistinct ==
  ASSUME NEW S, NEW s \in Seq(S), Distinct(s), NEW i \in 1..Len(s)
  PROVE  /\ RemoveAt(s, i) \in Seq(S)
         /\ Distinct(RemoveAt(s, i))
         /\ ToSet(RemoveAt(s, i)) = ToSet(s) \ {s[i]}
         /\ s[i] \in ToSet(s)
         /\ Head(s) # s[i] => RemoveAt(s, i) # <<>> /\ Head(RemoveAt(s, i)) = Head(s)
<1>. DEFINE r == RemoveAt(s, i)
<1>1. Len(s) \in Nat
  BY LenProperties
<1>2. /\ r \in Seq(S)
      /\ Len(r) = Len(s) - 1
      /\ \A k \in 1..(Len(s) - 1) : r[k] = IF k < i THEN s[k] ELSE s[k + 1]
  BY RemoveAtIndices
<1>. HIDE DEF r
<1>3. Distinct(r)
  <2>. SUFFICES ASSUME NEW k \in 1..(Len(s) - 1), NEW l \in 1..(Len(s) - 1), r[k] = r[l]
                PROVE  k = l
    BY <1>2 DEF Distinct
  <2>. DEFINE at(n) == IF n < i THEN n ELSE n + 1
  <2>1. at(k) \in 1..Len(s) /\ at(l) \in 1..Len(s) /\ r[k] = s[at(k)] /\ r[l] = s[at(l)]
    BY <1>1, <1>2
  <2>2. at(k) = at(l)
    BY <2>1 DEF Distinct
  <2>. QED  BY <2>2, <1>1
<1>4. ASSUME NEW x
      PROVE  x \in ToSet(r) <=> x \in ToSet(s) \ {s[i]}
  <2>1. x \in ToSet(r) <=> \E k \in 1..(Len(s) - 1) : r[k] = x
    BY <1>2, ToSetIndices
  <2>2. x \in ToSet(s) <=> \E k \in 1..Len(s) : s[k] = x
    BY ToSetIndices
  <2>3. ASSUME x \in ToSet(r)
        PROVE  x \in ToSet(s) /\ x # s[i]
    <3>1. PICK k \in 1..(Len(s) - 1) : r[k] = x
      BY <2>1, <2>3
    <3>2. PICK l \in 1..Len(s) : l # i /\ s[l] = x
      BY <3>1, <1>1, <1>2
    <3>. QED  BY <3>2, <2>2 DEF Distinct
  <2>4. ASSUME x \in ToSet(s), x # s[i]
        PROVE  x \in ToSet(r)
    <3>1. PICK l \in 1..Len(s) : s[l] = x
      BY <2>2, <2>4
    <3>2. l # i
      BY <3>1, <2>4
    <3>3. CASE l < i
      BY <3>1, <3>3, <2>1, <1>1, <1>2
    <3>4. CASE l > i
      <4>1. l - 1 \in 1..(Len(s) - 1) /\ r[l - 1] = x
        BY <3>1, <3>4, <1>1, <1>2
      <4>. QED  BY <4>1, <2>1
    <3>. QED  BY <3>2, <3>3, <3>4, <1>1
  <2>. QED  BY <2>3, <2>4
<1>5. s[i] \in ToSet(s)
  BY ToSetIndices
<1>6. Head(s) # s[i] => r # <<>> /\ Head(r) = Head(s)
  <2>. SUFFICES ASSUME Head(s) # s[i]
                PROVE  r # <<>> /\ Head(r) = Head(s)
    OBVIOUS
  <2>1. s # <<>> /\ Head(s) = s[1]
    BY <1>1, EmptySeq
  <2>2. i > 1 /\ Len(r) > 0 /\ r[1] = s[1]
    BY <2>1, <1>1, <1>2
  <2>. QED  BY <2>1, <2>2, <1>2, EmptySeq
<1>. QED  BY <1>2, <1>3, <1>4, <1>5, <1>6 DEF r

----------------------------------------------------------------------------
(***************************************************************************)
(* Type correctness.                                                       *)
(***************************************************************************)

\* Nobody holds a job before the first step.
LEMMA TypeInit == Init => TypeInv
BY EmptySeq DEF Init, TypeInv, HoldsAJob, InWindow, TypeOK, Threads, SubState, ExecState

\* What a goroutine holds it has read off the queue, and the queue holds jobs.
LEMMA TypeStep == TypeInv /\ [Next]_vars => TypeInv'
<1>. SUFFICES ASSUME TypeInv, [Next]_vars
              PROVE  TypeInv'
  OBVIOUS
<1>. USE DEF SubState, ExecState, Threads, TypeInv, HoldsAJob, InWindow
<1>1. ASSUME NEW j \in Jobs, EnqueueStart(j)
      PROVE  TypeInv'
  BY <1>1 DEF TypeOK, EnqueueStart, Started
<1>2. ASSUME NEW j \in Jobs, EnqueueBusy(j) \/ EnqueueReject(j)
      PROVE  TypeInv'
  BY <1>2 DEF TypeOK, EnqueueBusy, EnqueueReject
<1>3. ASSUME NEW j \in Jobs, EnqueueAppend(j)
      PROVE  TypeInv'
  BY <1>3, AppendProperties DEF TypeOK, EnqueueAppend
<1>4. ASSUME NEW j \in Jobs, RemoveQueuedJob(j)
      PROVE  TypeInv'
  <2>1. queue' \in Seq(Jobs)
    BY <1>4, RemoveAtIndices DEF TypeOK, RemoveQueuedJob
  <2>. QED  BY <1>4, <2>1 DEF TypeOK, RemoveQueuedJob
<1>5. ASSUME NEW g \in Execs, Complete(g) \/ Hang(g) \/ Panic(g)
      PROVE  TypeInv'
  BY <1>5 DEF TypeOK, Complete, Hang, Panic
<1>6. ASSUME NEW c \in Callers, OnJobCompletion(c)
      PROVE  TypeInv'
  BY <1>6 DEF TypeOK, OnJobCompletion
<1>7. ASSUME NEW t \in Threads, PeekEmpty(t) \/ RetryBusy(t)
      PROVE  TypeInv'
  BY <1>7 DEF TypeOK, PeekEmpty, RetryBusy
<1>8. ASSUME NEW t \in Threads, PeekHead(t)
      PROVE  TypeInv'
  <2>1. Head(queue) \in Jobs
    BY <1>8, HeadTailProperties DEF TypeOK, PeekHead
  <2>. QED  BY <1>8, <2>1 DEF TypeOK, PeekHead
<1>9. ASSUME NEW t \in Threads, RetryStart(t)
      PROVE  TypeInv'
  BY <1>9 DEF TypeOK, RetryStart, Started
<1>10. ASSUME NEW t \in Threads, RetryRefused(t)
       PROVE  TypeInv'
  BY <1>10 DEF TypeOK, RetryRefused
<1>11. ASSUME NEW t \in Threads, DequeueHead(t)
       PROVE  TypeInv'
  <2>1. queue # <<>> => Head(queue) \in Jobs /\ Tail(queue) \in Seq(Jobs)
    BY HeadTailProperties DEF TypeOK
  <2>. QED  BY <1>11, <2>1 DEF TypeOK, DequeueHead, AfterDequeue
<1>12. CASE UNCHANGED vars
  BY <1>12 DEF TypeOK, vars
<1>. HIDE DEF SubState, ExecState, Threads, TypeInv, HoldsAJob, InWindow
<1>. QED
  BY <1>1, <1>2, <1>3, <1>4, <1>5, <1>6, <1>7, <1>8, <1>9, <1>10, <1>11, <1>12
     DEF Next, EnqueueJob, TryScheduleNext

\* Every variable of the scheduler keeps its type.
THEOREM TypeCorrect == Spec => []TypeOK
<1>1. TypeInv => TypeOK
  BY DEF TypeInv
<1>. QED  BY <1>1, TypeInit, TypeStep, PTL DEF Spec

----------------------------------------------------------------------------
(***************************************************************************)
(* The place of a queued job.                                              *)
(***************************************************************************)

\* The queue starts empty.
LEMMA QueuedOnceInit == Init => QueuedOnce
BY DEF Init, QueuedOnce, ToSet

\* Only EnqueueJob appends, and only a job that is in no queue yet.
LEMMA QueuedOnceStep == TypeOK /\ QueuedOnce /\ [Next]_vars => QueuedOnce'
<1>. SUFFICES ASSUME TypeOK, QueuedOnce, [Next]_vars
              PROVE  QueuedOnce'
  OBVIOUS
<1>0. queue \in Seq(Jobs) /\ Distinct(queue)
  BY DEF TypeOK, QueuedOnce, Distinct
<1>1. ASSUME UNCHANGED <<queue, gone, removed>>,
             \A j \in Jobs : sub[j] = "queued" <=> sub'[j] = "queued"
      PROVE  QueuedOnce'
  BY <1>1 DEF QueuedOnce
<1>2. ASSUME NEW j \in Jobs, EnqueueStart(j) \/ EnqueueBusy(j) \/ EnqueueReject(j)
      PROVE  QueuedOnce'
  BY <1>1, <1>2 DEF TypeOK, EnqueueStart, EnqueueBusy, EnqueueReject
<1>3. ASSUME NEW j \in Jobs, EnqueueAppend(j)
      PROVE  QueuedOnce'
  <2>1. j \notin ToSet(queue) \cup gone \cup removed
    BY <1>3 DEF EnqueueAppend, QueuedOnce
  <2>2. Distinct(queue') /\ ToSet(queue') = ToSet(queue) \cup {j}
    BY <1>0, <1>3, <2>1, AppendDistinct DEF EnqueueAppend
  <2>. QED  BY <1>3, <2>1, <2>2 DEF EnqueueAppend, QueuedOnce, Distinct, TypeOK
<1>4. ASSUME NEW j \in Jobs, RemoveQueuedJob(j)
      PROVE  QueuedOnce'
  <2>1. /\ Distinct(queue')
        /\ ToSet(queue') = ToSet(queue) \ {j}
        /\ j \in ToSet(queue)
    BY <1>0, <1>4, RemoveAtDistinct DEF RemoveQueuedJob
  <2>. QED  BY <1>4, <2>1 DEF RemoveQueuedJob, QueuedOnce, Distinct
<1>5. ASSUME NEW g \in Execs, Complete(g) \/ Hang(g) \/ Panic(g)
      PROVE  QueuedOnce'
  BY <1>1, <1>5 DEF Complete, Hang, Panic
<1>6. ASSUME NEW c \in Callers, OnJobCompletion(c)
      PROVE  QueuedOnce'
  BY <1>1, <1>6 DEF OnJobCompletion
<1>7. ASSUME NEW t \in Threads,
             PeekEmpty(t) \/ PeekHead(t) \/ RetryStart(t) \/ RetryBusy(t) \/ RetryRefused(t)
      PROVE  QueuedOnce'
  BY <1>1, <1>7 DEF PeekEmpty, PeekHead, RetryStart, RetryBusy, RetryRefused
<1>8. ASSUME NEW t \in Threads, DequeueHead(t)
      PROVE  QueuedOnce'
  <2>1. CASE queue = <<>>
    BY <1>1, <1>8, <2>1 DEF DequeueHead
  <2>2. CASE queue # <<>>
    <3>1. /\ Distinct(queue')
          /\ ToSet(queue') = ToSet(queue) \ {Head(queue)}
          /\ Head(queue) \in ToSet(queue)
      BY <1>0, <1>8, <2>2, TailDistinct DEF DequeueHead
    <3>. QED  BY <1>8, <2>2, <3>1 DEF DequeueHead, QueuedOnce, Distinct
  <2>. QED  BY <2>1, <2>2
<1>9. CASE UNCHANGED vars
  BY <1>1, <1>9 DEF vars
<1>. QED
  BY <1>2, <1>3, <1>4, <1>5, <1>6, <1>7, <1>8, <1>9
     DEF Next, EnqueueJob, TryScheduleNext

\* A queued job is in exactly one place, however the goroutines interleave
\* between the Peek and the Dequeue of TryScheduleNext.
THEOREM QueuedOnceCorrect == Spec => []QueuedOnce
BY TypeCorrect, QueuedOnceInit, QueuedOnceStep, PTL DEF Spec

----------------------------------------------------------------------------
(***************************************************************************)
(* One goroutine at a time in TryScheduleNext.                             *)
(***************************************************************************)

\* Nothing is started, held or gone before the first step.
LEMMA SerialInit == Init => Serial
BY DEF Init, Serial, Alone, HeadHeld, StartedFrom, Decided, AtMostOnce, NoneLost,
       RemovedNeverRuns, InWindow, Threads, StartedJobs

\* A job was not started before if its EnqueueJob has not decided yet, or if
\* it is queued and no goroutine has just started it.
LEMMA NotStartedYet ==
  ASSUME TypeInv, QueuedOnce, Serial, NEW j \in Jobs,
         \/ sub[j] \notin {"scheduled", "queued"}
         \/ /\ j \in ToSet(queue)
            /\ \A t \in Threads : ~(pc[t] = "dequeue" /\ held[t] = j)
  PROVE  j \notin StartedJobs
<1>. SUFFICES ASSUME NEW g \in Execs, pc[g] # "unborn", job[g] = j
              PROVE  FALSE
  BY DEF StartedJobs
<1>1. \/ sub[j] = "scheduled"
      \/ j \in gone
      \/ \E t \in Threads : pc[t] = "dequeue" /\ held[t] = j
  BY DEF Serial, StartedFrom
<1>2. ASSUME NEW t \in Threads, pc[t] = "dequeue", held[t] = j
      PROVE  j \in ToSet(queue)
  <2>1. queue \in Seq(Jobs) /\ queue # <<>> /\ Head(queue) = j
    BY <1>2 DEF Serial, HeadHeld, InWindow, TypeInv, TypeOK
  <2>2. Distinct(queue)
    BY DEF QueuedOnce, Distinct
  <2>. QED  BY <2>1, <2>2, TailDistinct
<1>. QED  BY <1>1, <1>2 DEF QueuedOnce

\* A step that makes no race keeps all that holds while there was none.
LEMMA SerialStep ==
  ASSUME TypeInv, QueuedOnce, ~raced => Serial, [Next]_vars, ~raced'
  PROVE  Serial'
<1>0. ASSUME Serial, UNCHANGED <<queue, sub, job, held, gone, dropped, removed>>,
             pc' \in [Threads -> ExecState],
             \A t \in Threads : /\ pc'[t] = pc[t] \/ pc'[t] \notin {"unborn", "peeked", "dequeue", "drop"}
                                /\ pc[t] \in {"unborn", "dequeue", "drop"} => pc'[t] = pc[t]
      PROVE  Serial'
  <2>1. StartedJobs' = StartedJobs
    BY <1>0 DEF StartedJobs, Threads
  <2>2. \A t \in Threads : InWindow(t)' => InWindow(t)
    BY <1>0 DEF InWindow
  <2>3. Alone' /\ HeadHeld'
    BY <1>0, <2>2 DEF Serial, Alone, HeadHeld
  <2>4. StartedFrom'
    BY <1>0 DEF Serial, StartedFrom, Threads
  <2>5. Decided'
    BY <1>0, <2>1 DEF Serial, Decided
  <2>6. AtMostOnce'
    BY <1>0 DEF Serial, AtMostOnce, Threads
  <2>7. NoneLost' /\ RemovedNeverRuns'
    BY <1>0, <2>1 DEF Serial, NoneLost, RemovedNeverRuns
  <2>. QED  BY <2>3, <2>4, <2>5, <2>6, <2>7 DEF Serial
<1>00. ~raced /\ Serial
  <2>1. raced => raced'
    BY DEF Next, EnqueueJob, TryScheduleNext, EnqueueStart, EnqueueBusy, EnqueueReject,
           EnqueueAppend, RemoveQueuedJob, Complete, Hang, Panic, OnJobCompletion, PeekEmpty,
           PeekHead, RetryStart, RetryBusy, RetryRefused, DequeueHead, vars
  <2>. QED  BY <2>1 DEF TypeInv, TypeOK
<1>01. queue \in Seq(Jobs) /\ Distinct(queue)
  BY DEF TypeInv, TypeOK, QueuedOnce, Distinct
<1>02. \A t \in Threads :
         InWindow(t) => queue # <<>> /\ Head(queue) = held[t] /\ held[t] \in ToSet(queue)
  BY <1>00, <1>01, TailDistinct DEF Serial, HeadHeld
<1>1. ASSUME NEW j \in Jobs, EnqueueStart(j)
      PROVE  Serial'
  <2>1. PICK g \in Execs : /\ pc[g] = "unborn"
                           /\ \E a \in {"runtime", "nil"} : pc' = [pc EXCEPT ![g] = Started[a]]
                           /\ job' = [job EXCEPT ![g] = j]
    BY <1>1 DEF EnqueueStart
  <2>2. sub[j] = "new" /\ UNCHANGED <<queue, held, gone, dropped, removed>>
    BY <1>1 DEF EnqueueStart
  <2>3. /\ pc'[g] \notin {"unborn", "peeked", "dequeue", "drop"}
        /\ \A t \in Threads \ {g} : pc'[t] = pc[t]
        /\ job'[g] = j
        /\ \A h \in Execs \ {g} : job'[h] = job[h]
    BY <2>1 DEF Started, TypeInv, TypeOK, Threads
  <2>4. sub'[j] = "scheduled" /\ \A i \in Jobs \ {j} : sub'[i] = sub[i]
    BY <1>1 DEF EnqueueStart, TypeInv, TypeOK
  <2>5. j \notin StartedJobs
    BY <1>00, <2>2, NotStartedYet
  <2>6. StartedJobs' = StartedJobs \cup {j}
    BY <2>1, <2>3 DEF StartedJobs, Threads
  <2>7. \A t \in Threads : /\ InWindow(t)' <=> InWindow(t)
                           /\ pc'[t] = "dequeue" <=> pc[t] = "dequeue"
                           /\ pc'[t] = "drop" <=> pc[t] = "drop"
    BY <2>1, <2>3 DEF InWindow
  <2>8. Alone' /\ HeadHeld'
    BY <1>00, <2>2, <2>7 DEF Serial, Alone, HeadHeld
  <2>9. StartedFrom'
    <3>. SUFFICES ASSUME NEW h \in Execs, pc'[h] # "unborn"
                  PROVE  \/ sub'[job'[h]] = "scheduled"
                         \/ job'[h] \in gone'
                         \/ \E t \in Threads : pc'[t] = "dequeue" /\ held'[t] = job'[h]
      BY DEF StartedFrom
    <3>1. CASE h = g
      BY <3>1, <2>3, <2>4
    <3>2. CASE h # g
      <4>1. pc[h] # "unborn" /\ job'[h] = job[h] /\ job[h] # j
        BY <3>2, <2>3, <2>5 DEF Threads, StartedJobs
      <4>2. \/ sub[job[h]] = "scheduled"
            \/ job[h] \in gone
            \/ \E t \in Threads : pc[t] = "dequeue" /\ held[t] = job[h]
        BY <4>1, <1>00 DEF Serial, StartedFrom
      <4>3. sub[job[h]] = "scheduled" => sub'[job[h]] = "scheduled"
        BY <1>1, <4>1 DEF EnqueueStart, TypeInv, TypeOK
      <4>. QED  BY <4>1, <4>2, <4>3, <2>2, <2>7
    <3>. QED  BY <3>1, <3>2
  <2>10. Decided'
    BY <1>00, <2>2, <2>6, <2>7 DEF Serial, Decided
  <2>11. AtMostOnce'
    BY <1>00, <2>3, <2>5 DEF Serial, AtMostOnce, StartedJobs, Threads
  <2>12. NoneLost' /\ RemovedNeverRuns'
    BY <1>00, <2>2, <2>6 DEF Serial, NoneLost, RemovedNeverRuns, QueuedOnce
  <2>. QED  BY <2>8, <2>9, <2>10, <2>11, <2>12 DEF Serial
<1>2. ASSUME NEW j \in Jobs, EnqueueBusy(j) \/ EnqueueReject(j)
      PROVE  Serial'
  <2>1. /\ UNCHANGED <<queue, pc, job, held, gone, dropped, removed>>
        /\ \A i \in Jobs : sub[i] = "scheduled" => sub'[i] = "scheduled"
    BY <1>2 DEF EnqueueBusy, EnqueueReject, TypeInv, TypeOK
  <2>. QED
    BY <1>00, <2>1 DEF Serial, Alone, HeadHeld, StartedFrom, Decided, AtMostOnce, NoneLost,
                       RemovedNeverRuns, InWindow, StartedJobs, TypeInv, HoldsAJob
<1>3. ASSUME NEW j \in Jobs, EnqueueAppend(j)
      PROVE  Serial'
  <2>1. /\ UNCHANGED <<pc, job, held, gone, dropped, removed>>
        /\ \A i \in Jobs : sub[i] = "scheduled" => sub'[i] = "scheduled"
    BY <1>3 DEF EnqueueAppend, TypeInv, TypeOK
  <2>2. j \notin ToSet(queue)
    BY <1>3 DEF EnqueueAppend, QueuedOnce
  <2>3. queue # <<>> => queue' # <<>> /\ Head(queue') = Head(queue)
    BY <1>01, <1>3, <2>2, AppendDistinct DEF EnqueueAppend
  <2>4. HeadHeld'
    BY <1>00, <2>1, <2>3 DEF Serial, HeadHeld, InWindow
  <2>. QED
    BY <1>00, <2>1, <2>4 DEF Serial, Alone, StartedFrom, Decided, AtMostOnce, NoneLost,
                             RemovedNeverRuns, InWindow, StartedJobs, TypeInv, HoldsAJob
<1>4. ASSUME NEW j \in Jobs, RemoveQueuedJob(j)
      PROVE  Serial'
  <2>1. /\ UNCHANGED <<sub, pc, job, held, gone, dropped>>
        /\ removed' = removed \cup {j}
        /\ \A t \in Threads : ~(InWindow(t) /\ held[t] = j)
    BY <1>4 DEF RemoveQueuedJob
  <2>2. PICK i \in 1..Len(queue) : queue[i] = j /\ queue' = RemoveAt(queue, i)
    BY <1>4 DEF RemoveQueuedJob
  <2>3. /\ j \in ToSet(queue)
        /\ Head(queue) # j => queue' # <<>> /\ Head(queue') = Head(queue)
    BY <1>01, <2>2, RemoveAtDistinct
  <2>4. j \notin StartedJobs
    BY <1>00, <2>1, <2>3, NotStartedYet DEF InWindow
  <2>5. HeadHeld'
    BY <1>02, <2>1, <2>3 DEF HeadHeld, InWindow
  <2>6. RemovedNeverRuns'
    BY <1>00, <2>1, <2>4 DEF Serial, RemovedNeverRuns, StartedJobs
  <2>. QED
    BY <1>00, <2>1, <2>5, <2>6 DEF Serial, Alone, StartedFrom, Decided, AtMostOnce, NoneLost,
                                   InWindow, StartedJobs
<1>5. ASSUME NEW g \in Execs, Complete(g) \/ Hang(g) \/ Panic(g)
      PROVE  Serial'
  BY <1>0, <1>00, <1>5 DEF Complete, Hang, Panic, TypeInv, TypeOK, Threads, ExecState
<1>6. ASSUME NEW c \in Callers, OnJobCompletion(c)
      PROVE  Serial'
  BY <1>0, <1>00, <1>6 DEF OnJobCompletion, TypeInv, TypeOK, Threads, ExecState
<1>7. ASSUME NEW t \in Threads, PeekEmpty(t) \/ RetryBusy(t)
      PROVE  Serial'
  BY <1>0, <1>00, <1>7 DEF PeekEmpty, RetryBusy, TypeInv, TypeOK, Threads, ExecState
<1>8. ASSUME NEW t \in Threads, PeekHead(t)
      PROVE  Serial'
  <2>1. /\ UNCHANGED <<queue, sub, job, gone, dropped, removed>>
        /\ queue # <<>>
        /\ pc[t] = "next" /\ pc'[t] = "peeked"
        /\ held'[t] = Head(queue)
        /\ \A u \in Threads \ {t} : pc'[u] = pc[u] /\ held'[u] = held[u]
        /\ \A u \in Threads : ~InWindow(u)
    BY <1>8 DEF PeekHead, TypeInv, TypeOK
  <2>2. \A u \in Threads : InWindow(u)' => u = t
    BY <2>1 DEF InWindow
  <2>3. StartedJobs' = StartedJobs
    BY <2>1 DEF StartedJobs, Threads
  <2>4. Alone' /\ HeadHeld'
    BY <2>1, <2>2 DEF Alone, HeadHeld
  <2>5. StartedFrom'
    BY <1>00, <2>1 DEF Serial, StartedFrom, Threads, InWindow
  <2>6. Decided'
    BY <2>1, <2>2 DEF Decided, InWindow
  <2>7. AtMostOnce'
    BY <1>00, <2>1 DEF Serial, AtMostOnce, Threads
  <2>8. NoneLost' /\ RemovedNeverRuns'
    BY <1>00, <2>1, <2>3 DEF Serial, NoneLost, RemovedNeverRuns
  <2>. QED  BY <2>4, <2>5, <2>6, <2>7, <2>8 DEF Serial
<1>9. ASSUME NEW t \in Threads, RetryStart(t)
      PROVE  Serial'
  <2>1. PICK g \in Execs :
          /\ pc[g] = "unborn"
          /\ \E a \in {"runtime", "nil"} : pc' = [pc EXCEPT ![g] = Started[a], ![t] = "dequeue"]
          /\ job' = [job EXCEPT ![g] = held[t]]
    BY <1>9 DEF RetryStart
  <2>2. pc[t] = "peeked" /\ UNCHANGED <<queue, sub, held, gone, dropped, removed>>
    BY <1>9 DEF RetryStart
  <2>3. /\ pc'[g] \notin {"unborn", "peeked", "dequeue", "drop"}
        /\ pc'[t] = "dequeue" /\ t # g
        /\ \A u \in Threads \ {g, t} : pc'[u] = pc[u]
        /\ job'[g] = held[t]
        /\ \A h \in Execs \ {g} : job'[h] = job[h]
    BY <2>1, <2>2 DEF Started, TypeInv, TypeOK, Threads
  <2>4. InWindow(t)
    BY <2>2 DEF InWindow
  <2>5. \A u \in Threads : InWindow(u) <=> u = t
    BY <1>00, <2>4 DEF Serial, Alone
  <2>6. \A u \in Threads : InWindow(u)' <=> u = t
    BY <2>3, <2>5 DEF InWindow
  <2>7. held[t] \in Jobs /\ held[t] \in ToSet(queue)
    BY <1>02, <2>4 DEF TypeInv, HoldsAJob
  <2>8. held[t] \notin StartedJobs
    <3>1. \A u \in Threads : pc[u] # "dequeue"
      BY <2>2, <2>5 DEF InWindow
    <3>. QED  BY <1>00, <2>7, <3>1, NotStartedYet
  <2>9. StartedJobs' = StartedJobs \cup {held[t]}
    <3>1. \A h \in Execs \ {g} : pc'[h] # "unborn" <=> pc[h] # "unborn"
      BY <2>2, <2>3 DEF Threads
    <3>2. pc'[g] # "unborn" /\ pc[g] = "unborn"
      BY <2>1, <2>3
    <3>. QED  BY <2>3, <3>1, <3>2 DEF StartedJobs
  <2>10. Alone' /\ HeadHeld'
    BY <1>02, <2>2, <2>4, <2>6 DEF Alone, HeadHeld
  <2>11. StartedFrom'
    <3>. SUFFICES ASSUME NEW h \in Execs, pc'[h] # "unborn"
                  PROVE  \/ sub'[job'[h]] = "scheduled"
                         \/ job'[h] \in gone'
                         \/ \E u \in Threads : pc'[u] = "dequeue" /\ held'[u] = job'[h]
      BY DEF StartedFrom
    <3>1. CASE h = g
      BY <3>1, <2>2, <2>3
    <3>2. CASE h # g
      <4>1. pc[h] # "unborn" /\ job'[h] = job[h]
        BY <3>2, <2>2, <2>3 DEF Threads
      <4>2. \A u \in Threads : pc[u] # "dequeue"
        BY <2>2, <2>5 DEF InWindow
      <4>. QED  BY <1>00, <4>1, <4>2, <2>2 DEF Serial, StartedFrom
    <3>. QED  BY <3>1, <3>2
  <2>12. Decided'
    <3>1. \A u \in Threads : pc'[u] = "dequeue" \/ pc'[u] = "drop" => u = t
      BY <2>6 DEF InWindow
    <3>. QED  BY <3>1, <2>2, <2>3, <2>9 DEF Decided
  <2>13. AtMostOnce'
    BY <1>00, <2>2, <2>3, <2>8 DEF Serial, AtMostOnce, StartedJobs, Threads
  <2>14. NoneLost' /\ RemovedNeverRuns'
    BY <1>00, <2>2, <2>7, <2>9 DEF Serial, NoneLost, RemovedNeverRuns, QueuedOnce
  <2>. QED  BY <2>10, <2>11, <2>12, <2>13, <2>14 DEF Serial
<1>10. ASSUME NEW t \in Threads, RetryRefused(t)
       PROVE  Serial'
  <2>1. /\ UNCHANGED <<queue, sub, job, held, gone, removed>>
        /\ pc[t] = "peeked" /\ pc'[t] = "drop"
        /\ \A u \in Threads \ {t} : pc'[u] = pc[u]
        /\ dropped' = dropped \cup {held[t]}
    BY <1>10 DEF RetryRefused, TypeInv, TypeOK
  <2>2. \A u \in Threads : /\ InWindow(u)' <=> InWindow(u)
                           /\ pc'[u] = "dequeue" <=> pc[u] = "dequeue"
    BY <2>1 DEF InWindow
  <2>3. StartedJobs' = StartedJobs
    BY <2>1 DEF StartedJobs, Threads
  <2>4. Alone' /\ HeadHeld'
    BY <1>00, <2>1, <2>2 DEF Serial, Alone, HeadHeld
  <2>5. StartedFrom'
    BY <1>00, <2>1, <2>2 DEF Serial, StartedFrom, Threads
  <2>6. Decided'
    BY <1>00, <2>1, <2>3 DEF Serial, Decided
  <2>7. AtMostOnce'
    BY <1>00, <2>1 DEF Serial, AtMostOnce, Threads
  <2>8. NoneLost' /\ RemovedNeverRuns'
    BY <1>00, <2>1, <2>3 DEF Serial, NoneLost, RemovedNeverRuns
  <2>. QED  BY <2>4, <2>5, <2>6, <2>7, <2>8 DEF Serial
<1>11. ASSUME NEW t \in Threads, DequeueHead(t)
       PROVE  Serial'
  <2>1. InWindow(t) /\ pc[t] \in {"dequeue", "drop"}
    BY <1>11 DEF DequeueHead, InWindow
  <2>2. queue # <<>> /\ Head(queue) = held[t]
    BY <1>02, <2>1
  <2>3. /\ UNCHANGED <<sub, job, held, dropped, removed>>
        /\ gone' = gone \cup {held[t]}
        /\ pc'[t] \in {"next", "done"}
        /\ \A u \in Threads \ {t} : pc'[u] = pc[u]
    BY <1>11, <2>2 DEF DequeueHead, AfterDequeue, TypeInv, TypeOK
  <2>4. \A u \in Threads : ~InWindow(u)'
    BY <1>00, <2>1, <2>3 DEF Serial, Alone, InWindow
  <2>5. StartedJobs' = StartedJobs
    BY <2>1, <2>3 DEF StartedJobs, Threads
  <2>6. Alone' /\ HeadHeld'
    BY <2>4 DEF Alone, HeadHeld
  <2>7. StartedFrom'
    <3>. SUFFICES ASSUME NEW h \in Execs, pc'[h] # "unborn"
                  PROVE  sub[job[h]] = "scheduled" \/ job[h] \in gone'
      BY <2>3 DEF StartedFrom
    <3>1. pc[h] # "unborn"
      BY <2>1, <2>3 DEF Threads
    <3>2. \A u \in Threads : pc[u] = "dequeue" => u = t
      BY <1>00, <2>1 DEF Serial, Alone, InWindow
    <3>. QED  BY <1>00, <2>3, <3>1, <3>2 DEF Serial, StartedFrom
  <2>8. Decided'
    BY <2>4 DEF Decided, InWindow
  <2>9. AtMostOnce'
    BY <1>00, <2>1, <2>3 DEF Serial, AtMostOnce, Threads
  <2>10. NoneLost'
    <3>1. held[t] \in StartedJobs \cup dropped
      BY <1>00, <2>1 DEF Serial, Decided
    <3>. QED  BY <1>00, <2>3, <2>5, <3>1 DEF Serial, NoneLost
  <2>11. RemovedNeverRuns'
    BY <1>00, <2>3, <2>5 DEF Serial, RemovedNeverRuns
  <2>. QED  BY <2>6, <2>7, <2>8, <2>9, <2>10, <2>11 DEF Serial
<1>12. CASE UNCHANGED vars
  BY <1>0, <1>00, <1>12 DEF vars, TypeInv, TypeOK
<1>. QED
  BY <1>1, <1>2, <1>3, <1>4, <1>5, <1>6, <1>7, <1>8, <1>9, <1>10, <1>11, <1>12
     DEF Next, EnqueueJob, TryScheduleNext

\* The invariant holds in every state.
LEMMA Inductive == Spec => []IInv
<1>1. Init => IInv
  BY TypeInit, QueuedOnceInit, SerialInit DEF IInv
<1>2. IInv /\ [Next]_vars => IInv'
  BY TypeStep, QueuedOnceStep, SerialStep DEF IInv, TypeInv
<1>. QED  BY <1>1, <1>2, PTL DEF Spec

----------------------------------------------------------------------------
\* From Peek to Dequeue the head is the job that was peeked at, while no two
\* goroutines were in TryScheduleNext together.
THEOREM HeadHeldCorrect == Spec => []HeadHeldUnlessRaced
<1>1. IInv => HeadHeldUnlessRaced
  BY DEF IInv, Serial, HeadHeld, HeadHeldUnlessRaced
<1>. QED  BY <1>1, Inductive, PTL

\* Under the same condition scheduleJob starts no job twice.
THEOREM AtMostOnceCorrect == Spec => []AtMostOnceUnlessRaced
<1>1. IInv => AtMostOnceUnlessRaced
  BY DEF IInv, Serial, AtMostOnce, AtMostOnceUnlessRaced
<1>. QED  BY <1>1, Inductive, PTL

\* Under the same condition Dequeue loses no job.
THEOREM NoneLostCorrect == Spec => []NoneLostUnlessRaced
<1>1. IInv => NoneLostUnlessRaced
  BY DEF IInv, Serial, NoneLost, NoneLostUnlessRaced
<1>. QED  BY <1>1, Inductive, PTL

\* Under the same condition a job that RemoveQueuedJob took out never runs.
THEOREM RemovedNeverRunsCorrect == Spec => []RemovedNeverRunsUnlessRaced
<1>1. IInv => RemovedNeverRunsUnlessRaced
  BY DEF IInv, Serial, RemovedNeverRuns, RemovedNeverRunsUnlessRaced
<1>. QED  BY <1>1, Inductive, PTL

----------------------------------------------------------------------------
(***************************************************************************)
(* The scheduler implements Dispatch for any number of jobs and goroutines *)
(* and any answers of the heuristic, up to the step in which two           *)
(* goroutines first meet in TryScheduleNext.                               *)
(***************************************************************************)

\* A job that was given up is still held by the goroutine that gave it up, or
\* has left the queue: it cannot be retried.
DroppedHeld ==
  \A j \in dropped :
    /\ sub[j] = "queued"
    /\ j \in gone \/ \E t \in Threads : pc[t] = "drop" /\ held[t] = j

\* What a step that no race has touched starts from.
Calm == TypeInv /\ QueuedOnce /\ Serial /\ DroppedHeld

----------------------------------------------------------------------------
\* Sequences.

\* Taking out a job behind the head, and then the head, is the same as taking
\* out the head first.
LEMMA TailOfRemoveAt ==
  ASSUME NEW S, NEW s \in Seq(S), NEW i \in 1..Len(s), i > 1
  PROVE  /\ i - 1 \in 1..Len(Tail(s))
         /\ Tail(s)[i - 1] = s[i]
         /\ Tail(RemoveAt(s, i)) = RemoveAt(Tail(s), i - 1)
<1>. DEFINE r == RemoveAt(s, i)
            t == Tail(s)
<1>1. Len(s) \in Nat /\ s # <<>>
  BY LenProperties, EmptySeq
<1>2. /\ r \in Seq(S) /\ Len(r) = Len(s) - 1
      /\ \A k \in 1..(Len(s) - 1) : r[k] = IF k < i THEN s[k] ELSE s[k + 1]
  BY RemoveAtIndices
<1>3. /\ t \in Seq(S) /\ Len(t) = Len(s) - 1
      /\ \A k \in 1..Len(t) : t[k] = s[k + 1]
  BY <1>1, HeadTailProperties
<1>. HIDE DEF r, t
<1>4. i - 1 \in 1..Len(t) /\ t[i - 1] = s[i]
  BY <1>1, <1>3
<1>5. /\ Tail(r) \in Seq(S) /\ Len(Tail(r)) = Len(s) - 2
      /\ \A k \in 1..Len(Tail(r)) : Tail(r)[k] = r[k + 1]
  <2>1. r # <<>>
    BY <1>1, <1>2, EmptySeq
  <2>. QED  BY <1>1, <1>2, <2>1, HeadTailProperties
<1>6. /\ RemoveAt(t, i - 1) \in Seq(S) /\ Len(RemoveAt(t, i - 1)) = Len(s) - 2
      /\ \A k \in 1..(Len(t) - 1) :
            RemoveAt(t, i - 1)[k] = IF k < i - 1 THEN t[k] ELSE t[k + 1]
  <2>. DEFINE k == i - 1
  <2>. HIDE DEF k
  <2>1. k \in 1..Len(t)
    BY <1>4 DEF k
  <2>2. /\ RemoveAt(t, k) \in Seq(S) /\ Len(RemoveAt(t, k)) = Len(t) - 1
        /\ \A l \in 1..(Len(t) - 1) :
              RemoveAt(t, k)[l] = IF l < k THEN t[l] ELSE t[l + 1]
    BY <1>3, <2>1, RemoveAtIndices
  <2>. QED  BY <1>1, <1>3, <2>2 DEF k
<1>7. ASSUME NEW k \in 1..(Len(s) - 2)
      PROVE  Tail(r)[k] = RemoveAt(t, i - 1)[k]
  BY <1>1, <1>2, <1>3, <1>5, <1>6
<1>8. Tail(r) = RemoveAt(t, i - 1)
  BY <1>5, <1>6, <1>7, SeqEqual
<1>. QED  BY <1>4, <1>8 DEF r, t

\* What is appended to a line that is not empty is appended behind its head.
LEMMA TailOfAppend ==
  ASSUME NEW S, NEW s \in Seq(S), NEW e \in S, s # <<>>
  PROVE  Tail(Append(s, e)) = Append(Tail(s), e)
BY HeadTailAppend

----------------------------------------------------------------------------
\* The steps.

\* One job moves and the others stay where they are.
LEMMA Moves ==
  ASSUME NEW j \in Jobs, NEW to, PlaceOf(j)' = to,
         \A i \in Jobs \ {j} : PlaceOf(i)' = PlaceOf(i)
  PROVE  D!Move(j, PlaceOf(j), to)
BY DEF D!Move

\* Nothing is given up before the first step.
LEMMA DroppedInit == Init => DroppedHeld
BY DEF Init, DroppedHeld

\* The job between Peek and Dequeue is the head of the queue.
LEMMA HeldIsQueued ==
  ASSUME Calm, NEW t \in Threads, InWindow(t)
  PROVE  /\ queue # <<>> /\ held[t] = Head(queue) /\ held[t] \in Jobs
         /\ held[t] \in ToSet(queue) /\ sub[held[t]] = "queued"
         /\ held[t] \notin gone \cup removed
         /\ \A u \in Threads : InWindow(u) => u = t
<1>1. queue # <<>> /\ held[t] = Head(queue) /\ held[t] \in Jobs
  BY DEF Calm, Serial, HeadHeld, TypeInv, HoldsAJob
<1>2. queue \in Seq(Jobs) /\ Distinct(queue)
  BY DEF Calm, TypeInv, TypeOK, QueuedOnce, Distinct
<1>3. held[t] \in ToSet(queue)
  BY <1>1, <1>2, TailDistinct
<1>. QED  BY <1>1, <1>3 DEF Calm, QueuedOnce, Serial, Alone

\* Nobody holds the job, so it is waiting.
LEMMA WaitsInLine ==
  ASSUME Calm, NEW j \in Jobs, j \in ToSet(queue),
         \A t \in Threads : ~ (pc[t] \in {"dequeue", "drop"} /\ held[t] = j)
  PROVE  PlaceOf(j) = "waiting"
<1>1. sub[j] = "queued" /\ j \notin gone \cup removed
  BY DEF Calm, QueuedOnce
<1>2. j \notin StartedJobs
  BY NotStartedYet DEF Calm
<1>3. j \notin dropped
  BY <1>1 DEF Calm, DroppedHeld
<1>. QED  BY <1>1, <1>2, <1>3 DEF PlaceOf

\* A job that EnqueueJob has not decided on is new.
LEMMA UndecidedIsNew ==
  ASSUME Calm, NEW j \in Jobs, sub[j] \in {"new", "enqueuing"}
  PROVE  PlaceOf(j) = "new" /\ j \notin StartedJobs \cup dropped \cup removed
<1>1. j \notin StartedJobs
  BY NotStartedYet DEF Calm
<1>2. j \notin dropped \cup removed
  BY DEF Calm, DroppedHeld, QueuedOnce
<1>. QED  BY <1>1, <1>2 DEF PlaceOf

\* Steps that Dispatch does not see.
LEMMA Unseen ==
  ASSUME Calm, UNCHANGED <<queue, sub, job, dropped, removed>>,
         pc' \in [Threads -> ExecState],
         \A g \in Execs : pc'[g] = "unborn" <=> pc[g] = "unborn",
         \A t \in Threads : pc'[t] \in {"dequeue", "drop"} <=> pc[t] \in {"dequeue", "drop"}
  PROVE  UNCHANGED D!dispatch
<1>1. StartedJobs' = StartedJobs
  BY DEF StartedJobs
<1>2. \A j \in Jobs : PlaceOf(j)' = PlaceOf(j)
  BY <1>1 DEF PlaceOf
<1>3. Line' = Line
  BY DEF Line
<1>. QED  BY <1>2, <1>3 DEF D!dispatch

\* EnqueueJob: a job is started, refused, or joins the line.
LEMMA EnqueueRefines ==
  ASSUME Calm, Calm', NEW j \in Jobs, EnqueueJob(j)
  PROVE  D!Next \/ UNCHANGED D!dispatch
<1>1. CASE EnqueueStart(j)
  <2>1. PICK g \in Execs : /\ pc[g] = "unborn" /\ job' = [job EXCEPT ![g] = j]
                           /\ \E a \in {"runtime", "nil"} : pc' = [pc EXCEPT ![g] = Started[a]]
    BY <1>1 DEF EnqueueStart
  <2>2. /\ sub[j] = "new" /\ sub' = [sub EXCEPT ![j] = "scheduled"]
        /\ UNCHANGED <<queue, dropped, removed>>
    BY <1>1 DEF EnqueueStart
  <2>3. /\ pc'[g] \in {"running", "nilRuntime"} /\ job'[g] = j
        /\ \A t \in Threads \ {g} : pc'[t] = pc[t]
        /\ \A h \in Execs \ {g} : job'[h] = job[h]
    BY <2>1 DEF Started, Calm, TypeInv, TypeOK, Threads
  <2>4. StartedJobs' = StartedJobs \cup {j}
    BY <2>1, <2>3 DEF StartedJobs, Threads
  <2>5. PlaceOf(j) = "new" /\ PlaceOf(j)' = "started"
    BY <2>2, <2>4, UndecidedIsNew DEF PlaceOf
  <2>6. \A i \in Jobs \ {j} : PlaceOf(i)' = PlaceOf(i)
    BY <2>2, <2>4 DEF PlaceOf, Calm, TypeInv, TypeOK
  <2>7. Line' = Line
    BY <2>1, <2>2, <2>3 DEF Line, Threads
  <2>. QED  BY <2>5, <2>6, <2>7, Moves DEF D!Next, D!StartNow
<1>2. CASE EnqueueBusy(j)
  <2>1. /\ sub[j] = "new" /\ sub' = [sub EXCEPT ![j] = "enqueuing"]
        /\ UNCHANGED <<queue, pc, job, dropped, removed>>
    BY <1>2 DEF EnqueueBusy
  <2>2. StartedJobs' = StartedJobs /\ Line' = Line
    BY <2>1 DEF StartedJobs, Line
  <2>3. \A i \in Jobs : PlaceOf(i)' = PlaceOf(i)
    BY <2>1, <2>2 DEF PlaceOf, Calm, TypeInv, TypeOK
  <2>. QED  BY <2>2, <2>3 DEF D!dispatch
<1>3. CASE EnqueueReject(j)
  <2>1. /\ sub[j] = "new" /\ sub' = [sub EXCEPT ![j] = "rejected"]
        /\ UNCHANGED <<queue, pc, job, dropped, removed>>
    BY <1>3 DEF EnqueueReject
  <2>2. StartedJobs' = StartedJobs /\ Line' = Line
    BY <2>1 DEF StartedJobs, Line
  <2>3. PlaceOf(j) = "new" /\ PlaceOf(j)' = "refused"
    BY <2>1, <2>2, UndecidedIsNew DEF PlaceOf, Calm, TypeInv, TypeOK
  <2>4. \A i \in Jobs \ {j} : PlaceOf(i)' = PlaceOf(i)
    BY <2>1, <2>2 DEF PlaceOf, Calm, TypeInv, TypeOK
  <2>. QED  BY <2>2, <2>3, <2>4, Moves DEF D!Next, D!Refuse
<1>4. CASE EnqueueAppend(j)
  <2>1. /\ sub[j] = "enqueuing" /\ sub' = [sub EXCEPT ![j] = "queued"]
        /\ queue' = Append(queue, j) /\ UNCHANGED <<pc, job, held, dropped, removed>>
    BY <1>4 DEF EnqueueAppend
  <2>2. StartedJobs' = StartedJobs
    BY <2>1 DEF StartedJobs
  <2>3. PlaceOf(j) = "new" /\ PlaceOf(j)' = "waiting"
    BY <2>1, <2>2, UndecidedIsNew DEF PlaceOf, Calm, TypeInv, TypeOK
  <2>4. \A i \in Jobs \ {j} : PlaceOf(i)' = PlaceOf(i)
    BY <2>1, <2>2 DEF PlaceOf, Calm, TypeInv, TypeOK
  <2>5. Line' = Append(Line, j)
    <3>1. CASE \E t \in Threads : pc[t] \in {"dequeue", "drop"}
      <4>1. queue # <<>> /\ queue \in Seq(Jobs)
        BY <3>1, HeldIsQueued DEF InWindow, Calm, TypeInv, TypeOK
      <4>. QED  BY <2>1, <3>1, <4>1, TailOfAppend DEF Line
    <3>2. CASE ~ \E t \in Threads : pc[t] \in {"dequeue", "drop"}
      BY <2>1, <3>2 DEF Line
    <3>. QED  BY <3>1, <3>2
  <2>. QED  BY <2>3, <2>4, <2>5, Moves DEF D!Next, D!Wait
<1>. QED  BY <1>1, <1>2, <1>3, <1>4 DEF EnqueueJob

\* A retry that decides moves the head, and the line goes on at once.
LEMMA DecisionRefines ==
  ASSUME Calm, NEW t \in Threads, RetryStart(t) \/ RetryRefused(t)
  PROVE  D!Next
<1>0. held[t] \in Jobs /\ pc[t] = "peeked"
  BY HeldIsQueued DEF RetryStart, RetryRefused, InWindow
<1>. SUFFICES ASSUME NEW j \in Jobs, j = held[t]
              PROVE  D!Next
  BY <1>0
<1>1. pc[t] = "peeked" /\ UNCHANGED <<queue, sub, held, removed>>
  BY DEF RetryStart, RetryRefused
<1>2. /\ queue # <<>> /\ j = Head(queue) /\ j \in Jobs /\ j \in ToSet(queue)
      /\ \A u \in Threads : InWindow(u) => u = t
  BY <1>1, HeldIsQueued DEF InWindow
<1>3. \A u \in Threads : pc[u] \notin {"dequeue", "drop"}
  BY <1>1, <1>2 DEF InWindow
<1>4. PlaceOf(j) = "waiting"
  BY <1>2, <1>3, WaitsInLine
<1>5. Line = queue
  BY <1>3 DEF Line
<1>6. j \notin StartedJobs \cup dropped \cup removed /\ sub[j] # "rejected"
  BY <1>4 DEF PlaceOf
<1>7. CASE RetryStart(t)
  <2>1. PICK g \in Execs :
          /\ pc[g] = "unborn" /\ job' = [job EXCEPT ![g] = j]
          /\ \E a \in {"runtime", "nil"} : pc' = [pc EXCEPT ![g] = Started[a], ![t] = "dequeue"]
    BY <1>7 DEF RetryStart
  <2>2. /\ t # g /\ pc'[t] = "dequeue" /\ pc'[g] \in {"running", "nilRuntime"} /\ job'[g] = j
        /\ \A u \in Threads \ {g, t} : pc'[u] = pc[u]
        /\ \A h \in Execs \ {g} : job'[h] = job[h]
        /\ dropped' = dropped
    BY <1>1, <1>7, <2>1 DEF RetryStart, Started, Calm, TypeInv, TypeOK, Threads
  <2>3. StartedJobs' = StartedJobs \cup {j}
    <3>1. \A h \in Execs \ {g} : pc'[h] # "unborn" <=> pc[h] # "unborn"
      BY <1>1, <2>2 DEF Threads
    <3>2. pc'[g] # "unborn" /\ pc[g] = "unborn"
      BY <2>1, <2>2
    <3>. QED  BY <2>2, <3>1, <3>2 DEF StartedJobs
  <2>4. PlaceOf(j)' = "started" /\ \A i \in Jobs \ {j} : PlaceOf(i)' = PlaceOf(i)
    BY <1>1, <2>2, <2>3 DEF PlaceOf
  <2>5. Line' = Tail(Line)
    BY <1>1, <1>5, <2>2 DEF Line
  <2>6. D!Move(j, "waiting", "started")
    BY <1>4, <2>4, Moves
  <2>. QED  BY <1>2, <1>5, <2>5, <2>6 DEF D!Next, D!StartNext, D!IsFirst
<1>8. CASE RetryRefused(t)
  <2>1. /\ pc' = [pc EXCEPT ![t] = "drop"] /\ dropped' = dropped \cup {j} /\ job' = job
    BY <1>8 DEF RetryRefused
  <2>2. pc'[t] = "drop" /\ \A u \in Threads \ {t} : pc'[u] = pc[u]
    BY <2>1 DEF Calm, TypeInv, TypeOK
  <2>3. StartedJobs' = StartedJobs
    BY <1>1, <2>1, <2>2 DEF StartedJobs, Threads
  <2>4. PlaceOf(j)' = "refused" /\ \A i \in Jobs \ {j} : PlaceOf(i)' = PlaceOf(i)
    BY <1>1, <1>6, <2>1, <2>3 DEF PlaceOf
  <2>5. Line' = Tail(Line)
    BY <1>1, <1>5, <2>2 DEF Line
  <2>6. D!Move(j, "waiting", "refused")
    BY <1>4, <2>4, Moves
  <2>. QED  BY <1>2, <1>5, <2>5, <2>6 DEF D!Next, D!GiveUp, D!IsFirst
<1>. QED  BY <1>7, <1>8

\* The Dequeue that follows takes away what the line has lost already.
LEMMA DequeueRefines ==
  ASSUME Calm, NEW t \in Threads, DequeueHead(t)
  PROVE  UNCHANGED D!dispatch
<1>1. pc[t] \in {"dequeue", "drop"} /\ UNCHANGED <<sub, job, held, dropped, removed>>
  BY DEF DequeueHead
<1>2. queue # <<>> /\ \A u \in Threads : InWindow(u) => u = t
  BY <1>1, HeldIsQueued DEF InWindow
<1>3. /\ queue' = Tail(queue) /\ pc'[t] \in {"next", "done"}
      /\ \A u \in Threads \ {t} : pc'[u] = pc[u]
  BY <1>2 DEF DequeueHead, AfterDequeue, Calm, TypeInv, TypeOK
<1>4. StartedJobs' = StartedJobs
  BY <1>1, <1>3 DEF StartedJobs, Threads
<1>5. \A j \in Jobs : PlaceOf(j)' = PlaceOf(j)
  BY <1>1, <1>4 DEF PlaceOf
<1>6. Line' = Line
  BY <1>1, <1>2, <1>3 DEF Line, InWindow
<1>. QED  BY <1>5, <1>6 DEF D!dispatch

\* A job that nobody has peeked at is withdrawn, behind a head that may be gone
\* from the line already.
LEMMA RemoveRefines ==
  ASSUME Calm, ~ raced', NEW j \in Jobs, RemoveQueuedJob(j)
  PROVE  D!Next
<1>1. /\ UNCHANGED <<sub, pc, job, held, dropped>> /\ removed' = removed \cup {j}
      /\ \A t \in Threads : ~ (InWindow(t) /\ held[t] = j)
  BY DEF RemoveQueuedJob
<1>2. PICK i \in 1..Len(queue) : queue[i] = j /\ queue' = RemoveAt(queue, i)
  BY DEF RemoveQueuedJob
<1>3. queue \in Seq(Jobs) /\ Distinct(queue) /\ j \in ToSet(queue)
  BY <1>2, RemoveAtDistinct DEF Calm, TypeInv, TypeOK, QueuedOnce, Distinct
<1>4. PlaceOf(j) = "waiting"
  BY <1>1, <1>3, WaitsInLine DEF InWindow
<1>5. StartedJobs' = StartedJobs
  BY <1>1 DEF StartedJobs
<1>6. PlaceOf(j)' = "removed" /\ \A k \in Jobs \ {j} : PlaceOf(k)' = PlaceOf(k)
  BY <1>1, <1>4, <1>5 DEF PlaceOf
<1>7. \E k \in 1..Len(Line) : Line[k] = j /\ Line' = RemoveAt(Line, k)
  <2>1. CASE \E t \in Threads : pc[t] \in {"dequeue", "drop"}
    <3>1. Head(queue) # j
      BY <1>1, <2>1, HeldIsQueued DEF InWindow
    <3>2. i > 1
      BY <1>2, <1>3, <3>1
    <3>3. Line = Tail(queue) /\ Line' = Tail(queue')
      BY <1>1, <2>1 DEF Line
    <3>. QED  BY <1>2, <1>3, <3>2, <3>3, TailOfRemoveAt
  <2>2. CASE ~ \E t \in Threads : pc[t] \in {"dequeue", "drop"}
    BY <1>1, <1>2, <2>2 DEF Line
  <2>. QED  BY <2>1, <2>2
<1>8. D!Move(j, "waiting", "removed")
  BY <1>4, <1>6, Moves
<1>9. D!Withdraw(j)
  BY <1>7, <1>8 DEF D!Withdraw, D!RemoveAt, RemoveAt
<1>. QED  BY <1>9 DEF D!Next

\* The rest of the goroutines' steps.
LEMMA OthersRefine ==
  ASSUME Calm,
         \/ \E g \in Execs : Complete(g) \/ Hang(g) \/ Panic(g)
         \/ \E c \in Callers : OnJobCompletion(c)
         \/ \E t \in Threads : PeekEmpty(t) \/ PeekHead(t) \/ RetryBusy(t)
         \/ UNCHANGED vars
  PROVE  UNCHANGED D!dispatch
<1>1. /\ UNCHANGED <<queue, sub, job, dropped, removed>>
      /\ pc' \in [Threads -> ExecState]
      /\ \A g \in Execs : pc'[g] = "unborn" <=> pc[g] = "unborn"
      /\ \A t \in Threads : pc'[t] \in {"dequeue", "drop"} <=> pc[t] \in {"dequeue", "drop"}
  BY DEF Complete, Hang, Panic, OnJobCompletion, PeekEmpty, PeekHead, RetryBusy, vars,
         Calm, TypeInv, TypeOK, ExecState, Threads
<1>. QED  BY <1>1, Unseen

----------------------------------------------------------------------------
\* A job that is given up stays so: its goroutine dequeues it, and no other.
LEMMA DroppedStep ==
  ASSUME Calm, [Next]_vars
  PROVE  DroppedHeld'
<1>1. ASSUME dropped' = dropped, gone \subseteq gone', held' = held,
             \A j \in Jobs : sub[j] = "queued" => sub'[j] = "queued",
             \A t \in Threads : pc[t] = "drop" => pc'[t] = "drop"
      PROVE  DroppedHeld'
  BY <1>1 DEF DroppedHeld, Calm, TypeInv, TypeOK
<1>2. ASSUME NEW j \in Jobs, EnqueueJob(j) \/ RemoveQueuedJob(j)
      PROVE  DroppedHeld'
  BY <1>1, <1>2 DEF EnqueueJob, EnqueueStart, EnqueueBusy, EnqueueReject, EnqueueAppend,
         RemoveQueuedJob, Started, Calm, TypeInv, TypeOK, Threads
<1>3. ASSUME NEW g \in Execs, Complete(g) \/ Hang(g) \/ Panic(g)
      PROVE  DroppedHeld'
  BY <1>1, <1>3 DEF Complete, Hang, Panic, Calm, TypeInv, TypeOK, Threads
<1>4. ASSUME NEW c \in Callers, OnJobCompletion(c)
      PROVE  DroppedHeld'
  BY <1>1, <1>4 DEF OnJobCompletion, Calm, TypeInv, TypeOK, Threads
<1>5. ASSUME NEW t \in Threads, PeekEmpty(t) \/ RetryBusy(t) \/ RetryStart(t)
      PROVE  DroppedHeld'
  BY <1>1, <1>5 DEF PeekEmpty, RetryBusy, RetryStart, Calm, TypeInv, TypeOK, Threads
<1>6. ASSUME NEW t \in Threads, PeekHead(t)
      PROVE  DroppedHeld'
  BY <1>6 DEF PeekHead, Calm, DroppedHeld, TypeInv, TypeOK
<1>7. ASSUME NEW t \in Threads, RetryRefused(t)
      PROVE  DroppedHeld'
  <2>1. sub[held[t]] = "queued" /\ pc[t] = "peeked"
    BY <1>7, HeldIsQueued DEF RetryRefused, InWindow
  <2>. QED  BY <1>7, <2>1 DEF RetryRefused, Calm, DroppedHeld, TypeInv, TypeOK
<1>8. ASSUME NEW t \in Threads, DequeueHead(t)
      PROVE  DroppedHeld'
  <2>1. /\ queue # <<>> /\ held[t] = Head(queue)
        /\ \A u \in Threads : pc[u] = "drop" => u = t
    BY <1>8, HeldIsQueued DEF DequeueHead, InWindow
  <2>. QED  BY <1>8, <2>1 DEF DequeueHead, Calm, DroppedHeld
<1>9. CASE UNCHANGED vars
  BY <1>1, <1>9 DEF vars
<1>. QED
  BY <1>2, <1>3, <1>4, <1>5, <1>6, <1>7, <1>8, <1>9 DEF Next, TryScheduleNext

\* What the proof of the refinement starts each step from.
RefInv == IInv /\ (~ raced => DroppedHeld)

\* A race is never forgotten.
LEMMA RacedStays == TypeInv /\ [Next]_vars /\ ~ raced' => ~ raced
BY DEF Next, EnqueueJob, TryScheduleNext, EnqueueStart, EnqueueBusy, EnqueueReject,
       EnqueueAppend, RemoveQueuedJob, Complete, Hang, Panic, OnJobCompletion, PeekEmpty,
       PeekHead, RetryStart, RetryBusy, RetryRefused, DequeueHead, vars, TypeInv, TypeOK

\* Every step leaves what the next step of the refinement starts from.
LEMMA RefInvStep == RefInv /\ [Next]_vars => RefInv'
<1>. SUFFICES ASSUME RefInv, [Next]_vars
              PROVE  RefInv'
  OBVIOUS
<1>1. IInv'
  BY TypeStep, QueuedOnceStep, SerialStep DEF RefInv, IInv, TypeInv
<1>2. ~ raced' => Calm
  BY RacedStays DEF RefInv, IInv, Calm
<1>. QED  BY <1>1, <1>2, DroppedStep DEF RefInv

\* A step without a race is a step of Dispatch, or one that it does not see.
LEMMA StepRefines ==
  ASSUME RefInv, [Next]_vars, ~ raced'
  PROVE  D!Next \/ UNCHANGED D!dispatch
<1>1. Calm
  BY RacedStays DEF RefInv, IInv, Calm
<1>2. Calm'
  BY RefInvStep DEF RefInv, IInv, Calm
<1>3. ASSUME NEW j \in Jobs, EnqueueJob(j) \/ RemoveQueuedJob(j)
      PROVE  D!Next \/ UNCHANGED D!dispatch
  BY <1>1, <1>2, <1>3, EnqueueRefines, RemoveRefines
<1>4. ASSUME NEW t \in Threads, RetryStart(t) \/ RetryRefused(t) \/ DequeueHead(t)
      PROVE  D!Next \/ UNCHANGED D!dispatch
  BY <1>1, <1>4, DecisionRefines, DequeueRefines
<1>. QED  BY <1>1, <1>3, <1>4, OthersRefine DEF Next, TryScheduleNext

\* The empty queue is the empty line.
LEMMA InitRefines == Init => D!Init
<1>. SUFFICES ASSUME Init
              PROVE  D!Init
  OBVIOUS
<1>1. StartedJobs = {} /\ Line = <<>>
  BY DEF Init, StartedJobs, Line, Threads
<1>2. \A j \in Jobs : PlaceOf(j) = "new"
  BY <1>1 DEF Init, PlaceOf
<1>. QED  BY <1>1, <1>2 DEF D!Init

\* Until two goroutines overlap in TryScheduleNext, every step of the scheduler
\* is a step of the atomic queue, or one that the queue does not see.
THEOREM SchedulerImplementsDispatch == Spec => ImplementsUnlessRaced
<1>1. Init => D!Init /\ RefInv
  BY InitRefines, DroppedInit, TypeInit, QueuedOnceInit, SerialInit DEF RefInv, IInv
<1>2. RefInv /\ [Next]_vars => RefInv'
  BY RefInvStep
<1>3. RefInv /\ [Next]_vars => raced' \/ D!Next \/ UNCHANGED D!dispatch
  BY StepRefines
<1>. QED  BY <1>1, <1>2, <1>3, PTL DEF Spec, ImplementsUnlessRaced
=============================================================================
