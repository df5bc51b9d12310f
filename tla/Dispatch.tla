------------------------------ MODULE Dispatch ------------------------------
(***************************************************************************)
(* What the scheduler promises of each job, with its queue as one atomic   *)
(* object: a job is started at once, or waits in line until it is its turn *)
(* and it is started, given up or withdrawn; it is started at most once.   *)
(***************************************************************************)
EXTENDS SequencesExt

CONSTANT Jobs

VARIABLES place,  \* what has become of each job
          line    \* the waiting jobs, first come first

dispatch == <<place, line>>

Place == {"new", "waiting", "started", "refused", "removed"}

Init ==
  /\ place = [j \in Jobs |-> "new"]
  /\ line = <<>>

Move(j, from, to) ==
  /\ place[j] = from
  /\ place' = [place EXCEPT ![j] = to]

StartNow(j)  == Move(j, "new", "started") /\ UNCHANGED line
Refuse(j)    == Move(j, "new", "refused") /\ UNCHANGED line
Wait(j)      == Move(j, "new", "waiting") /\ line' = Append(line, j)

\* The turn of the first in line.
IsFirst(j)   == line # <<>> /\ j = Head(line)
StartNext(j) == IsFirst(j) /\ Move(j, "waiting", "started") /\ line' = Tail(line)
GiveUp(j)    == IsFirst(j) /\ Move(j, "waiting", "refused") /\ line' = Tail(line)

Withdraw(j) ==
  /\ Move(j, "waiting", "removed")
  /\ \E i \in 1..Len(line) : line[i] = j /\ line' = RemoveAt(line, i)

Next ==
  \E j \in Jobs : \/ StartNow(j) \/ Refuse(j) \/ Wait(j)
                  \/ StartNext(j) \/ GiveUp(j) \/ Withdraw(j)

Spec == Init /\ [][Next]_dispatch
=============================================================================
