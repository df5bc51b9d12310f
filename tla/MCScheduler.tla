---------------------------- MODULE MCScheduler ----------------------------
\* Model checking of Scheduler: the goroutines are interchangeable, and so
\* are the jobs, in the runs that check no liveness.
EXTENDS Scheduler

Symmetry == Permutations(Jobs) \cup Permutations(Execs)
=============================================================================
