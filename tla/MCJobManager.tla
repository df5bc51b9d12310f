---------------------------- MODULE MCJobManager ----------------------------
\* Model checking of JobManager: the submitters of one job id, of which one
\* wins, with an observer and a canceller.
EXTENDS JobManager
=============================================================================
