---- MODULE MCDiscovery ----
EXTENDS Discovery, TLC

\* Daemons are interchangeable.
Symmetry == Permutations(Daemons)

\* A network that has been running for a while: all know each other, and
\* nobody was heard within the window.
Settled ==
    /\ up = [d \in Daemons |-> TRUE]
    /\ starts = [d \in Daemons |-> 1]
    /\ peers = [d \in Daemons |-> [p \in Daemons |->
                   IF p = d THEN NoEntry ELSE [start |-> 1, named |-> 1]]]
    /\ heard = [d \in Daemons |-> [p \in Daemons |-> "past"]]
    /\ announcer = [d \in Daemons |-> Waiting]
    /\ listener = [d \in Daemons |-> Reading]
    /\ net = {}
    /\ crashes = 0
    /\ lost = 0

SettledSpec == Settled /\ [][Next]_vars

\* The same, and one of them has just been started again, at once or after the
\* window: the others have its first start on record.
Restarted == CHOOSE d \in Daemons : TRUE
JustRestarted ==
    /\ up = [d \in Daemons |-> TRUE]
    /\ starts = [d \in Daemons |-> IF d = Restarted THEN 2 ELSE 1]
    /\ peers = [d \in Daemons |-> [p \in Daemons |->
                   IF d \in {p, Restarted} THEN NoEntry ELSE [start |-> 1, named |-> 1]]]
    /\ \E age \in {"recent", "past"} :
          heard = [d \in Daemons |-> [p \in Daemons |->
                      IF p = Restarted /\ d # p THEN age ELSE "past"]]
    /\ announcer = [d \in Daemons |-> IF d = Restarted THEN First ELSE Waiting]
    /\ listener = [d \in Daemons |-> Reading]
    /\ net = {}
    /\ crashes = 0
    /\ lost = 0

RestartedSpec == JustRestarted /\ [][Next]_vars /\ Fairness
====
