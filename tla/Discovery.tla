----------------------------- MODULE Discovery -----------------------------
(***************************************************************************)
(* Peer discovery: every daemon has a MulticastDiscoverer                  *)
(* (pkg/peers/discoverer.go) with two goroutines, the announcement loop    *)
(* and the listener loop, over one table of peers (pkg/peers/manager.go).  *)
(* A daemon that starts, or that has heard nothing for its interval, sends *)
(* a REQUEST with all it knows; a daemon that hears from a peer for the    *)
(* first time, or after more than the announcement window, answers with a  *)
(* RESPONSE. Every message goes to the whole multicast group.              *)
(*                                                                         *)
(* A message is multicast as one copy for each daemon that listens; copies *)
(* are delivered in any order or lost. The contents of a peer's entry are  *)
(* its runtimes, which a daemon detects once when it starts: they are      *)
(* named by the start they belong to. Time is abstract: the time since a   *)
(* peer was last heard passes the half and the whole of the window at any  *)
(* moment, and the network may be quiet for the interval at any moment.    *)
(***************************************************************************)
EXTENDS Naturals, FiniteSets

CONSTANTS
    Daemons,    \* daemon ids, "host:port": a daemon that restarts keeps its own
    MaxStarts,  \* bound: how often a daemon starts
    MaxCrashes, \* bound: how often daemons stop or crash
    MaxLost,    \* bound: how many copies of messages the network loses
    Aging,      \* bound: the daemons for which time passes
    MaxAnnouncing \* bound: how many daemons announce themselves at a time

ASSUME DaemonsFinite == IsFiniteSet(Daemons)
ASSUME StartsPositive == MaxStarts \in Nat \ {0}
ASSUME BoundsNat == MaxCrashes \in Nat /\ MaxLost \in Nat /\ MaxAnnouncing \in Nat \ {0}

VARIABLES
    up,        \* is the daemon running
    starts,    \* how often it was started
    peers,     \* Manager.peers: what daemon d has on record of p
    heard,     \* age of lastAnnouncementTime[p] at daemon d
    announcer, \* what the announcement loop is at
    listener,  \* what the listener loop is at
    net,       \* copies of messages on their way
    crashes,   \* how often a daemon stopped or crashed
    lost       \* how many copies were lost

vars == <<up, starts, peers, heard, announcer, listener, net, crashes, lost>>

\* The runtimes of a peer: those of its start-th start (0: none on record),
\* and how many PeerIds each of them carries.
Entry == [start : 0..MaxStarts, named : 0..2]
NoEntry == [start |-> 0, named |-> 0]

\* "recent": within half the window, so the peer is asked not to answer;
\* "window": within the window, so the peer is not answered;
\* "past": never heard, or before that.
Ages == {"recent", "window", "past"}

Request == [type : {"REQUEST"}, from : Daemons, own : Entry,
            ignore : SUBSET Daemons, known : [Daemons -> Entry]]
Response == [type : {"RESPONSE"}, from : Daemons, own : Entry,
             ignore : {{}}, known : [Daemons -> Entry]]
Message == Request \cup Response

\* The announcement loop before its first announcement, waiting for the network
\* to be quiet, or about to send; the listener loop waiting for a message, or
\* about to register what it has received.
First == [at |-> "first"]
Waiting == [at |-> "waiting"]
AnnouncerState == {First, Waiting} \cup [at : {"send"}, ignore : SUBSET Daemons]

Reading == [at |-> "reading"]
ListenerState == {Reading} \cup [at : {"register"}, msg : Message, respond : BOOLEAN]

\* An empty table, and the peers that daemon d has on record.
Nobody == [p \in Daemons |-> NoEntry]
KnownTo(d) == {p \in Daemons : peers[d][p].start # 0}

Init ==
    /\ up = [d \in Daemons |-> FALSE]
    /\ starts = [d \in Daemons |-> 0]
    /\ peers = [d \in Daemons |-> Nobody]
    /\ heard = [d \in Daemons |-> [p \in Daemons |-> "past"]]
    /\ announcer = [d \in Daemons |-> Waiting]
    /\ listener = [d \in Daemons |-> Reading]
    /\ net = {}
    /\ crashes = 0
    /\ lost = 0

----------------------------------------------------------------------------
(* The life of a daemon and of a message.                                  *)

\* NewDaemon and Start: an empty table; both goroutines run.
Start(d) ==
    /\ ~up[d]
    /\ starts[d] < MaxStarts
    /\ up' = [up EXCEPT ![d] = TRUE]
    /\ starts' = [starts EXCEPT ![d] = @ + 1]
    /\ announcer' = [announcer EXCEPT ![d] = First]
    /\ UNCHANGED <<peers, heard, listener, net, crashes, lost>>

\* Stop, or a crash: the sockets close, and all the state is in memory.
Crash(d) ==
    /\ up[d]
    /\ crashes < MaxCrashes
    /\ crashes' = crashes + 1
    /\ up' = [up EXCEPT ![d] = FALSE]
    /\ peers' = [peers EXCEPT ![d] = Nobody]
    /\ heard' = [heard EXCEPT ![d] = [p \in Daemons |-> "past"]]
    /\ announcer' = [announcer EXCEPT ![d] = Waiting]
    /\ listener' = [listener EXCEPT ![d] = Reading]
    /\ net' = {c \in net : c.to # d}
    /\ UNCHANGED <<starts, lost>>

\* UDP: a copy is lost.
Lose(c) ==
    /\ lost < MaxLost
    /\ net' = net \ {c}
    /\ lost' = lost + 1
    /\ UNCHANGED <<up, starts, peers, heard, announcer, listener, crashes>>

\* UDP multicast: a copy for every daemon that has joined the group. The
\* sender gets one too, which its listener skips.
Multicast(m) == {[to |-> d, msg |-> m] : d \in {e \in Daemons : up[e] /\ e # m.from}}

----------------------------------------------------------------------------
(* The announcement loop.                                                  *)

\* A packet arrives and is handled in much less time than the interval, so a
\* daemon whose network was quiet for the interval announces itself when
\* nothing is on its way any more.
NetworkQuiet == net = {} /\ \A d \in Daemons : listener[d] = Reading

\* Who is about to send a REQUEST, or has sent one that is still on its way.
Announcing ==
    {d \in Daemons : \/ announcer[d].at = "send"
                    \/ \E c \in net : c.msg.type = "REQUEST" /\ c.msg.from = d}

\* Fault: those heard longer ago than half the window are asked not to answer.
ReadRecent_NotRecent(d) ==
    /\ up[d]
    /\ announcer[d] = First \/ (announcer[d] = Waiting /\ NetworkQuiet)
    /\ Cardinality(Announcing) < MaxAnnouncing
    /\ announcer' = [announcer EXCEPT ![d] =
                        [at |-> "send", ignore |-> {p \in Daemons : heard[d][p] # "recent"}]]
    /\ UNCHANGED <<up, starts, peers, heard, listener, net, crashes, lost>>

\* sendAnnouncement, under the discoverer's lock: who was heard recently is
\* asked not to answer. The first announcement is sent at once.
ReadRecent(d) ==
    /\ up[d]
    /\ announcer[d] = First \/ (announcer[d] = Waiting /\ NetworkQuiet)
    /\ Cardinality(Announcing) < MaxAnnouncing
    /\ announcer' = [announcer EXCEPT ![d] =
                        [at |-> "send", ignore |-> {p \in Daemons : heard[d][p] = "recent"}]]
    /\ UNCHANGED <<up, starts, peers, heard, listener, net, crashes, lost>>

\* The rest of it: the table is read by then, and the message sent.
SendRequest(d) ==
    /\ announcer[d].at = "send"
    /\ net' = net \cup Multicast([type |-> "REQUEST", from |-> d,
                                  own |-> [start |-> starts[d], named |-> 0],
                                  ignore |-> announcer[d].ignore,
                                  known |-> peers[d]])
    /\ announcer' = [announcer EXCEPT ![d] = Waiting]
    /\ UNCHANGED <<up, starts, peers, heard, listener, crashes, lost>>

\* The time since d heard from p grows beyond half the window or the
\* whole of it: both are much longer than any exchange of packets.
Age(d, p) ==
    /\ d \in Aging
    /\ NetworkQuiet /\ Announcing = {}
    /\ heard[d][p] # "past"
    /\ heard' = [heard EXCEPT ![d][p] = IF @ = "recent" THEN "window" ELSE "past"]
    /\ UNCHANGED <<up, starts, peers, announcer, listener, net, crashes, lost>>

----------------------------------------------------------------------------
(* The listener loop: one message at a time.                               *)

\* handleAnnouncement, the part under the discoverer's lock.
Receive(c) ==
    LET d == c.to
        m == c.msg
    IN  /\ listener[d] = Reading
        /\ net' = net \ {c}
        /\ heard' = [heard EXCEPT ![d][m.from] = "recent"]
        /\ listener' = [listener EXCEPT ![d] =
                           [at |-> "register", msg |-> m,
                            respond |-> heard[d][m.from] = "past"]]
        /\ UNCHANGED <<up, starts, peers, announcer, crashes, lost>>

\* registerPeerFromAnnouncement: the sender's runtimes, with its id added to
\* the PeerIds of each.
RegisterSender(table, m) == [table EXCEPT ![m.from] = [m.own EXCEPT !.named = @ + 1]]

\* Fault: the owner is added to the PeerIds here too.
RegisterKnown_Named(table, d, m) ==
    [p \in Daemons |-> IF p # d /\ m.known[p] # NoEntry
                       THEN [m.known[p] EXCEPT !.named = @ + 1] ELSE table[p]]

\* Fault: d does not skip itself.
RegisterKnown_Self(table, d, m) ==
    [p \in Daemons |-> IF m.known[p] # NoEntry THEN m.known[p] ELSE table[p]]

\* The loop over the KnownPeers, which skips d itself and takes the runtimes
\* as they are; RegisterPeer replaces what is on record.
RegisterKnown(table, d, m) ==
    [p \in Daemons |-> IF p # d /\ m.known[p] # NoEntry THEN m.known[p] ELSE table[p]]

\* Is the message that d is handling one to answer?
ToAnswer(d) ==
    /\ listener[d] # Reading
    /\ listener[d].respond
    /\ listener[d].msg.type = "REQUEST"
    /\ d \notin listener[d].msg.ignore

\* sendAnnouncementResponses: all on record, but for the requester and those it
\* has heard from itself.
Answer(d, table, m) ==
    Multicast([type |-> "RESPONSE", from |-> d,
               own |-> [start |-> starts[d], named |-> 0],
               ignore |-> {},
               known |-> [p \in Daemons |->
                   IF p \in m.ignore \cup {m.from} THEN NoEntry ELSE table[p]]])

\* Fault: the sender of a RESPONSE is not registered.
Handle_RequestsOnly(d) ==
    /\ listener[d] # Reading
    /\ LET m == listener[d].msg
           sender == IF m.type = "REQUEST" THEN RegisterSender(peers[d], m) ELSE peers[d]
           table == RegisterKnown(sender, d, m)
       IN  /\ peers' = [peers EXCEPT ![d] = table]
           /\ net' = IF ToAnswer(d) THEN net \cup Answer(d, table, m) ELSE net
    /\ listener' = [listener EXCEPT ![d] = Reading]
    /\ UNCHANGED <<up, starts, heard, announcer, crashes, lost>>

\* Fault: within the window nothing is registered either.
Handle_PastOnly(d) ==
    /\ listener[d] # Reading
    /\ LET m == listener[d].msg
           table == IF listener[d].respond
                    THEN RegisterKnown(RegisterSender(peers[d], m), d, m)
                    ELSE peers[d]
       IN  /\ peers' = [peers EXCEPT ![d] = table]
           /\ net' = IF ToAnswer(d) THEN net \cup Answer(d, table, m) ELSE net
    /\ listener' = [listener EXCEPT ![d] = Reading]
    /\ UNCHANGED <<up, starts, heard, announcer, crashes, lost>>

\* Fault: a message that d is asked not to answer is not looked at.
Handle_NotIgnored(d) ==
    /\ listener[d] # Reading
    /\ LET m == listener[d].msg
           table == IF d \notin m.ignore
                    THEN RegisterKnown(RegisterSender(peers[d], m), d, m)
                    ELSE peers[d]
       IN  /\ peers' = [peers EXCEPT ![d] = table]
           /\ net' = IF ToAnswer(d) THEN net \cup Answer(d, table, m) ELSE net
    /\ listener' = [listener EXCEPT ![d] = Reading]
    /\ UNCHANGED <<up, starts, heard, announcer, crashes, lost>>

\* The rest of handleAnnouncement.
Handle(d) ==
    /\ listener[d] # Reading
    /\ LET m == listener[d].msg
           table == RegisterKnown(RegisterSender(peers[d], m), d, m)
       IN  /\ peers' = [peers EXCEPT ![d] = table]
           /\ net' = IF ToAnswer(d) THEN net \cup Answer(d, table, m) ELSE net
    /\ listener' = [listener EXCEPT ![d] = Reading]
    /\ UNCHANGED <<up, starts, heard, announcer, crashes, lost>>

Announce(d) == ReadRecent(d) \/ SendRequest(d)
Listen(d) == Handle(d) \/ \E c \in net : c.to = d /\ Receive(c)

Next ==
    \/ \E d \in Daemons : Start(d) \/ Crash(d) \/ Announce(d) \/ Listen(d)
    \/ \E d, p \in Daemons : Age(d, p)
    \/ \E c \in net : Lose(c)

Spec == Init /\ [][Next]_vars

\* Both goroutines of a running daemon go on, and what is not lost arrives;
\* every daemon's network is quiet for the interval again and again, because
\* each ticks once a second and the one that announced itself last waits the
\* longest (README.md).
Fairness == \A d \in Daemons : WF_vars(Listen(d)) /\ SF_vars(Announce(d))

LiveSpec == Spec /\ Fairness

----------------------------------------------------------------------------
(* Properties.                                                             *)

TypeOK ==
    /\ up \in [Daemons -> BOOLEAN]
    /\ starts \in [Daemons -> 0..MaxStarts]
    /\ peers \in [Daemons -> [Daemons -> Entry]]
    /\ heard \in [Daemons -> [Daemons -> Ages]]
    /\ announcer \in [Daemons -> AnnouncerState]
    /\ listener \in [Daemons -> ListenerState]
    /\ \A c \in net : c.to \in Daemons /\ c.msg \in Message
    /\ crashes \in 0..MaxCrashes /\ lost \in 0..MaxLost

\* Who d has on record, or is about to: the listener notes that it heard from a
\* peer (discoverer.go:368) before it registers it (371).
Registers(d) == KnownTo(d) \cup {p \in Daemons : listener[d] # Reading /\ listener[d].msg.from = p}

\* A table holds other daemons only, each with runtimes that it really
\* announced, however often they were passed on; and each of these names its
\* owner, once: PeerIds[0] is who a job for that runtime is sent to
\* (discoverer.go:565, simple_local_first.go:75).
RecordsAreGenuine ==
    \A d, p \in Daemons : p \in KnownTo(d) =>
        /\ p # d
        /\ peers[d][p].start <= starts[p]
        /\ peers[d][p].named = 1

\* An answer leaves out nobody whom the requester does not know: those it asked
\* to ignore it has on record itself, though they were read before its table
\* was, by another goroutine than the one that registers them
\* (discoverer.go:236, 243, 500).
AnswersLackNobody ==
    \A d \in Daemons : ToAnswer(d) =>
        LET m == listener[d].msg
        IN  up[m.from] /\ starts[m.from] = m.own.start
                => m.ignore \cap KnownTo(d) \subseteq Registers(m.from)

\* A peer whose announcements d does not answer, for it was heard within the
\* window, is a peer that d has on record (discoverer.go:365).
UnansweredIsKnown ==
    \A d, p \in Daemons : heard[d][p] # "past" => p \in Registers(d)

\* Whatever was lost and whoever was restarted, the daemons that run know each
\* other in the end (devlog.md:1114).
FindEachOther ==
    <>[](\A d, p \in Daemons : up[d] /\ up[p] /\ d # p => p \in KnownTo(d))

\* What d has on record of p is again and again what p is now, although the
\* copies of an earlier start that others pass on replace a newer one
\* (discoverer.go:401).
CurrentAgain ==
    \A d, p \in Daemons : d # p =>
        []<>(up[d] /\ up[p] => peers[d][p].start = starts[p])

=============================================================================
