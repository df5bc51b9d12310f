-------------------------- MODULE DiscoveryProofs --------------------------
(***************************************************************************)
(* What holds of peer discovery for any number of daemons and any bounds:  *)
(* TypeOK, RecordsAreGenuine, UnansweredIsKnown and AnswersLackNobody. The *)
(* inductive invariant says of every message, wherever it is, what the     *)
(* properties say of the tables: its entries are genuine, and its sender   *)
(* has on record (or is about to) those it asks not to answer. The latter  *)
(* holds as long as the sender's start is the one that sent the message,   *)
(* for until it stops a daemon never forgets a peer.                       *)
(***************************************************************************)
EXTENDS Discovery, TLAPS

\* What may be on record of p: nothing, or the runtimes of a start it had.
Genuine(e, p) == e = NoEntry \/ (e.start \in 1..starts[p] /\ e.named = 1)

\* What is announced of the sender itself and of the peers it knows.
GenuineMessage(m) ==
    /\ m.own.start \in 1..starts[m.from]
    /\ m.own.named = 0
    /\ \A p \in Daemons : Genuine(m.known[p], p)

\* Those that m asks not to answer are registered with its sender.
KnowsIgnored(m) ==
    up[m.from] /\ starts[m.from] = m.own.start => m.ignore \subseteq Registers(m.from)

GoodMessage(m) == GenuineMessage(m) /\ KnowsIgnored(m)

TablesGood ==
    \A d \in Daemons : /\ peers[d][d] = NoEntry
                       /\ \A p \in Daemons : Genuine(peers[d][p], p)

GoroutinesGood ==
    \A d \in Daemons :
        /\ up[d] => starts[d] # 0
        /\ announcer[d].at = "send" => up[d] /\ announcer[d].ignore \subseteq Registers(d)
        /\ listener[d] # Reading =>
             up[d] /\ listener[d].msg.from # d /\ GoodMessage(listener[d].msg)

NetGood ==
    \A c \in net : up[c.to] /\ c.msg.from # c.to /\ GoodMessage(c.msg)

IInv == TypeOK /\ TablesGood /\ GoroutinesGood /\ NetGood /\ UnansweredIsKnown

----------------------------------------------------------------------------
(* Steps in general: starts only grow, and a daemon that goes on running   *)
(* forgets nobody; so what is good stays good, wherever it is.             *)

Grows ==
    \A d \in Daemons :
        /\ starts[d] <= starts'[d]
        /\ up'[d] /\ starts'[d] = starts[d] => up[d] /\ Registers(d) \subseteq Registers(d)'

\* An entry that is genuine stays so.
LEMMA GenuineStays ==
    ASSUME TypeOK, TypeOK', Grows, NEW p \in Daemons, NEW e, Genuine(e, p)
    PROVE  Genuine(e, p)'
<1>1. starts[p] \in Nat /\ starts'[p] \in Nat /\ starts[p] <= starts'[p]
    BY StartsPositive DEF TypeOK, Grows
<1> QED
    BY <1>1 DEF Genuine

\* A message that is good stays so, whatever its sender does.
LEMMA MessageStaysGood ==
    ASSUME TypeOK, TypeOK', Grows, NEW m \in Message, GoodMessage(m)
    PROVE  GoodMessage(m)'
<1>1. m.from \in Daemons
    BY DEF Message, Request, Response
<1>2. /\ starts[m.from] \in Nat /\ starts'[m.from] \in Nat
      /\ starts[m.from] <= starts'[m.from]
    BY <1>1, StartsPositive DEF TypeOK, Grows
<1>3. m.own.start \in 1..starts[m.from]
    BY DEF GoodMessage, GenuineMessage
<1>4. GenuineMessage(m)'
    <2>1. m.own.start \in 1..starts'[m.from]
        BY <1>2, <1>3
    <2>2. \A p \in Daemons : Genuine(m.known[p], p)'
        BY GenuineStays DEF GoodMessage, GenuineMessage
    <2> QED
        BY <2>1, <2>2 DEF GoodMessage, GenuineMessage
<1>5. ASSUME up'[m.from], starts'[m.from] = m.own.start
      PROVE  m.ignore \subseteq Registers(m.from)'
    <2>1. starts'[m.from] = starts[m.from]
        BY <1>2, <1>3, <1>5
    <2>2. up[m.from] /\ Registers(m.from) \subseteq Registers(m.from)'
        BY <1>1, <1>5, <2>1 DEF Grows
    <2> QED
        BY <1>5, <2>1, <2>2 DEF GoodMessage, KnowsIgnored
<1> QED
    BY <1>4, <1>5 DEF GoodMessage, KnowsIgnored

\* The same for all that are on their way or still being handled.
LEMMA MessagesStayGood ==
    ASSUME IInv, TypeOK', Grows
    PROVE  /\ \A e \in Daemons : listener[e] # Reading /\ listener'[e] = listener[e]
                                => GoodMessage(listener[e].msg)'
           /\ \A c \in net : GoodMessage(c.msg)'
<1>1. ASSUME NEW e \in Daemons, listener[e] # Reading, listener'[e] = listener[e]
      PROVE  GoodMessage(listener[e].msg)'
    <2> DEFINE m == listener[e].msg
    <2>1. m \in Message
        BY <1>1 DEF IInv, TypeOK, ListenerState
    <2>2. GoodMessage(m)
        BY <1>1 DEF IInv, GoroutinesGood
    <2> HIDE DEF m
    <2>3. \A n \in Message : GoodMessage(n) => GoodMessage(n)'
        BY MessageStaysGood DEF IInv
    <2>4. m' = m
        BY <1>1 DEF m
    <2>5. GoodMessage(m)'
        BY <2>1, <2>2, <2>3, <2>4 DEF GoodMessage, GenuineMessage, KnowsIgnored
    <2> QED
        BY <2>5 DEF m
<1>2. ASSUME NEW c \in net
      PROVE  GoodMessage(c.msg)'
    BY <1>2, MessageStaysGood DEF IInv, TypeOK, NetGood
<1> QED
    BY <1>1, <1>2

\* The initial states satisfy the invariant.
LEMMA InitIInv == Init => IInv
<1> SUFFICES ASSUME Init PROVE IInv
    OBVIOUS
<1>1. TypeOK
    BY StartsPositive, BoundsNat DEF Init, TypeOK, Nobody, NoEntry, Entry, Ages,
       AnnouncerState, ListenerState
<1>2. TablesGood
    BY DEF Init, TablesGood, Genuine, Nobody
<1>3. GoroutinesGood
    BY DEF Init, GoroutinesGood, Waiting
<1>4. NetGood /\ UnansweredIsKnown
    BY DEF Init, NetGood, UnansweredIsKnown
<1> QED
    BY <1>1, <1>2, <1>3, <1>4 DEF IInv

----------------------------------------------------------------------------
(* The steps, one lemma for each action.                                   *)

\* A step that leaves the tables alone keeps them good.
LEMMA TablesStayGood ==
    ASSUME IInv, TypeOK', Grows, UNCHANGED peers
    PROVE  TablesGood'
<1> SUFFICES ASSUME NEW d \in Daemons
             PROVE  (/\ peers[d][d] = NoEntry
                     /\ \A p \in Daemons : Genuine(peers[d][p], p))'
    BY DEF TablesGood
<1>1. peers'[d][d] = NoEntry
    BY DEF IInv, TablesGood
<1>2. \A p \in Daemons : Genuine(peers[d][p], p)'
    BY GenuineStays DEF IInv, TablesGood
<1> QED
    BY <1>1, <1>2

\* Start makes a daemon's old messages those of an earlier start.
LEMMA StartIInv ==
    ASSUME IInv, NEW d \in Daemons, Start(d)
    PROVE  IInv'
<1> USE DEF IInv, Start
<1>1. TypeOK'
    BY StartsPositive DEF TypeOK, AnnouncerState
<1>2. \A e \in Daemons : starts[e] \in Nat /\ starts'[e] \in Nat /\ starts[e] <= starts'[e]
    BY StartsPositive DEF TypeOK
<1>3. Grows
    <2>1. \A e \in Daemons : Registers(e)' = Registers(e)
        BY DEF Registers, KnownTo
    <2>2. \A e \in Daemons : starts'[e] = starts[e] => e # d
        BY StartsPositive DEF TypeOK
    <2>3. \A e \in Daemons : e # d => up'[e] = up[e]
        BY DEF TypeOK
    <2> QED
        BY <1>2, <2>1, <2>2, <2>3 DEF Grows
<1>4. TablesGood'
    BY <1>1, <1>3, TablesStayGood
<1>5. GoroutinesGood'
    <2> SUFFICES ASSUME NEW e \in Daemons
                 PROVE  (/\ up[e] => starts[e] # 0
                         /\ announcer[e].at = "send" =>
                              up[e] /\ announcer[e].ignore \subseteq Registers(e)
                         /\ listener[e] # Reading =>
                              up[e] /\ listener[e].msg.from # e /\ GoodMessage(listener[e].msg))'
        BY DEF GoroutinesGood
    <2>1. up'[e] => starts'[e] # 0
        BY <1>2 DEF TypeOK, GoroutinesGood
    <2>2. announcer'[e].at = "send" => up'[e] /\ announcer'[e].ignore \subseteq Registers(e)'
        BY DEF TypeOK, GoroutinesGood, First, Registers, KnownTo
    <2>3. listener[e] # Reading => GoodMessage(listener[e].msg)'
        BY <1>1, <1>3, MessagesStayGood
    <2>4. listener[e] # Reading => up'[e] /\ listener[e].msg.from # e
        BY DEF TypeOK, GoroutinesGood
    <2> QED
        BY <2>1, <2>2, <2>3, <2>4
<1>6. NetGood'
    <2>1. \A c \in net : GoodMessage(c.msg)'
        BY <1>1, <1>3, MessagesStayGood
    <2> QED
        BY <2>1 DEF NetGood, TypeOK
<1>7. UnansweredIsKnown'
    BY DEF UnansweredIsKnown, Registers, KnownTo
<1> QED
    BY <1>1, <1>4, <1>5, <1>6, <1>7

\* Crash: what a daemon loses, it loses altogether.
LEMMA CrashIInv ==
    ASSUME IInv, NEW d \in Daemons, Crash(d)
    PROVE  IInv'
<1> USE DEF IInv, Crash
<1>1. TypeOK'
    <2>1. crashes' \in 0..MaxCrashes
        BY BoundsNat DEF TypeOK
    <2>2. peers' \in [Daemons -> [Daemons -> Entry]]
        BY StartsPositive DEF TypeOK, Nobody, NoEntry, Entry
    <2>3. heard' \in [Daemons -> [Daemons -> Ages]]
        BY DEF TypeOK, Ages
    <2>4. /\ announcer' \in [Daemons -> AnnouncerState]
          /\ listener' \in [Daemons -> ListenerState]
        BY DEF TypeOK, AnnouncerState, ListenerState
    <2>5. up' \in [Daemons -> BOOLEAN] /\ \A c \in net' : c \in net
        BY DEF TypeOK
    <2> QED
        BY <2>1, <2>2, <2>3, <2>4, <2>5 DEF TypeOK
<1>2. \A e \in Daemons : e # d => /\ Registers(e)' = Registers(e)
                                   /\ up'[e] = up[e]
    BY DEF Registers, KnownTo, TypeOK
<1>3. Grows
    <2>1. ~up'[d]
        BY DEF TypeOK
    <2>2. \A e \in Daemons : starts[e] \in Nat
        BY StartsPositive DEF TypeOK
    <2> QED
        BY <1>2, <2>1, <2>2 DEF Grows
<1>4. TablesGood'
    <2> SUFFICES ASSUME NEW e \in Daemons
                 PROVE  (/\ peers[e][e] = NoEntry
                         /\ \A p \in Daemons : Genuine(peers[e][p], p))'
        BY DEF TablesGood
    <2>1. CASE e = d
        BY <2>1 DEF Genuine, Nobody, TypeOK
    <2>2. CASE e # d
        BY <1>1, <1>3, <2>2, GenuineStays DEF TypeOK, TablesGood
    <2> QED
        BY <2>1, <2>2
<1>5. GoroutinesGood'
    <2> SUFFICES ASSUME NEW e \in Daemons
                 PROVE  (/\ up[e] => starts[e] # 0
                         /\ announcer[e].at = "send" =>
                              up[e] /\ announcer[e].ignore \subseteq Registers(e)
                         /\ listener[e] # Reading =>
                              up[e] /\ listener[e].msg.from # e /\ GoodMessage(listener[e].msg))'
        BY DEF GoroutinesGood
    <2>1. CASE e = d
        <3>1. announcer'[d] = Waiting /\ listener'[d] = Reading /\ ~up'[d]
            BY <1>1 DEF TypeOK
        <3> QED
            BY <2>1, <3>1 DEF Waiting
    <2>2. CASE e # d
        <3>1. listener[e] # Reading => GoodMessage(listener[e].msg)'
            BY <1>1, <1>3, <2>2, MessagesStayGood DEF TypeOK
        <3> QED
            BY <1>2, <2>2, <3>1 DEF TypeOK, GoroutinesGood
    <2> QED
        BY <2>1, <2>2
<1>6. NetGood'
    <2>1. \A c \in net : GoodMessage(c.msg)'
        BY <1>1, <1>3, MessagesStayGood
    <2>2. \A c \in net' : c \in net /\ c.to \in Daemons /\ c.to # d
        BY DEF TypeOK
    <2> QED
        BY <1>2, <2>1, <2>2 DEF NetGood
<1>7. UnansweredIsKnown'
    <2> SUFFICES ASSUME NEW e \in Daemons, NEW p \in Daemons
                 PROVE  (heard[e][p] # "past" => p \in Registers(e))'
        BY DEF UnansweredIsKnown
    <2>1. CASE e = d
        BY <2>1 DEF TypeOK
    <2>2. CASE e # d
        BY <1>2, <2>2 DEF TypeOK, UnansweredIsKnown
    <2> QED
        BY <2>1, <2>2
<1> QED
    BY <1>1, <1>4, <1>5, <1>6, <1>7

\* ReadRecent: those heard within half the window are registered.
LEMMA ReadRecentIInv ==
    ASSUME IInv, NEW d \in Daemons, ReadRecent(d)
    PROVE  IInv'
<1> USE DEF IInv, ReadRecent
<1>1. TypeOK'
    BY DEF TypeOK, AnnouncerState
<1>2. \A e \in Daemons : Registers(e)' = Registers(e)
    BY DEF Registers, KnownTo
<1>3. Grows
    BY <1>2, StartsPositive DEF Grows, TypeOK
<1>4. TablesGood'
    BY <1>1, <1>3, TablesStayGood
<1>5. GoroutinesGood'
    <2> SUFFICES ASSUME NEW e \in Daemons
                 PROVE  (/\ up[e] => starts[e] # 0
                         /\ announcer[e].at = "send" =>
                              up[e] /\ announcer[e].ignore \subseteq Registers(e)
                         /\ listener[e] # Reading =>
                              up[e] /\ listener[e].msg.from # e /\ GoodMessage(listener[e].msg))'
        BY DEF GoroutinesGood
    <2>1. listener[e] # Reading => GoodMessage(listener[e].msg)'
        BY <1>1, <1>3, MessagesStayGood
    <2>2. {p \in Daemons : heard[e][p] = "recent"} \subseteq Registers(e)
        BY DEF UnansweredIsKnown
    <2> QED
        BY <1>2, <2>1, <2>2 DEF TypeOK, GoroutinesGood
<1>6. NetGood'
    BY <1>1, <1>3, MessagesStayGood DEF TypeOK, NetGood
<1>7. UnansweredIsKnown'
    BY <1>2 DEF UnansweredIsKnown
<1> QED
    BY <1>1, <1>4, <1>5, <1>6, <1>7

\* A copy of a multicast message goes to another daemon, and one that runs.
LEMMA MulticastCopies ==
    ASSUME NEW m, NEW c \in Multicast(m)
    PROVE  c.msg = m /\ c.to \in Daemons /\ up[c.to] /\ c.to # m.from
BY DEF Multicast

\* SendRequest: what is sent is the daemon's own table, and an ignore list that
\* was good when it was read.
LEMMA SendRequestIInv ==
    ASSUME IInv, NEW d \in Daemons, SendRequest(d)
    PROVE  IInv'
<1> DEFINE own == [start |-> starts[d], named |-> 0]
           m == [type |-> "REQUEST", from |-> d, own |-> own,
                 ignore |-> announcer[d].ignore, known |-> peers[d]]
<1>0. /\ announcer[d].at = "send"
      /\ net' = net \cup Multicast(m)
      /\ announcer' = [announcer EXCEPT ![d] = Waiting]
      /\ UNCHANGED <<up, starts, peers, heard, listener, crashes, lost>>
    BY DEF SendRequest
<1>1. m \in Message
    <2>1. announcer[d].ignore \in SUBSET Daemons
        BY <1>0 DEF IInv, TypeOK, AnnouncerState, First, Waiting
    <2>2. own \in Entry
        BY DEF IInv, TypeOK, Entry
    <2>3. peers[d] \in [Daemons -> Entry]
        BY DEF IInv, TypeOK
    <2> HIDE DEF own
    <2> QED
        BY <2>1, <2>2, <2>3 DEF Message, Request
<1>2. GoodMessage(m)
    <2>1. own.start \in 1..starts[d]
        BY <1>0 DEF IInv, GoroutinesGood, TypeOK
    <2>2. \A p \in Daemons : Genuine(peers[d][p], p)
        BY DEF IInv, TablesGood
    <2>3. announcer[d].ignore \subseteq Registers(d)
        BY <1>0 DEF IInv, GoroutinesGood
    <2> QED
        BY <2>1, <2>2, <2>3 DEF GoodMessage, GenuineMessage, KnowsIgnored
<1>a. PICK n \in Message : /\ GoodMessage(n)
                           /\ n.from = d
                           /\ net' = net \cup Multicast(n)
    BY <1>0, <1>1, <1>2
<1> HIDE DEF m
<1>3. TypeOK'
    <2>1. announcer' \in [Daemons -> AnnouncerState]
        BY <1>0 DEF IInv, TypeOK, AnnouncerState
    <2>2. \A c \in net' : c.to \in Daemons /\ c.msg \in Message
        BY <1>a, MulticastCopies DEF IInv, TypeOK
    <2> QED
        BY <1>0, <2>1, <2>2 DEF IInv, TypeOK
<1>4. \A e \in Daemons : Registers(e)' = Registers(e)
    BY <1>0 DEF Registers, KnownTo
<1>5. Grows
    BY <1>0, <1>4, StartsPositive DEF Grows, IInv, TypeOK
<1>6. TablesGood'
    BY <1>0, <1>3, <1>5, TablesStayGood
<1>7. GoroutinesGood'
    <2> SUFFICES ASSUME NEW e \in Daemons
                 PROVE  (/\ up[e] => starts[e] # 0
                         /\ announcer[e].at = "send" =>
                              up[e] /\ announcer[e].ignore \subseteq Registers(e)
                         /\ listener[e] # Reading =>
                              up[e] /\ listener[e].msg.from # e /\ GoodMessage(listener[e].msg))'
        BY DEF GoroutinesGood
    <2>1. listener[e] # Reading => GoodMessage(listener[e].msg)'
        BY <1>0, <1>3, <1>5, MessagesStayGood
    <2>2. announcer'[e].at = "send" => announcer'[e] = announcer[e]
        BY <1>0 DEF IInv, TypeOK, Waiting
    <2> QED
        BY <1>0, <1>4, <2>1, <2>2 DEF IInv, GoroutinesGood
<1>8. NetGood'
    <2>1. \A c \in net : up'[c.to] /\ c.msg.from # c.to /\ GoodMessage(c.msg)'
        BY <1>0, <1>3, <1>5, MessagesStayGood DEF IInv, NetGood
    <2>2. GoodMessage(n)'
        BY <1>3, <1>5, <1>a, MessageStaysGood DEF IInv
    <2>3. \A c \in Multicast(n) : up'[c.to] /\ c.msg.from # c.to /\ GoodMessage(c.msg)'
        <3> SUFFICES ASSUME NEW c \in Multicast(n)
                     PROVE  up'[c.to] /\ c.msg.from # c.to /\ GoodMessage(c.msg)'
            OBVIOUS
        <3>1. c.msg = n /\ up[c.to] /\ c.to # n.from
            BY MulticastCopies
        <3> QED
            BY <1>0, <2>2, <3>1
    <2> QED
        BY <1>a, <2>1, <2>3 DEF NetGood
<1>9. UnansweredIsKnown'
    BY <1>0, <1>4 DEF IInv, UnansweredIsKnown
<1> QED
    BY <1>3, <1>6, <1>7, <1>8, <1>9 DEF IInv

\* What a daemon has on record after it registered all that a message tells:
\* nobody is forgotten, the sender is there, and all is genuine.
Registered(d, m) == RegisterKnown(RegisterSender(peers[d], m), d, m)

LEMMA RegisteredGood ==
    ASSUME IInv, NEW d \in Daemons, NEW m \in Message, GoodMessage(m), m.from # d
    PROVE  /\ Registered(d, m) \in [Daemons -> Entry]
           /\ Registered(d, m)[d] = NoEntry
           /\ \A p \in Daemons : Genuine(Registered(d, m)[p], p)
           /\ \A p \in KnownTo(d) \cup {m.from} : Registered(d, m)[p].start # 0
<1> DEFINE sender == [m.own EXCEPT !.named = @ + 1]
<1>1. /\ m.from \in Daemons
      /\ m.own \in Entry
      /\ m.known \in [Daemons -> Entry]
    BY DEF Message, Request, Response
<1>2. /\ peers[d] \in [Daemons -> Entry]
      /\ peers[d][d] = NoEntry
      /\ \A p \in Daemons : Genuine(peers[d][p], p)
    BY DEF IInv, TypeOK, TablesGood
<1>3. starts[m.from] \in 0..MaxStarts
    BY <1>1 DEF IInv, TypeOK
<1>4. /\ sender.start \in 1..starts[m.from]
      /\ sender.named = 1
      /\ sender \in Entry
    <2>1. m.own.start \in 1..starts[m.from] /\ m.own.named = 0
        BY DEF GoodMessage, GenuineMessage
    <2> QED
        BY <1>1, <1>3, <2>1, StartsPositive DEF Entry
<1>5. \A p \in Daemons : Genuine(m.known[p], p)
    BY DEF GoodMessage, GenuineMessage
<1> HIDE DEF sender
<1>6. Registered(d, m) =
        [p \in Daemons |-> IF p # d /\ m.known[p] # NoEntry THEN m.known[p]
                           ELSE IF p = m.from THEN sender ELSE peers[d][p]]
    BY <1>1, <1>2 DEF Registered, RegisterKnown, RegisterSender, sender
<1>7. Genuine(sender, m.from) /\ sender.start # 0
    BY <1>3, <1>4 DEF Genuine
<1>8. \A p \in Daemons : m.known[p] # NoEntry => m.known[p].start # 0
    BY <1>5 DEF Genuine, IInv, TypeOK
<1>9. \A p \in Daemons : Genuine(Registered(d, m)[p], p)
    BY <1>2, <1>5, <1>6, <1>7
<1> QED
    BY <1>1, <1>2, <1>4, <1>6, <1>7, <1>8, <1>9 DEF KnownTo

\* Handle: the table grows, and an answer tells from it.
LEMMA HandleIInv ==
    ASSUME IInv, NEW d \in Daemons, Handle(d)
    PROVE  IInv'
<1>1. PICK m \in Message :
        /\ listener[d].msg = m
        /\ peers' = [peers EXCEPT ![d] = Registered(d, m)]
        /\ net' = IF ToAnswer(d) THEN net \cup Answer(d, Registered(d, m), m) ELSE net
    BY DEF Handle, Registered, IInv, TypeOK, ListenerState
<1>2. /\ listener[d] # Reading
      /\ listener' = [listener EXCEPT ![d] = Reading]
      /\ UNCHANGED <<up, starts, heard, announcer, crashes, lost>>
    BY DEF Handle
<1>3. up[d] /\ starts[d] \in 1..MaxStarts /\ m.from # d /\ GoodMessage(m)
    BY <1>1, <1>2 DEF IInv, GoroutinesGood, TypeOK
<1>4. PICK table \in [Daemons -> Entry] :
        /\ table = Registered(d, m)
        /\ table[d] = NoEntry
        /\ \A p \in Daemons : Genuine(table[p], p)
        /\ \A p \in KnownTo(d) \cup {m.from} : table[p].start # 0
    BY <1>3, RegisteredGood
<1>5. PICK n \in Message :
        /\ GoodMessage(n)
        /\ n.from = d
        /\ net' = IF ToAnswer(d) THEN net \cup Multicast(n) ELSE net
    <2> DEFINE own == [start |-> starts[d], named |-> 0]
               known == [p \in Daemons |->
                            IF p \in m.ignore \cup {m.from} THEN NoEntry ELSE table[p]]
               answer == [type |-> "RESPONSE", from |-> d, own |-> own,
                          ignore |-> {}, known |-> known]
    <2>1. answer \in Message
        <3>1. own \in Entry
            BY <1>3 DEF Entry
        <3>2. known \in [Daemons -> Entry]
            BY StartsPositive DEF Entry, NoEntry
        <3> HIDE DEF own, known
        <3> QED
            BY <3>1, <3>2 DEF Message, Response
    <2>2. GoodMessage(answer)
        <3>1. own.start \in 1..starts[d]
            BY <1>3
        <3>2. \A p \in Daemons : Genuine(known[p], p)
            BY <1>4 DEF Genuine
        <3> QED
            BY <3>1, <3>2 DEF GoodMessage, GenuineMessage, KnowsIgnored
    <2>3. Answer(d, Registered(d, m), m) = Multicast(answer)
        BY <1>4 DEF Answer
    <2> QED
        BY <1>1, <2>1, <2>2, <2>3
<1>6. peers' = [peers EXCEPT ![d] = table]
    BY <1>1, <1>4
<1>7. TypeOK'
    <2>1. \A c \in net' : c.to \in Daemons /\ c.msg \in Message
        BY <1>5, MulticastCopies DEF IInv, TypeOK
    <2>2. peers' \in [Daemons -> [Daemons -> Entry]]
        BY <1>6 DEF IInv, TypeOK
    <2>3. listener' \in [Daemons -> ListenerState]
        BY <1>2 DEF IInv, TypeOK, ListenerState
    <2> QED
        BY <1>2, <2>1, <2>2, <2>3 DEF IInv, TypeOK
<1>8. \A e \in Daemons : Registers(e) \subseteq Registers(e)'
    <2> SUFFICES ASSUME NEW e \in Daemons
                 PROVE  Registers(e) \subseteq Registers(e)'
        OBVIOUS
    <2>1. CASE e = d
        <3>1. peers'[d] = table
            BY <1>6 DEF IInv, TypeOK
        <3>2. KnownTo(d)' = {p \in Daemons : table[p].start # 0}
            BY <3>1 DEF KnownTo
        <3>3. Registers(d) = KnownTo(d) \cup {m.from} /\ m.from \in Daemons
            BY <1>1, <1>2 DEF Registers, Message, Request, Response
        <3>4. KnownTo(d) \subseteq Daemons
            BY DEF KnownTo
        <3> QED
            BY <1>4, <2>1, <3>2, <3>3, <3>4 DEF Registers
    <2>2. CASE e # d
        BY <1>2, <1>6, <2>2 DEF Registers, KnownTo, IInv, TypeOK
    <2> QED
        BY <2>1, <2>2
<1>9. Grows
    BY <1>2, <1>8, StartsPositive DEF Grows, IInv, TypeOK
<1>10. TablesGood'
    <2> SUFFICES ASSUME NEW e \in Daemons
                 PROVE  (/\ peers[e][e] = NoEntry
                         /\ \A p \in Daemons : Genuine(peers[e][p], p))'
        BY DEF TablesGood
    <2>1. CASE e = d
        <3>1. peers'[e] = table
            BY <1>6, <2>1 DEF IInv, TypeOK
        <3> QED
            BY <1>2, <1>4, <2>1, <3>1 DEF Genuine
    <2>2. CASE e # d
        <3>1. peers'[e] = peers[e]
            BY <1>6, <2>2 DEF IInv, TypeOK
        <3> QED
            BY <1>2, <3>1 DEF Genuine, IInv, TablesGood
    <2> QED
        BY <2>1, <2>2
<1>11. GoroutinesGood'
    <2> SUFFICES ASSUME NEW e \in Daemons
                 PROVE  (/\ up[e] => starts[e] # 0
                         /\ announcer[e].at = "send" =>
                              up[e] /\ announcer[e].ignore \subseteq Registers(e)
                         /\ listener[e] # Reading =>
                              up[e] /\ listener[e].msg.from # e /\ GoodMessage(listener[e].msg))'
        BY DEF GoroutinesGood
    <2>1. listener'[e] # Reading => listener'[e] = listener[e]
        BY <1>2 DEF IInv, TypeOK
    <2>2. listener'[e] # Reading => GoodMessage(listener[e].msg)'
        BY <1>7, <1>9, <2>1, MessagesStayGood
    <2> QED
        BY <1>2, <1>8, <2>1, <2>2 DEF IInv, GoroutinesGood
<1>12. NetGood'
    <2>1. \A c \in net : up'[c.to] /\ c.msg.from # c.to /\ GoodMessage(c.msg)'
        BY <1>2, <1>7, <1>9, MessagesStayGood DEF IInv, NetGood
    <2>2. GoodMessage(n)'
        BY <1>5, <1>7, <1>9, MessageStaysGood DEF IInv
    <2>3. \A c \in Multicast(n) : up'[c.to] /\ c.msg.from # c.to /\ GoodMessage(c.msg)'
        <3> SUFFICES ASSUME NEW c \in Multicast(n)
                     PROVE  up'[c.to] /\ c.msg.from # c.to /\ GoodMessage(c.msg)'
            OBVIOUS
        <3>1. c.msg = n /\ up[c.to] /\ c.to # n.from
            BY MulticastCopies
        <3> QED
            BY <1>2, <2>2, <3>1
    <2> QED
        BY <1>5, <2>1, <2>3 DEF NetGood
<1>13. UnansweredIsKnown'
    BY <1>2, <1>8 DEF IInv, UnansweredIsKnown
<1> QED
    BY <1>7, <1>10, <1>11, <1>12, <1>13 DEF IInv

\* Receive: the sender counts as registered from here on, for the listener is
\* about to do so.
LEMMA ReceiveIInv ==
    ASSUME IInv, NEW c \in net, Receive(c)
    PROVE  IInv'
<1>1. PICK d \in Daemons, m \in Message : d = c.to /\ m = c.msg
    BY DEF IInv, TypeOK
<1>2. /\ listener[d] = Reading
      /\ net' = net \ {c}
      /\ heard' = [heard EXCEPT ![d][m.from] = "recent"]
      /\ UNCHANGED <<up, starts, peers, announcer, crashes, lost>>
    BY <1>1 DEF Receive
<1>3. PICK r \in BOOLEAN :
        listener' = [listener EXCEPT ![d] = [at |-> "register", msg |-> m, respond |-> r]]
    BY <1>1 DEF Receive
<1>4. up[d] /\ m.from \in Daemons /\ m.from # d /\ GoodMessage(m)
    BY <1>1 DEF IInv, NetGood, Message, Request, Response
<1>5. PICK l \in ListenerState : l = [at |-> "register", msg |-> m, respond |-> r]
    BY DEF ListenerState
<1>6. /\ l # Reading /\ l.msg = m
      /\ listener' = [listener EXCEPT ![d] = l]
    BY <1>3, <1>5 DEF Reading
<1>7. TypeOK'
    <2>1. heard' \in [Daemons -> [Daemons -> Ages]]
        BY <1>2, <1>4 DEF IInv, TypeOK, Ages
    <2>2. listener' \in [Daemons -> ListenerState]
        BY <1>6 DEF IInv, TypeOK
    <2> QED
        BY <1>2, <2>1, <2>2 DEF IInv, TypeOK
<1>8. \A e \in Daemons : Registers(e) \subseteq Registers(e)'
    BY <1>2, <1>6 DEF Registers, KnownTo, IInv, TypeOK
<1>9. m.from \in Registers(d)'
    BY <1>4, <1>6 DEF Registers, IInv, TypeOK
<1>10. Grows
    BY <1>2, <1>8, StartsPositive DEF Grows, IInv, TypeOK
<1>11. TablesGood'
    BY <1>2, <1>7, <1>10, TablesStayGood
<1>12. GoodMessage(m)'
    BY <1>4, <1>7, <1>10, MessageStaysGood DEF IInv
<1>13. GoroutinesGood'
    <2> SUFFICES ASSUME NEW e \in Daemons
                 PROVE  (/\ up[e] => starts[e] # 0
                         /\ announcer[e].at = "send" =>
                              up[e] /\ announcer[e].ignore \subseteq Registers(e)
                         /\ listener[e] # Reading =>
                              up[e] /\ listener[e].msg.from # e /\ GoodMessage(listener[e].msg))'
        BY DEF GoroutinesGood
    <2>1. /\ up'[e] => starts'[e] # 0
          /\ announcer'[e].at = "send" => up'[e] /\ announcer'[e].ignore \subseteq Registers(e)'
        BY <1>2, <1>8 DEF IInv, GoroutinesGood
    <2>2. CASE e = d
        <3>1. listener'[e].msg = m
            BY <1>6, <2>2 DEF IInv, TypeOK
        <3>2. GoodMessage(listener[e].msg)'
            BY <1>12, <3>1 DEF GoodMessage, GenuineMessage, KnowsIgnored
        <3> QED
            BY <1>2, <1>4, <2>1, <2>2, <3>1, <3>2
    <2>3. CASE e # d
        <3>1. listener'[e] = listener[e]
            BY <1>6, <2>3 DEF IInv, TypeOK
        <3>2. listener[e] # Reading => GoodMessage(listener[e].msg)'
            BY <1>7, <1>10, <3>1, MessagesStayGood
        <3> QED
            BY <1>2, <2>1, <3>1, <3>2 DEF IInv, GoroutinesGood
    <2> QED
        BY <2>2, <2>3
<1>14. NetGood'
    <2>1. \A k \in net : GoodMessage(k.msg)'
        BY <1>7, <1>10, MessagesStayGood
    <2> QED
        BY <1>2, <2>1 DEF IInv, NetGood
<1>15. UnansweredIsKnown'
    <2> SUFFICES ASSUME NEW e \in Daemons, NEW p \in Daemons
                 PROVE  (heard[e][p] # "past" => p \in Registers(e))'
        BY DEF UnansweredIsKnown
    <2>1. CASE e = d /\ p = m.from
        BY <1>9, <2>1
    <2>2. CASE ~(e = d /\ p = m.from)
        <3>1. heard'[e][p] = heard[e][p]
            BY <1>2, <2>2 DEF IInv, TypeOK
        <3> QED
            BY <1>8, <3>1 DEF IInv, UnansweredIsKnown
    <2> QED
        BY <2>1, <2>2
<1> QED
    BY <1>7, <1>11, <1>13, <1>14, <1>15 DEF IInv

\* Nothing that matters to the other conjuncts changes when time passes, when a
\* copy is lost, or when nothing happens.
LEMMA QuietIInv ==
    ASSUME IInv, TypeOK',
           UNCHANGED <<up, starts, peers, announcer, listener>>,
           net' \subseteq net,
           \A d, p \in Daemons : heard'[d][p] # "past" => heard[d][p] # "past"
    PROVE  IInv'
<1>1. \A e \in Daemons : Registers(e)' = Registers(e)
    BY DEF Registers, KnownTo
<1>2. Grows
    BY <1>1, StartsPositive DEF Grows, IInv, TypeOK
<1>3. TablesGood'
    BY <1>2, TablesStayGood
<1>4. GoroutinesGood'
    <2> SUFFICES ASSUME NEW e \in Daemons
                 PROVE  (/\ up[e] => starts[e] # 0
                         /\ announcer[e].at = "send" =>
                              up[e] /\ announcer[e].ignore \subseteq Registers(e)
                         /\ listener[e] # Reading =>
                              up[e] /\ listener[e].msg.from # e /\ GoodMessage(listener[e].msg))'
        BY DEF GoroutinesGood
    <2>1. listener[e] # Reading => GoodMessage(listener[e].msg)'
        BY <1>2, MessagesStayGood
    <2> QED
        BY <1>1, <2>1 DEF IInv, GoroutinesGood
<1>5. NetGood'
    BY <1>2, MessagesStayGood DEF IInv, NetGood
<1>6. UnansweredIsKnown'
    BY <1>1 DEF IInv, UnansweredIsKnown
<1> QED
    BY <1>3, <1>4, <1>5, <1>6 DEF IInv

\* Age: a peer heard longer ago is still on record.
LEMMA AgeIInv ==
    ASSUME IInv, NEW d \in Daemons, NEW p \in Daemons, Age(d, p)
    PROVE  IInv'
<1>1. PICK a \in Ages :
        heard' = [heard EXCEPT ![d][p] = a] /\ heard[d][p] # "past"
    BY DEF Age, Ages
<1>2. TypeOK'
    <2>1. heard' \in [Daemons -> [Daemons -> Ages]]
        BY <1>1 DEF IInv, TypeOK
    <2> QED
        BY <2>1 DEF Age, IInv, TypeOK
<1>3. \A e, q \in Daemons : heard'[e][q] # "past" => heard[e][q] # "past"
    BY <1>1 DEF IInv, TypeOK
<1> QED
    BY <1>2, <1>3, QuietIInv DEF Age

\* Lose: what is on its way can only become less.
LEMMA LoseIInv ==
    ASSUME IInv, NEW c \in net, Lose(c)
    PROVE  IInv'
<1>1. TypeOK'
    BY BoundsNat DEF Lose, IInv, TypeOK
<1> QED
    BY <1>1, QuietIInv DEF Lose

\* Every step preserves the invariant.
LEMMA NextIInv == IInv /\ [Next]_vars => IInv'
<1> SUFFICES ASSUME IInv, [Next]_vars PROVE IInv'
    OBVIOUS
<1>1. CASE UNCHANGED vars
    <2>1. TypeOK'
        BY <1>1 DEF vars, IInv, TypeOK
    <2> QED
        BY <1>1, <2>1, QuietIInv DEF vars
<1>2. ASSUME NEW d \in Daemons, Start(d) PROVE IInv'
    BY <1>2, StartIInv
<1>3. ASSUME NEW d \in Daemons, Crash(d) PROVE IInv'
    BY <1>3, CrashIInv
<1>4. ASSUME NEW d \in Daemons, Announce(d) PROVE IInv'
    BY <1>4, ReadRecentIInv, SendRequestIInv DEF Announce
<1>5. ASSUME NEW d \in Daemons, Listen(d) PROVE IInv'
    BY <1>5, HandleIInv, ReceiveIInv DEF Listen
<1>6. ASSUME NEW d \in Daemons, NEW p \in Daemons, Age(d, p) PROVE IInv'
    BY <1>6, AgeIInv
<1>7. ASSUME NEW c \in net, Lose(c) PROVE IInv'
    BY <1>7, LoseIInv
<1> QED
    BY <1>1, <1>2, <1>3, <1>4, <1>5, <1>6, <1>7 DEF Next

----------------------------------------------------------------------------
(* The theorems.                                                           *)

\* What a message asks not to answer its sender has on record, so the answer
\* leaves out nobody else.
LEMMA IInvAnswers == IInv => AnswersLackNobody
<1> SUFFICES ASSUME IInv, NEW d \in Daemons, ToAnswer(d)
             PROVE  LET m == listener[d].msg
                    IN  up[m.from] /\ starts[m.from] = m.own.start
                            => m.ignore \cap KnownTo(d) \subseteq Registers(m.from)
    BY DEF AnswersLackNobody
<1>1. GoodMessage(listener[d].msg)
    BY DEF ToAnswer, IInv, GoroutinesGood
<1> QED
    BY <1>1 DEF GoodMessage, KnowsIgnored

\* Every entry on record is genuine and of another daemon.
LEMMA IInvRecords == IInv => RecordsAreGenuine
<1> SUFFICES ASSUME IInv, NEW d \in Daemons, NEW p \in Daemons, p \in KnownTo(d)
             PROVE  /\ p # d
                    /\ peers[d][p].start <= starts[p]
                    /\ peers[d][p].named = 1
    BY DEF RecordsAreGenuine
<1>1. peers[d][p] # NoEntry /\ Genuine(peers[d][p], p) /\ peers[d][d] = NoEntry
    BY DEF KnownTo, NoEntry, IInv, TablesGood
<1>2. peers[d][p].start \in 1..starts[p] /\ starts[p] \in Nat
    BY <1>1, StartsPositive DEF Genuine, IInv, TypeOK
<1> QED
    BY <1>1, <1>2 DEF Genuine

\* The invariant holds in every reachable state.
THEOREM DiscoveryInvariant == Spec => []IInv
BY InitIInv, NextIInv, PTL DEF Spec

\* Every state of the discovery is well formed: tables, ages, goroutines and
\* all that is on its way.
THEOREM DiscoveryTypeCorrect == Spec => []TypeOK
<1>1. IInv => TypeOK
    BY DEF IInv
<1> QED
    BY <1>1, DiscoveryInvariant, PTL

\* A table never holds the daemon itself, nor runtimes that were never
\* announced or whose PeerIds name not exactly their owner (RegisterPeer,
\* registerPeerFromAnnouncement).
THEOREM DiscoveryRecordsAreGenuine == Spec => []RecordsAreGenuine
BY IInvRecords, DiscoveryInvariant, PTL

\* A peer whose REQUEST is not answered because it was heard within the window
\* is on record, or about to be (handleAnnouncement, two critical sections).
THEOREM DiscoveryUnansweredIsKnown == Spec => []UnansweredIsKnown
<1>1. IInv => UnansweredIsKnown
    BY DEF IInv
<1> QED
    BY <1>1, DiscoveryInvariant, PTL

\* An answer leaves out only whom the requester has on record itself
\* (sendAnnouncement's ignore list, sendAnnouncementResponses).
THEOREM DiscoveryAnswersLackNobody == Spec => []AnswersLackNobody
BY IInvAnswers, DiscoveryInvariant, PTL

=============================================================================
