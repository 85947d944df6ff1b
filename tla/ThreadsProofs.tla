--------------------------- MODULE ThreadsProofs -----------------------------
(***************************************************************************)
(* Proofs about the components that run threads of their own, for any      *)
(* number of connections, subscribers, publishers, events and pool         *)
(* workers, and of starts and stops of each.                               *)
(***************************************************************************)
EXTENDS RtspServer, EventBus, SequenceTheorems, TLAPS

----------------------------------------------------------------------------
(* The RTSP server *)

RtspSpec == RtspInit /\ [][RtspNext]_rtspVars

(* Each thread that lives can be joined: a client's is in clientThreads_,  *)
(* or is about to be put there by an accept thread that is not joined yet. *)
CanBeJoined ==
    /\ keeper = "stopped" => clientThreads = {}
    /\ keeper \in {"stopped", "joinClients"} => acceptor = "none"
    /\ acceptor = "push" => accepted \in Peers /\ client[accepted] = "none"
                            /\ peer[accepted] # "away"
    /\ \A p \in Peers : client[p] # "none" => peer[p] # "away"
    /\ \A p \in Peers : Alive(p) => p \in clientThreads

RInv == RtspTypeOK /\ SocketClosedOnce /\ CanBeJoined

LEMMA RtspInitInv == RtspInit => RInv
  <1> SUFFICES ASSUME RtspInit PROVE RInv
    OBVIOUS
  <1>1. 0 \in 0 .. MaxStarts /\ 0 \in 0 .. 2
    BY RtspAssumption
  <1>2. \A p \in Peers : client[p] = "none" /\ closes[p] = 0
    BY DEF RtspInit
  <1>3. RtspTypeOK
    BY <1>1 DEF RtspInit, RtspTypeOK
  <1>4. SocketClosedOnce /\ CanBeJoined
    BY <1>2 DEF RtspInit, SocketClosedOnce, CanBeJoined, Alive
  <1> QED BY <1>3, <1>4 DEF RInv

----------------------------------------------------------------------------
(* The thread that starts and stops the server. *)
LEMMA ServerKeeperInv ==
  ASSUME RInv, RtspStart \/ RtspStop \/ KeeperStep
  PROVE  RInv'
  <1> USE DEF RInv, serverSide, acceptSide, clientSide
  <1>1. CASE RtspStart
    BY <1>1, RtspAssumption DEF RtspStart, RtspTypeOK, SocketClosedOnce, CanBeJoined, Alive
  <1>2. CASE RtspStop
    BY <1>2 DEF RtspStop, RtspTypeOK, SocketClosedOnce, CanBeJoined, Alive
  <1>3. CASE CloseListener
    BY <1>3 DEF CloseListener, RtspTypeOK, SocketClosedOnce, CanBeJoined, Alive
  <1>4. CASE JoinAcceptor
    BY <1>4 DEF JoinAcceptor, AcceptorJoinable, RtspTypeOK, SocketClosedOnce, CanBeJoined, Alive
  <1>5. CASE JoinClients
    BY <1>5 DEF JoinClients, RtspTypeOK, SocketClosedOnce, CanBeJoined, Alive
  <1> QED BY <1>1, <1>2, <1>3, <1>4, <1>5 DEF KeeperStep

(* The accept thread. *)
LEMMA AcceptorInv ==
  ASSUME RInv, AcceptorStep \/ \E p \in Peers : Accept(p)
  PROVE  RInv'
  <1> USE DEF RInv, serverSide, acceptSide, clientSide
  <1>1. CASE AcceptLoop
    BY <1>1 DEF AcceptLoop, RtspTypeOK, SocketClosedOnce, CanBeJoined, Alive
  <1>2. CASE AcceptFails
    BY <1>2 DEF AcceptFails, RtspTypeOK, SocketClosedOnce, CanBeJoined, Alive
  <1>3. CASE PushClient
    <2>1. accepted \in Peers /\ client[accepted] = "none" /\ closes[accepted] = 0
      BY <1>3 DEF PushClient, CanBeJoined, SocketClosedOnce
    <2>2. \A p \in Peers : client'[p] = IF p = accepted THEN "loop" ELSE client[p]
      BY <1>3, <2>1 DEF PushClient, RtspTypeOK
    <2>3. RtspTypeOK'
      BY <1>3, <2>1 DEF PushClient, RtspTypeOK, NoPeer
    <2>4. SocketClosedOnce'
      BY <1>3, <2>1, <2>2 DEF PushClient, SocketClosedOnce
    <2>5. CanBeJoined'
      BY <1>3, <2>1, <2>2 DEF PushClient, CanBeJoined, Alive
    <2> QED BY <2>3, <2>4, <2>5
  <1>4. ASSUME NEW p \in Peers, Accept(p) PROVE RInv'
    <2>1. client[p] = "none" /\ \A q \in Peers : peer'[q] # "away" <=> q = p \/ peer[q] # "away"
      BY <1>4 DEF Accept, CanBeJoined, RtspTypeOK
    <2>2. RtspTypeOK' /\ SocketClosedOnce'
      BY <1>4 DEF Accept, RtspTypeOK, SocketClosedOnce
    <2>3. CanBeJoined'
      BY <1>4, <2>1 DEF Accept, CanBeJoined, Alive
    <2> QED BY <2>2, <2>3
  <1> QED BY <1>1, <1>2, <1>3, <1>4 DEF AcceptorStep

(* A client's thread moves on: its connection was accepted, and its socket *)
(* is closed exactly when the thread ends.                                 *)
LEMMA ClientMoves ==
  ASSUME RInv, NEW p \in Peers, NEW from, NEW to \in {"loop", "recv", "leave", "stream",
                                                      "send", "close", "ended"},
         from \notin {"none", "ended"},
         ClientAt(p, from, to),
         closes' = IF to = "ended" THEN [closes EXCEPT ![p] = @ + 1] ELSE closes,
         playing' \subseteq Peers,
         UNCHANGED <<serverSide, acceptSide, peer>>
  PROVE  RInv'
  <1> USE DEF RInv, serverSide, acceptSide
  <1>1. client[p] = from /\ closes[p] = 0 /\ Alive(p)
    BY DEF ClientAt, SocketClosedOnce, Alive
  <1>2. \A q \in Peers : client'[q] = IF q = p THEN to ELSE client[q]
    BY DEF ClientAt, RtspTypeOK
  <1>3. \A q \in Peers : closes'[q] = IF q = p /\ to = "ended" THEN 1 ELSE closes[q]
    BY <1>1 DEF RtspTypeOK
  <1>4. RtspTypeOK'
    BY <1>1, <1>3 DEF ClientAt, RtspTypeOK
  <1>5. SocketClosedOnce'
    BY <1>1, <1>2, <1>3 DEF SocketClosedOnce
  <1>6. CanBeJoined'
    BY <1>1, <1>2 DEF CanBeJoined, Alive
  <1> QED BY <1>4, <1>5, <1>6

LEMMA ClientInv ==
  ASSUME RInv, NEW p \in Peers, NextFrame(p) \/ ClientStep(p) \/ PeerStep(p)
  PROVE  RInv'
  <1> USE DEF ClientAt, clientSide
  <1>0. playing \subseteq Peers
    BY DEF RInv, RtspTypeOK
  <1>1. CASE ClientLoop(p)
    BY <1>0, <1>1, ClientMoves DEF ClientLoop
  <1>2. CASE RequestFails(p)
    BY <1>0, <1>2, ClientMoves DEF RequestFails
  <1>3. CASE ClientLeaves(p)
    BY <1>0, <1>3, ClientMoves DEF ClientLeaves
  <1>4. CASE StreamStops(p)
    BY <1>0, <1>4, ClientMoves DEF StreamStops
  <1>5. CASE SendFails(p)
    BY <1>0, <1>5, ClientMoves DEF SendFails
  <1>6. CASE CloseClient(p)
    BY <1>0, <1>6, ClientMoves DEF CloseClient
  <1>7. CASE NextFrame(p)
    BY <1>0, <1>7, ClientMoves DEF NextFrame
  <1>8. CASE OtherRequest(p)
    BY <1>0, <1>8, ClientMoves DEF OtherRequest
  <1>9. CASE PlayRequest(p)
    BY <1>0, <1>9, ClientMoves DEF PlayRequest
  <1>10. CASE TeardownRequest(p)
    BY <1>0, <1>10, ClientMoves DEF TeardownRequest, AfterTeardown
  <1>11. CASE PeerReads(p)
    BY <1>0, <1>11, ClientMoves DEF PeerReads
  <1>12. CASE PeerLeaves(p)
    BY <1>12 DEF PeerLeaves, RInv, RtspTypeOK, SocketClosedOnce, CanBeJoined, Alive,
                 serverSide, acceptSide
  <1> QED BY <1>1, <1>2, <1>3, <1>4, <1>5, <1>6, <1>7, <1>8, <1>9, <1>10, <1>11, <1>12
         DEF ClientStep, PeerStep

LEMMA RtspNextInv == RInv /\ [RtspNext]_rtspVars => RInv'
  <1> SUFFICES ASSUME RInv, [RtspNext]_rtspVars PROVE RInv'
    OBVIOUS
  <1>1. CASE UNCHANGED rtspVars
    BY <1>1 DEF rtspVars, RInv, RtspTypeOK, SocketClosedOnce, CanBeJoined, Alive
  <1> QED BY <1>1, ServerKeeperInv, AcceptorInv, ClientInv DEF RtspNext

(* Whenever clients come, play, tear down or vanish while the server is    *)
(* started and stopped: once stop() has returned none of its threads is    *)
(* left, and no descriptor was closed twice or forgotten.                  *)
THEOREM StopTakesAllAlong == RtspSpec => []RtspSafe
  <1>1. RInv => RtspSafe
    BY DEF RInv, RtspSafe, CanBeJoined, StopLeavesNoThread
  <1> QED BY <1>1, RtspInitInv, RtspNextInv, PTL DEF RtspSpec

----------------------------------------------------------------------------
(* The event bus and its thread pool *)

BusSpec == EventBusInit /\ [][EventBusNext]_busVars

(* What was begun, what the threads have taken, what waits in the queue    *)
(* and what a publisher still has to deliver are, event by event, in this  *)
(* order; only between the begun and the taken is it each thread's own.    *)
Increasing(s) ==
    \A i, j \in 1 .. Len(s) : i < j /\ s[i][2] = s[j][2] => s[i][1] < s[j][1]
AllBefore(s, t) ==
    \A i \in 1 .. Len(s), j \in 1 .. Len(t) : s[i][2] = t[j][2] => s[i][1] < t[j][1]
UpTo(s, n) == \A i \in 1 .. Len(s) : s[i][2] <= n

Subscribed ==
    /\ \A i \in 1 .. Len(subscribers) : subscribers[i] < nextId
    /\ \A i, j \in 1 .. Len(subscribers) : i < j => subscribers[i] < subscribers[j]

(* A publisher delivers one event, and no other publisher the same. *)
OwnEvents ==
    \A p \in Publishers :
        /\ UpTo(publishing[p], events)
        /\ \A i, j \in 1 .. Len(publishing[p]) : publishing[p][i][2] = publishing[p][j][2]
        /\ \A q \in Publishers \ {p} :
             \A i \in 1 .. Len(publishing[p]), j \in 1 .. Len(publishing[q]) :
               publishing[p][i][2] # publishing[q][j][2]

StagesInOrder ==
    /\ UpTo(tasks, events) /\ Increasing(tasks)
    /\ \A p \in Publishers : Increasing(publishing[p]) /\ AllBefore(tasks, publishing[p])
    /\ \A e \in 1 .. MaxEvents : e > events => called[e] = <<>>
    /\ \A e \in 1 .. MaxEvents : \A i \in 1 .. Len(called[e]), j \in 1 .. Len(tasks) :
         tasks[j][2] = e => called[e][i][1] # tasks[j][1]

TakenInOrder ==
    /\ \A w \in Threads :
         /\ IF workers[w] = "begin" THEN Len(taken[w]) = 1 ELSE taken[w] = <<>>
         /\ UpTo(taken[w], events) /\ AllBefore(taken[w], tasks)
         /\ \A p \in Publishers : AllBefore(taken[w], publishing[p])
         /\ \A e \in 1 .. MaxEvents : \A i \in 1 .. Len(called[e]), j \in 1 .. Len(taken[w]) :
              taken[w][j][2] = e =>
                  /\ called[e][i][1] # taken[w][j][1]
                  /\ called[e][i][2] = w => called[e][i][1] < taken[w][j][1]
    /\ \A v \in Threads, w \in Threads :
         \A i \in 1 .. Len(taken[v]), j \in 1 .. Len(taken[w]) :
           v # w => taken[v][i] # taken[w][j]

(* The pool runs only between init() and shutdown() of the bus. *)
PoolOwned == poolRunning => keeperAt = "idle" /\ busReady

BusInv ==
    /\ BusSafe
    /\ Subscribed /\ OwnEvents /\ StagesInOrder /\ TakenInOrder /\ PoolOwned

LEMMA OneMoreBefore ==
  ASSUME NEW s, NEW longer, NEW t, NEW x, AllBefore(s, t),
         \A i \in 1 .. Len(longer) : (i \in 1 .. Len(s) /\ longer[i] = s[i]) \/ longer[i] = x,
         \A j \in 1 .. Len(t) : t[j][2] = x[2] => x[1] < t[j][1]
  PROVE  AllBefore(longer, t)
  <1> SUFFICES ASSUME NEW i \in 1 .. Len(longer), NEW j \in 1 .. Len(t), longer[i][2] = t[j][2]
               PROVE  longer[i][1] < t[j][1]
    BY DEF AllBefore
  <1>1. CASE i \in 1 .. Len(s) /\ longer[i] = s[i]
    BY <1>1 DEF AllBefore
  <1>2. CASE longer[i] = x
    BY <1>2
  <1> QED BY <1>1, <1>2

LEMMA BusInitInv == EventBusInit => BusInv
  <1> SUFFICES ASSUME EventBusInit PROVE BusInv
    OBVIOUS
  <1> USE EventBusAssumption DEF EventBusInit
  <1>1. EventBusTypeOK
    <2>1. NoThreads \in [Threads -> {"none", "loop", "pop", "begin", "call", "ended"}]
      BY DEF NoThreads
    <2>2. publishing \in [Publishers -> Seq(Task)]
      OBVIOUS
    <2>3. /\ subscribers \in Seq(Subscription) /\ tasks \in Seq(Task)
          /\ taken \in [Threads -> Seq(Task)] /\ called \in [1 .. MaxEvents -> Seq(Call)]
      OBVIOUS
    <2>4. nextId \in 1 .. MaxSubscriptions + 1 /\ events \in 0 .. MaxEvents /\ inits \in 0 .. MaxInits
      OBVIOUS
    <2>5. keeperAt \in {"idle", "close", "join"}
      OBVIOUS
    <2> QED BY <2>1, <2>2, <2>3, <2>4, <2>5 DEF EventBusTypeOK
  <1>2. /\ \A p \in Publishers : publishing[p] = <<>>
        /\ \A e \in 1 .. MaxEvents : called[e] = <<>>
        /\ \A w \in Threads : taken[w] = <<>> /\ workers[w] = "none"
    BY DEF NoThreads
  <1>3. CalledOnce /\ SubscriptionOrder /\ StagesInOrder /\ TakenInOrder
    BY <1>2 DEF CalledOnce, SubscriptionOrder, StagesInOrder, TakenInOrder, Increasing, AllBefore, UpTo
  <1> QED
    BY <1>1, <1>2, <1>3 DEF BusInv, BusSafe, NoThreadAfterShutdown, Subscribed, OwnEvents,
       PoolOwned, UpTo

----------------------------------------------------------------------------
queuesVars == <<tasks, publishing, events, calledVars>>

(* Steps that touch no task: what a thread has taken stays with it. *)
KeepsTaking ==
    \A w \in Threads : workers'[w] = "begin" <=> workers[w] = "begin"

LEMMA QueuesUntouched ==
  ASSUME BusInv, UNCHANGED queuesVars, KeepsTaking
  PROVE  (CalledOnce /\ SubscriptionOrder /\ OwnEvents /\ StagesInOrder /\ TakenInOrder)'
  <1>1. (CalledOnce /\ SubscriptionOrder /\ OwnEvents)'
    BY DEF BusInv, BusSafe, queuesVars, calledVars, CalledOnce, SubscriptionOrder, OwnEvents, UpTo
  <1>3. StagesInOrder'
    BY DEF BusInv, queuesVars, calledVars, StagesInOrder, Increasing, AllBefore, UpTo
  <1>2. TakenInOrder'
    BY DEF BusInv, queuesVars, calledVars, TakenInOrder, KeepsTaking, AllBefore, UpTo
  <1> QED BY <1>1, <1>2, <1>3

LEMMA BusKeeperInv ==
  ASSUME BusInv, \/ \E a \in BOOLEAN, size \in PoolSizes : BusInit(a, size)
                 \/ Shutdown \/ KeeperClosing
  PROVE  BusInv'
  <1> USE EventBusAssumption DEF ownVars, poolVars, NoThreadAfterShutdown, PoolOwned, Subscribed
  <1>1. ASSUME NEW a \in BOOLEAN, NEW size \in PoolSizes, BusInit(a, size)
        PROVE  EventBusTypeOK' /\ Subscribed' /\ NoThreadAfterShutdown' /\ PoolOwned'
    <2>1. workers' \in [Threads -> {"none", "loop", "pop", "begin", "call", "ended"}]
      BY <1>1 DEF BusInit, BusInv, BusSafe, EventBusTypeOK
    <2>2. EventBusTypeOK'
      BY <1>1, <2>1 DEF BusInit, BusInv, BusSafe, EventBusTypeOK, calledVars
    <2>3. CASE a /\ ~(size > 0)
      <3>1. \A w \in Threads : ~(w <= size)
        BY <2>3 DEF Threads
      <3>2. workers' = NoThreads
        BY <1>1, <2>3, <3>1 DEF BusInit, NoThreads
      <3> QED BY <1>1, <2>2, <2>3, <3>2 DEF BusInit, BusInv, BusSafe, NoThreads
    <2>4. CASE ~a
      BY <1>1, <2>2, <2>4 DEF BusInit, BusInv, BusSafe, NoThreads
    <2>5. CASE a /\ size > 0
      BY <1>1, <2>2, <2>5 DEF BusInit, BusInv, BusSafe, NoThreads
    <2> QED BY <2>3, <2>4, <2>5
  <1>2. ASSUME Shutdown
       PROVE EventBusTypeOK' /\ Subscribed' /\ NoThreadAfterShutdown' /\ PoolOwned'
    <2>1. subscribers' \in Seq(Subscription) /\ keeperAt' \in {"idle", "close", "join"}
      BY <1>2 DEF Shutdown
    <2>2. EventBusTypeOK'
      BY <1>2, <2>1 DEF Shutdown, BusInv, BusSafe, EventBusTypeOK, calledVars
    <2>3. Subscribed'
      BY <1>2 DEF Shutdown
    <2> QED BY <1>2, <2>2, <2>3 DEF Shutdown, BusInv, BusSafe, EventBusTypeOK, NoThreads
  <1>3. ASSUME CloseTasks
       PROVE EventBusTypeOK' /\ Subscribed' /\ NoThreadAfterShutdown' /\ PoolOwned'
    BY <1>3 DEF CloseTasks, Closed, BusInv, BusSafe, EventBusTypeOK, calledVars
  <1>4. ASSUME JoinWorkers
       PROVE EventBusTypeOK' /\ Subscribed' /\ NoThreadAfterShutdown' /\ PoolOwned'
    <2>1. workers' = NoThreads
      BY <1>4 DEF JoinWorkers, Joinable, NoThreads
    <2>2. NoThreads \in [Threads -> {"none", "loop", "pop", "begin", "call", "ended"}]
      BY DEF NoThreads
    <2> QED BY <1>4, <2>1, <2>2 DEF JoinWorkers, BusInv, BusSafe, EventBusTypeOK, NoThreads, calledVars
  <1>5. UNCHANGED queuesVars
    BY DEF BusInit, Shutdown, KeeperClosing, CloseTasks, JoinWorkers, queuesVars, calledVars
  <1>6. KeepsTaking
    <2>1. ASSUME NEW a \in BOOLEAN, NEW size \in PoolSizes, BusInit(a, size) PROVE KeepsTaking
      <3>1. workers = NoThreads
        BY <2>1 DEF BusInit, BusInv, BusSafe
      <3>2. \A w \in Threads : workers'[w] \in {"none", "loop"}
        BY <2>1, <3>1 DEF BusInit, NoThreads
      <3> QED BY <3>1, <3>2 DEF KeepsTaking, NoThreads
    <2>2. CASE Shutdown \/ CloseTasks
      BY <2>2 DEF Shutdown, CloseTasks, KeepsTaking
    <2>3. CASE JoinWorkers
      BY <2>3 DEF JoinWorkers, Joinable, KeepsTaking
    <2> QED BY <2>1, <2>2, <2>3 DEF KeeperClosing
  <1> QED
    BY <1>1, <1>2, <1>3, <1>4, <1>5, <1>6, QueuesUntouched DEF KeeperClosing, BusInv, BusSafe

(* A sequence without one of its elements. *)
LEMMA WithoutOne ==
  ASSUME NEW S, NEW s \in Seq(S), NEW i \in 1 .. Len(s),
         NEW t, t = SubSeq(s, 1, i - 1) \o SubSeq(s, i + 1, Len(s))
  PROVE  /\ t \in Seq(S) /\ Len(t) = Len(s) - 1
         /\ \A j \in 1 .. Len(s) - 1 : t[j] = IF j < i THEN s[j] ELSE s[j + 1]
  <1> DEFINE u == SubSeq(s, 1, i - 1)
             v == SubSeq(s, i + 1, Len(s))
  <1>1. u \in Seq(S) /\ Len(u) = i - 1 /\ \A j \in 1 .. i - 1 : u[j] = s[j]
    BY SubSeqProperties
  <1>2. v \in Seq(S) /\ Len(v) = Len(s) - i /\ \A j \in 1 .. Len(s) - i : v[j] = s[i + j]
    BY SubSeqProperties
  <1> HIDE DEF u, v
  <1>3. t = u \o v
    BY DEF u, v
  <1>4. /\ u \o v \in Seq(S) /\ Len(u \o v) = Len(u) + Len(v)
        /\ \A j \in 1 .. Len(u) + Len(v) : (u \o v)[j] = IF j <= Len(u) THEN u[j] ELSE v[j - Len(u)]
    BY <1>1, <1>2, ConcatProperties, Zenon
  <1>5. Len(s) \in Nat /\ Len(u) + Len(v) = Len(s) - 1
    BY <1>1, <1>2
  <1>6. t \in Seq(S) /\ Len(t) = Len(s) - 1
    BY <1>3, <1>4, <1>5
  <1>7. ASSUME NEW j \in 1 .. Len(s) - 1 PROVE t[j] = IF j < i THEN s[j] ELSE s[j + 1]
    <2>1. t[j] = IF j <= i - 1 THEN u[j] ELSE v[j - (i - 1)]
      BY <1>1, <1>3, <1>4, <1>5
    <2>2. CASE j < i
      <3>1. j <= i - 1 /\ j \in 1 .. i - 1
        BY <1>5, <2>2
      <3>2. t[j] = s[j]
        BY <1>1, <2>1, <3>1
      <3> QED BY <2>2, <3>2
    <2>3. CASE ~(j < i)
      <3>1. ~(j <= i - 1) /\ j - (i - 1) \in 1 .. Len(s) - i /\ i + (j - (i - 1)) = j + 1
        BY <2>3, <1>5
      <3>2. t[j] = v[j - (i - 1)]
        BY <2>1, <3>1
      <3>3. v[j - (i - 1)] = s[j + 1]
        BY <1>2, <3>1
      <3> QED BY <2>3, <3>2, <3>3
    <2> QED BY <2>2, <2>3
  <1> QED BY <1>6, <1>7

LEMMA SubscribersInv ==
  ASSUME BusInv, Subscribe \/ \E i \in Subscription : Unsubscribe(i)
  PROVE  BusInv'
  <1> USE EventBusAssumption DEF ownVars, poolVars
  <1>1. subscribers \in Seq(Subscription) /\ nextId \in 1 .. MaxSubscriptions + 1 /\ Subscribed
    BY DEF BusInv, BusSafe, EventBusTypeOK
  <1>2. CASE Subscribe
    <2>1. subscribers' \in Seq(Subscription) /\ nextId' \in 1 .. MaxSubscriptions + 1
      BY <1>1, <1>2 DEF Subscribe, Subscription
    <2>2. Subscribed'
      BY <1>1, <1>2 DEF Subscribe, Subscription, Subscribed
    <2> QED
      BY <1>2, <2>1, <2>2, QueuesUntouched DEF Subscribe, queuesVars, calledVars, KeepsTaking, BusInv, BusSafe,
         EventBusTypeOK, NoThreadAfterShutdown, PoolOwned, NoThreads
  <1>3. ASSUME NEW i \in Subscription, Unsubscribe(i) PROVE BusInv'
    <2> DEFINE n == Len(subscribers)
    <2>1. n \in Nat /\ i \in 1 .. n /\ i \in Nat
      BY <1>1, <1>3 DEF Unsubscribe, Subscription
    <2>2. subscribers' = SubSeq(subscribers, 1, i - 1) \o SubSeq(subscribers, i + 1, n)
      BY <1>3 DEF Unsubscribe
    <2>4. subscribers' \in Seq(Subscription) /\ Len(subscribers') = n - 1
          /\ \A j \in 1 .. n - 1 : subscribers'[j] = IF j < i THEN subscribers[j] ELSE subscribers[j + 1]
      <3> HIDE DEF n
      <3>1. i \in 1 .. Len(subscribers) /\ n = Len(subscribers)
        BY <2>1 DEF n
      <3>2. subscribers' = SubSeq(subscribers, 1, i - 1) \o SubSeq(subscribers, i + 1, Len(subscribers))
        BY <2>2, <3>1
      <3>3. \A t : t = SubSeq(subscribers, 1, i - 1) \o SubSeq(subscribers, i + 1, Len(subscribers)) =>
              /\ t \in Seq(Subscription) /\ Len(t) = Len(subscribers) - 1
              /\ \A j \in 1 .. Len(subscribers) - 1 : t[j] = IF j < i THEN subscribers[j] ELSE subscribers[j + 1]
        BY <1>1, <3>1, WithoutOne, Zenon
      <3> QED BY <3>1, <3>2, <3>3, Zenon
    <2>6. Subscribed'
      <3>1. nextId' = nextId
        BY <1>3 DEF Unsubscribe
      <3>2. ASSUME NEW j \in 1 .. n - 1
            PROVE  \E k \in {j, j + 1} : k \in 1 .. n /\ subscribers'[j] = subscribers[k]
                                       /\ (j < i => k = j) /\ (j >= i => k = j + 1)
        BY <2>1, <2>4
      <3>3. \A j \in 1 .. n : subscribers[j] \in Nat
        BY <1>1 DEF Subscription
      <3>4. ASSUME NEW j \in 1 .. n - 1, NEW k \in 1 .. n - 1, j < k
            PROVE  subscribers'[j] < subscribers'[k]
        <4>1. PICK a \in {j, j + 1} : a \in 1 .. n /\ subscribers'[j] = subscribers[a]
                                     /\ (j < i => a = j) /\ (j >= i => a = j + 1)
          BY <3>2
        <4>2. PICK b \in {k, k + 1} : b \in 1 .. n /\ subscribers'[k] = subscribers[b]
                                     /\ (k < i => b = k) /\ (k >= i => b = k + 1)
          BY <3>2
        <4>3. a < b
          BY <2>1, <3>4, <4>1, <4>2
        <4> QED BY <1>1, <4>1, <4>2, <4>3 DEF Subscribed
      <3> QED BY <1>1, <2>4, <3>1, <3>2, <3>4 DEF Subscribed
    <2> QED
      BY <1>3, <2>4, <2>6, QueuesUntouched DEF Unsubscribe, queuesVars, calledVars, KeepsTaking, BusInv, BusSafe,
         EventBusTypeOK, NoThreadAfterShutdown, PoolOwned, NoThreads
  <1> QED BY <1>2, <1>3

LEMMA WorkerMoves ==
  ASSUME BusInv, NEW w \in Threads, NEW from \in {"loop", "pop", "begin", "call"},
         NEW to \in {"loop", "pop", "begin", "call", "ended"}, WorkerAt(w, from, to),
         UNCHANGED <<poolRunning, keeperAt, busReady>>
  PROVE  /\ workers' \in [Threads -> {"none", "loop", "pop", "begin", "call", "ended"}]
         /\ NoThreadAfterShutdown' /\ PoolOwned'
  BY DEF BusInv, BusSafe, EventBusTypeOK, WorkerAt, NoThreadAfterShutdown, PoolOwned, NoThreads

(* The steps of a thread between the callbacks. *)
LEMMA WorkerInv ==
  ASSUME BusInv, NEW w \in Threads, WorkerLoop(w) \/ WorkerFindsClosed(w) \/ CallReturned(w)
  PROVE  BusInv'
  <1> USE DEF ownVars, poolVars
  <1>1. UNCHANGED <<queuesVars, ownVars, poolRunning, tasksClosed>>
    BY DEF WorkerLoop, WorkerFindsClosed, CallReturned, queuesVars, calledVars
  <1>2. /\ workers' \in [Threads -> {"none", "loop", "pop", "begin", "call", "ended"}]
        /\ NoThreadAfterShutdown' /\ PoolOwned'
    BY <1>1, WorkerMoves DEF WorkerLoop, WorkerFindsClosed, CallReturned, AfterCall
  <1>3. EventBusTypeOK' /\ Subscribed'
    BY <1>1, <1>2 DEF BusInv, BusSafe, EventBusTypeOK, Subscribed, queuesVars, calledVars
  <1>4. KeepsTaking
    BY DEF WorkerLoop, WorkerFindsClosed, CallReturned, AfterCall, WorkerAt, KeepsTaking,
       BusInv, BusSafe, EventBusTypeOK
  <1> QED BY <1>1, <1>2, <1>3, <1>4, QueuesUntouched DEF BusInv, BusSafe

----------------------------------------------------------------------------
(* Steps that move tasks on. *)
LEMMA PublishInv ==
  ASSUME BusInv, NEW p \in Publishers, Publish(p)
  PROVE  BusInv'
  <1> USE EventBusAssumption
  <1> DEFINE new == [k \in 1 .. Len(subscribers) |-> <<subscribers[k], events + 1>>]
  <1>1. EventBusTypeOK /\ Subscribed /\ OwnEvents /\ StagesInOrder
    BY DEF BusInv, BusSafe
  <1>2. /\ publishing' = [publishing EXCEPT ![p] = new] /\ publishing[p] = <<>>
        /\ events < MaxEvents /\ events' = events + 1 /\ events \in Nat
        /\ UNCHANGED <<ownVars, poolVars, calledVars>>
    BY <1>1 DEF Publish, EventBusTypeOK
  <1>3. Len(subscribers) \in Nat /\ \A k \in 1 .. Len(subscribers) : subscribers[k] \in Subscription
    BY <1>1 DEF EventBusTypeOK
  <1>4. new \in Seq(Task) /\ Len(new) = Len(subscribers)
        /\ \A k \in 1 .. Len(new) : new[k][1] = subscribers[k] /\ new[k][2] = events + 1
    <2>3. events + 1 \in 1 .. MaxEvents
      BY <1>1, <1>2 DEF EventBusTypeOK
    <2>1. \A k \in 1 .. Len(subscribers) : <<subscribers[k], events + 1>> \in Task
      BY <1>3, <2>3 DEF Task
    <2>2. new \in Seq(Task)
      BY <1>3, <2>1, IsASeq
    <2> QED BY <1>3, <2>2
  <1> HIDE DEF new
  <1>5. /\ publishing' \in [Publishers -> Seq(Task)] /\ publishing'[p] = new
        /\ \A q \in Publishers \ {p} : publishing'[q] = publishing[q]
    BY <1>1, <1>2, <1>4 DEF EventBusTypeOK
  <1>6. EventBusTypeOK'
    BY <1>1, <1>2, <1>5 DEF EventBusTypeOK, ownVars, poolVars, calledVars
  <1>7. \A q \in Publishers : publishing[q] \in Seq(Task) /\ Len(publishing[q]) \in Nat
    BY <1>1 DEF EventBusTypeOK
  <1>8. \A q \in Publishers : \A i \in 1 .. Len(publishing[q]) : publishing[q][i] \in Task
    BY <1>7, ElementOfSeq
  <1>9. OwnEvents'
    <2>1. \A q \in Publishers : \A i \in 1 .. Len(publishing[q]) :
             publishing[q][i][2] <= events /\ publishing[q][i][2] \in Nat
      BY <1>1, <1>8 DEF OwnEvents, UpTo, Task
    <2>2. ASSUME NEW q \in Publishers PROVE UpTo(publishing'[q], events')
      BY <1>2, <1>4, <1>5, <2>1 DEF UpTo
    <2>3. ASSUME NEW q \in Publishers, NEW i \in 1 .. Len(publishing'[q]), NEW j \in 1 .. Len(publishing'[q])
          PROVE  publishing'[q][i][2] = publishing'[q][j][2]
      <3>1. CASE q = p
        BY <1>4, <1>5, <3>1
      <3>2. CASE q # p
        BY <1>1, <1>5, <3>2 DEF OwnEvents
      <3> QED BY <3>1, <3>2
    <2>4. ASSUME NEW q \in Publishers, NEW r \in Publishers \ {q},
                 NEW i \in 1 .. Len(publishing'[q]), NEW j \in 1 .. Len(publishing'[r])
          PROVE  publishing'[q][i][2] # publishing'[r][j][2]
      <3>1. CASE q # p /\ r # p
        BY <1>1, <1>5, <3>1 DEF OwnEvents
      <3>2. CASE q = p
        BY <1>2, <1>4, <1>5, <2>1, <3>2
      <3>3. CASE r = p
        BY <1>2, <1>4, <1>5, <2>1, <3>3
      <3> QED BY <3>1, <3>2, <3>3
    <2> QED BY <2>2, <2>3, <2>4 DEF OwnEvents
  <1>10. /\ \A i \in 1 .. Len(tasks) : tasks[i][2] <= events /\ tasks[i][2] \in Nat
         /\ \A w \in Threads : \A i \in 1 .. Len(taken[w]) :
              taken[w][i][2] <= events /\ taken[w][i][2] \in Nat
    <2>1. tasks \in Seq(Task) /\ \A w \in Threads : taken[w] \in Seq(Task)
      BY <1>1 DEF EventBusTypeOK
    <2>2. (\A i \in 1 .. Len(tasks) : tasks[i] \in Task)
          /\ \A w \in Threads : \A i \in 1 .. Len(taken[w]) : taken[w][i] \in Task
      BY <2>1, ElementOfSeq
    <2>3. TakenInOrder
      BY DEF BusInv
    <2> QED BY <1>1, <2>2, <2>3 DEF StagesInOrder, TakenInOrder, UpTo, Task
  <1>11. StagesInOrder'
    <2>1. Increasing(new)
      BY <1>1, <1>4 DEF Increasing, Subscribed
    <2>2. AllBefore(tasks, new)
      <3> SUFFICES ASSUME NEW i \in 1 .. Len(tasks), NEW j \in 1 .. Len(new), tasks[i][2] = new[j][2]
                   PROVE  FALSE
        BY DEF AllBefore
      <3>1. tasks[i][2] <= events /\ tasks[i][2] \in Nat
        BY <1>10
      <3> QED BY <1>2, <1>4, <3>1
    <2>3. \A q \in Publishers : Increasing(publishing'[q]) /\ AllBefore(tasks, publishing'[q])
      BY <1>1, <1>5, <2>1, <2>2 DEF StagesInOrder
    <2>4. UpTo(tasks', events')
      BY <1>2, <1>10 DEF UpTo, poolVars
    <2>5. \A e \in 1 .. MaxEvents : e > events' => called'[e] = <<>>
      BY <1>1, <1>2 DEF StagesInOrder, calledVars
    <2> QED BY <1>1, <1>2, <2>3, <2>4, <2>5 DEF StagesInOrder, poolVars, calledVars, Increasing
  <1>12. TakenInOrder'
    <2>1. ASSUME NEW w \in Threads, NEW q \in Publishers PROVE AllBefore(taken[w], publishing'[q])
      <3>1. AllBefore(taken[w], new)
        BY <1>2, <1>4, <1>10 DEF AllBefore
      <3> QED BY <1>5, <3>1 DEF BusInv, TakenInOrder
    <2>2. ASSUME NEW w \in Threads PROVE UpTo(taken[w], events')
      BY <1>2, <1>10 DEF UpTo
    <2> QED BY <1>2, <2>1, <2>2 DEF BusInv, TakenInOrder, poolVars, calledVars, AllBefore
  <1>13. CalledOnce' /\ SubscriptionOrder'
    <2>1. UNCHANGED <<tasks, called>>
      BY <1>2 DEF poolVars, calledVars
    <2>2. ASSUME NEW e \in 1 .. MaxEvents, NEW i \in 1 .. Len(called[e]), NEW q \in Publishers,
                 NEW j \in 1 .. Len(publishing'[q]), publishing'[q][j][2] = e
          PROVE  called[e][i][1] < publishing'[q][j][1]
      <3>1. q # p
        <4>1. CASE q = p
          <5>1. e = events + 1
            BY <1>4, <1>5, <2>2, <4>1
          <5>2. called[e] = <<>>
            BY <1>1, <1>2, <5>1 DEF StagesInOrder
          <5> QED BY <2>2, <5>2
        <4> QED BY <4>1
      <3> QED BY <1>5, <2>2, <3>1 DEF BusInv, BusSafe, SubscriptionOrder
    <2> QED BY <2>1, <2>2 DEF BusInv, BusSafe, CalledOnce, SubscriptionOrder
  <1> QED
    BY <1>2, <1>6, <1>9, <1>11, <1>12, <1>13 DEF BusInv, BusSafe, ownVars, poolVars, calledVars,
       NoThreadAfterShutdown, Subscribed, PoolOwned, NoThreads

(* A call that is begun comes last of its event's, and is compared with    *)
(* those before it.                                                        *)
LEMMA BegunLast ==
  ASSUME EventBusTypeOK, CalledOnce, NEW x \in Task, NEW c \in Threads \cup {Publisher},
         called' = Begun(x, c),
         \A i \in 1 .. Len(called[x[2]]) :
           /\ called[x[2]][i][1] # x[1]
           /\ called[x[2]][i][2] = c => called[x[2]][i][1] < x[1],
         \A e \in 1 .. MaxEvents : \A i, j \in 1 .. Len(called[e]) :
           i < j /\ called[e][i][2] = called[e][j][2] => called[e][i][1] < called[e][j][1]
  PROVE  /\ called' \in [1 .. MaxEvents -> Seq(Call)]
         /\ \A e \in 1 .. MaxEvents : e # x[2] => called'[e] = called[e]
         /\ \A e \in 1 .. MaxEvents : \A i \in 1 .. Len(called'[e]) :
              \/ i \in 1 .. Len(called[e]) /\ called'[e][i] = called[e][i]
              \/ e = x[2] /\ called'[e][i][1] = x[1] /\ called'[e][i][2] = c
         /\ CalledOnce'
         /\ \A e \in 1 .. MaxEvents : \A i, j \in 1 .. Len(called'[e]) :
              i < j /\ called'[e][i][2] = called'[e][j][2] => called'[e][i][1] < called'[e][j][1]
  <1> DEFINE y == <<x[1], c>>
             f == x[2]
  <1>1. /\ called \in [1 .. MaxEvents -> Seq(Call)] /\ f \in 1 .. MaxEvents
        /\ called' = [called EXCEPT ![f] = Append(called[f], y)]
        /\ y \in Call /\ y[1] = x[1] /\ y[2] = c
    BY DEF EventBusTypeOK, Task, Call, Begun
  <1> HIDE DEF y, f
  <1>2. /\ called[f] \in Seq(Call) /\ Len(called[f]) \in Nat
        /\ Append(called[f], y) \in Seq(Call) /\ Len(Append(called[f], y)) = Len(called[f]) + 1
        /\ Append(called[f], y)[Len(called[f]) + 1] = y
        /\ \A i \in 1 .. Len(called[f]) : Append(called[f], y)[i] = called[f][i]
    BY <1>1
  <1>3. /\ called' \in [1 .. MaxEvents -> Seq(Call)] /\ called'[f] = Append(called[f], y)
        /\ \A e \in 1 .. MaxEvents : e # f => called'[e] = called[e]
    BY <1>1, <1>2
  <1>4. ASSUME NEW e \in 1 .. MaxEvents, NEW i \in 1 .. Len(called'[e])
        PROVE  \/ i \in 1 .. Len(called[e]) /\ called'[e][i] = called[e][i]
               \/ e = f /\ i = Len(called[f]) + 1 /\ called'[e][i] = y
    <2>1. CASE e = f
      BY <1>2, <1>3, <2>1
    <2>2. CASE e # f
      BY <1>3, <2>2
    <2> QED BY <2>1, <2>2
  <1>5. \A i \in 1 .. Len(called[f]) :
          called[f][i][1] # y[1] /\ (called[f][i][2] = y[2] => called[f][i][1] < y[1])
    BY <1>1 DEF f
  <1>6. CalledOnce'
    <2> SUFFICES ASSUME NEW e \in 1 .. MaxEvents, NEW i \in 1 .. Len(called'[e]),
                        NEW j \in 1 .. Len(called'[e]), i # j
                 PROVE  called'[e][i][1] # called'[e][j][1]
      BY DEF CalledOnce
    <2>1. CASE i \in 1 .. Len(called[e]) /\ called'[e][i] = called[e][i]
               /\ j \in 1 .. Len(called[e]) /\ called'[e][j] = called[e][j]
      BY <2>1 DEF CalledOnce
    <2>2. CASE e = f /\ called'[e][i] = y /\ j \in 1 .. Len(called[e]) /\ called'[e][j] = called[e][j]
      BY <1>5, <2>2
    <2>3. CASE e = f /\ called'[e][j] = y /\ i \in 1 .. Len(called[e]) /\ called'[e][i] = called[e][i]
      BY <1>5, <2>3
    <2> QED BY <1>4, <2>1, <2>2, <2>3
  <1>7. ASSUME NEW e \in 1 .. MaxEvents, NEW i \in 1 .. Len(called'[e]), NEW j \in 1 .. Len(called'[e]),
               i < j, called'[e][i][2] = called'[e][j][2]
        PROVE  called'[e][i][1] < called'[e][j][1]
    <2>1. CASE i \in 1 .. Len(called[e]) /\ called'[e][i] = called[e][i]
               /\ j \in 1 .. Len(called[e]) /\ called'[e][j] = called[e][j]
      BY <1>7, <2>1
    <2>2. CASE e = f /\ called'[e][j] = y /\ i \in 1 .. Len(called[e]) /\ called'[e][i] = called[e][i]
      BY <1>5, <1>7, <2>2
    <2>3. CASE i = Len(called[f]) + 1 /\ e = f
      BY <1>2, <1>3, <1>7, <2>3
    <2> QED BY <1>4, <2>1, <2>2, <2>3
  <1> QED BY <1>1, <1>3, <1>4, <1>6, <1>7 DEF f

LEMMA PopInv ==
  ASSUME BusInv, NEW w \in Threads, WorkerPops(w)
  PROVE  BusInv'
  <1>1. EventBusTypeOK /\ StagesInOrder /\ TakenInOrder /\ SubscriptionOrder
    BY DEF BusInv, BusSafe
  <1>2. /\ tasks # <<>> /\ tasks \in Seq(Task)
        /\ taken' = [taken EXCEPT ![w] = <<Head(tasks)>>] /\ tasks' = Tail(tasks)
        /\ UNCHANGED <<ownVars, poolRunning, tasksClosed, publishing, events, called>>
    BY <1>1 DEF WorkerPops, Rest, EventBusTypeOK
  <1>3. /\ workers' \in [Threads -> {"none", "loop", "pop", "begin", "call", "ended"}]
        /\ NoThreadAfterShutdown' /\ PoolOwned'
    BY <1>2, WorkerMoves DEF WorkerPops, ownVars
  <1>4. /\ Len(tasks) \in Nat /\ 1 \in 1 .. Len(tasks) /\ Head(tasks) = tasks[1] /\ tasks[1] \in Task
        /\ tasks' \in Seq(Task) /\ Len(tasks') = Len(tasks) - 1
        /\ \A i \in 1 .. Len(tasks') : tasks'[i] = tasks[i + 1] /\ i + 1 \in 1 .. Len(tasks) /\ 1 < i + 1
    BY <1>2
  <1>5. /\ taken' \in [Threads -> Seq(Task)] /\ taken'[w] = <<tasks[1]>>
        /\ \A v \in Threads \ {w} : taken'[v] = taken[v]
    BY <1>1, <1>2, <1>4 DEF EventBusTypeOK
  <1>6. EventBusTypeOK'
    BY <1>1, <1>2, <1>3, <1>4, <1>5 DEF EventBusTypeOK, ownVars
  <1>7. ASSUME NEW v \in Threads, NEW i \in 1 .. Len(taken'[v])
        PROVE  \/ v # w /\ taken'[v] = taken[v] /\ i \in 1 .. Len(taken[v]) /\ taken'[v][i] = taken[v][i]
               \/ v = w /\ taken'[v][i] = tasks[1]
    BY <1>5
  <1>8. /\ CalledOnce' /\ SubscriptionOrder' /\ OwnEvents'
    BY <1>1, <1>2, <1>4 DEF BusInv, BusSafe, CalledOnce, SubscriptionOrder, OwnEvents, UpTo
  <1>9. StagesInOrder'
    <2>1. UpTo(tasks', events')
      BY <1>1, <1>2, <1>4 DEF StagesInOrder, UpTo
    <2>2. Increasing(tasks')
      BY <1>1, <1>4, SMTT(30) DEF StagesInOrder, Increasing
    <2>3. ASSUME NEW p \in Publishers
          PROVE  Increasing(publishing'[p]) /\ AllBefore(tasks', publishing'[p])
      BY <1>1, <1>2, <1>4 DEF StagesInOrder, AllBefore
    <2>4. \A e \in 1 .. MaxEvents : e > events' => called'[e] = <<>>
      BY <1>1, <1>2 DEF StagesInOrder
    <2>5. \A e \in 1 .. MaxEvents : \A i \in 1 .. Len(called'[e]), j \in 1 .. Len(tasks') :
            tasks'[j][2] = e => called'[e][i][1] # tasks'[j][1]
      BY <1>1, <1>2, <1>4 DEF StagesInOrder
    <2> QED BY <2>1, <2>2, <2>3, <2>4, <2>5 DEF StagesInOrder
  <1>10. ASSUME NEW j \in 1 .. Len(tasks'), tasks'[j][2] = tasks[1][2]
         PROVE  tasks[1][1] < tasks'[j][1]
    BY <1>1, <1>4, <1>10 DEF StagesInOrder, Increasing
  <1>11. ASSUME NEW v \in Threads
         PROVE  /\ IF workers'[v] = "begin" THEN Len(taken'[v]) = 1 ELSE taken'[v] = <<>>
                /\ UpTo(taken'[v], events') /\ AllBefore(taken'[v], tasks')
                /\ \A p \in Publishers : AllBefore(taken'[v], publishing'[p])
                /\ \A e \in 1 .. MaxEvents : \A i \in 1 .. Len(called'[e]), j \in 1 .. Len(taken'[v]) :
                     taken'[v][j][2] = e =>
                         /\ called'[e][i][1] # taken'[v][j][1]
                         /\ called'[e][i][2] = v => called'[e][i][1] < taken'[v][j][1]
    <2>1. CASE v = w
      <3>1. workers'[w] = "begin"
        BY <1>1 DEF WorkerPops, WorkerAt, EventBusTypeOK
      <3>2. w # Publisher
        BY EventBusAssumption DEF Threads, Publisher
      <3>3. Len(taken'[v]) = 1 /\ taken'[v][1] = tasks[1] /\ \A i \in 1 .. Len(taken'[v]) : i = 1
        <4> DEFINE x == tasks[1]
        <4>1. taken'[v] = <<x>>
          BY <1>5, <2>1
        <4> HIDE DEF x
        <4>2. Len(<<x>>) = 1 /\ <<x>>[1] = x
          OBVIOUS
        <4> QED BY <4>1, <4>2 DEF x
      <3>4. UpTo(taken'[v], events')
        BY <1>1, <1>2, <1>4, <3>3 DEF StagesInOrder, UpTo
      <3>5. AllBefore(taken'[v], tasks')
        BY <1>10, <3>3 DEF AllBefore
      <3>6. ASSUME NEW p \in Publishers PROVE AllBefore(taken'[v], publishing'[p])
        <4>1. AllBefore(tasks, publishing[p]) /\ publishing' = publishing
          BY <1>1, <1>2 DEF StagesInOrder
        <4> QED BY <1>4, <3>3, <4>1 DEF AllBefore
      <3>7. ASSUME NEW e \in 1 .. MaxEvents, NEW i \in 1 .. Len(called[e]), tasks[1][2] = e
            PROVE  called[e][i][1] # tasks[1][1] /\ (called[e][i][2] = v => called[e][i][1] < tasks[1][1])
        BY <1>1, <1>4, <2>1, <3>2, <3>7 DEF StagesInOrder, SubscriptionOrder
      <3>8. called' = called /\ workers'[v] = "begin"
        BY <1>2, <2>1, <3>1
      <3>9. ASSUME NEW e \in 1 .. MaxEvents, NEW i \in 1 .. Len(called'[e]), NEW j \in 1 .. Len(taken'[v]),
                   taken'[v][j][2] = e
            PROVE  /\ called'[e][i][1] # taken'[v][j][1]
                   /\ called'[e][i][2] = v => called'[e][i][1] < taken'[v][j][1]
        <4>1. taken'[v][j] = tasks[1] /\ i \in 1 .. Len(called[e])
          BY <3>3, <3>8
        <4> QED BY <3>7, <3>8, <3>9, <4>1
      <3> QED BY <3>3, <3>4, <3>5, <3>6, <3>8, <3>9
    <2>2. CASE v # w
      <3>1. taken'[v] = taken[v] /\ (workers'[v] = "begin" <=> workers[v] = "begin")
        BY <1>1, <1>5, <2>2 DEF WorkerPops, WorkerAt, EventBusTypeOK
      <3>2. AllBefore(taken'[v], tasks')
        <4>1. AllBefore(taken[v], tasks)
          BY <1>1 DEF TakenInOrder
        <4> QED BY <1>4, <3>1, <4>1 DEF AllBefore
      <3>3. UNCHANGED <<publishing, events, called>>
        BY <1>2
      <3>4. /\ IF workers[v] = "begin" THEN Len(taken[v]) = 1 ELSE taken[v] = <<>>
            /\ UpTo(taken[v], events)
            /\ \A p \in Publishers : AllBefore(taken[v], publishing[p])
            /\ \A e \in 1 .. MaxEvents : \A i \in 1 .. Len(called[e]), j \in 1 .. Len(taken[v]) :
                 taken[v][j][2] = e =>
                     /\ called[e][i][1] # taken[v][j][1]
                     /\ called[e][i][2] = v => called[e][i][1] < taken[v][j][1]
        BY <1>1 DEF TakenInOrder
      <3> QED BY <3>1, <3>2, <3>3, <3>4
    <2> QED BY <2>1, <2>2
  <1>12. ASSUME NEW v \in Threads, NEW u \in Threads, v # u,
                NEW i \in 1 .. Len(taken'[v]), NEW j \in 1 .. Len(taken'[u])
         PROVE  taken'[v][i] # taken'[u][j]
    <2>1. ASSUME NEW t \in Threads, NEW k \in 1 .. Len(taken[t]) PROVE taken[t][k] # tasks[1]
      <3>1. taken[t][k][2] = tasks[1][2] => taken[t][k][1] < tasks[1][1]
        BY <1>1, <1>4 DEF TakenInOrder, AllBefore
      <3>2. tasks[1][1] \in Nat
        BY <1>4 DEF Task, Subscription
      <3> QED BY <3>1, <3>2
    <2>2. CASE v # w /\ u # w
      BY <1>1, <1>5, <1>12, <2>2 DEF TakenInOrder
    <2>3. CASE v = w /\ u # w
      BY <1>7, <2>1, <2>3
    <2>4. CASE v # w /\ u = w
      BY <1>7, <2>1, <2>4
    <2> QED BY <1>12, <2>2, <2>3, <2>4
  <1>13. TakenInOrder'
    BY <1>11, <1>12 DEF TakenInOrder
  <1> QED
    BY <1>2, <1>3, <1>6, <1>8, <1>9, <1>13 DEF BusInv, BusSafe, Subscribed, ownVars

(* The call of what was taken: what another thread took may be earlier and *)
(* still to begin.                                                         *)
LEMMA BeginInv ==
  ASSUME BusInv, NEW w \in Threads, CallBegins(w)
  PROVE  BusInv'
  <1> DEFINE x == taken[w][1]
  <1>1. EventBusTypeOK /\ StagesInOrder /\ TakenInOrder /\ SubscriptionOrder /\ CalledOnce
    BY DEF BusInv, BusSafe
  <1>2. /\ Len(taken[w]) = 1 /\ taken[w] \in Seq(Task) /\ Head(taken[w]) = x /\ x \in Task
        /\ called' = Begun(x, w) /\ taken' = [taken EXCEPT ![w] = <<>>]
        /\ UNCHANGED <<ownVars, poolRunning, tasks, tasksClosed, publishing, events>>
    BY <1>1 DEF CallBegins, WorkerAt, TakenInOrder, EventBusTypeOK
  <1>3. /\ workers' \in [Threads -> {"none", "loop", "pop", "begin", "call", "ended"}]
        /\ NoThreadAfterShutdown' /\ PoolOwned'
    BY <1>2, WorkerMoves DEF CallBegins, ownVars
  <1>4. /\ taken' \in [Threads -> Seq(Task)] /\ taken'[w] = <<>>
        /\ \A v \in Threads \ {w} : taken'[v] = taken[v]
    BY <1>1, <1>2 DEF EventBusTypeOK
  <1>5. /\ x[1] \in Nat /\ x[2] \in 1 .. MaxEvents /\ x[2] <= events /\ 1 \in 1 .. Len(taken[w])
        /\ x = <<x[1], x[2]>>
    BY <1>1, <1>2 DEF TakenInOrder, UpTo, Task, Subscription
  <1> HIDE DEF x
  <1>6. \A i \in 1 .. Len(called[x[2]]) :
          called[x[2]][i][1] # x[1] /\ (called[x[2]][i][2] = w => called[x[2]][i][1] < x[1])
    BY <1>1, <1>5 DEF TakenInOrder, x
  <1>7. /\ called' \in [1 .. MaxEvents -> Seq(Call)]
        /\ \A e \in 1 .. MaxEvents : e # x[2] => called'[e] = called[e]
        /\ \A e \in 1 .. MaxEvents : \A i \in 1 .. Len(called'[e]) :
             \/ i \in 1 .. Len(called[e]) /\ called'[e][i] = called[e][i]
             \/ e = x[2] /\ called'[e][i][1] = x[1] /\ called'[e][i][2] = w
        /\ CalledOnce'
        /\ \A e \in 1 .. MaxEvents : \A i, j \in 1 .. Len(called'[e]) :
             i < j /\ called'[e][i][2] = called'[e][j][2] => called'[e][i][1] < called'[e][j][1]
    <2>1. \A e \in 1 .. MaxEvents : \A i, j \in 1 .. Len(called[e]) :
            i < j /\ called[e][i][2] = called[e][j][2] => called[e][i][1] < called[e][j][1]
      BY <1>1 DEF SubscriptionOrder
    <2> QED BY <1>1, <1>2, <1>6, <2>1, BegunLast, Zenon
  <1>8. EventBusTypeOK'
    BY <1>1, <1>2, <1>3, <1>4, <1>7 DEF EventBusTypeOK, ownVars
  <1>9. /\ \A j \in 1 .. Len(tasks) : tasks[j][2] = x[2] => x[1] < tasks[j][1]
        /\ \A p \in Publishers : \A j \in 1 .. Len(publishing[p]) :
             publishing[p][j][2] = x[2] => x[1] < publishing[p][j][1]
    BY <1>1, <1>5 DEF TakenInOrder, AllBefore, x
  <1>10. SubscriptionOrder'
    <2>1. ASSUME NEW e \in 1 .. MaxEvents, NEW i \in 1 .. Len(called'[e])
          PROVE  /\ \A p \in Publishers : \A j \in 1 .. Len(publishing[p]) :
                      publishing[p][j][2] = e => called'[e][i][1] < publishing[p][j][1]
                 /\ \A j \in 1 .. Len(tasks) :
                      called'[e][i][2] # Publisher /\ tasks[j][2] = e => called'[e][i][1] < tasks[j][1]
      <3>1. CASE i \in 1 .. Len(called[e]) /\ called'[e][i] = called[e][i]
        BY <1>1, <3>1 DEF SubscriptionOrder
      <3>2. CASE e = x[2] /\ called'[e][i][1] = x[1] /\ called'[e][i][2] = w
        BY <1>9, <3>2
      <3> QED BY <1>7, <3>1, <3>2
    <2> QED BY <1>2, <1>7, <2>1 DEF SubscriptionOrder
  <1>11. OwnEvents'
    BY <1>2 DEF BusInv, OwnEvents, UpTo
  <1>12. StagesInOrder'
    <2>1. \A e \in 1 .. MaxEvents : e > events' => called'[e] = <<>>
      BY <1>1, <1>2, <1>5, <1>7 DEF StagesInOrder, EventBusTypeOK
    <2>2. ASSUME NEW e \in 1 .. MaxEvents, NEW i \in 1 .. Len(called'[e]), NEW j \in 1 .. Len(tasks),
                 tasks[j][2] = e
          PROVE  called'[e][i][1] # tasks[j][1]
      <3>1. CASE i \in 1 .. Len(called[e]) /\ called'[e][i] = called[e][i]
        BY <1>1, <2>2, <3>1 DEF StagesInOrder
      <3>2. CASE e = x[2] /\ called'[e][i][1] = x[1]
        BY <1>5, <1>9, <2>2, <3>2
      <3> QED BY <1>7, <3>1, <3>2
    <2> QED BY <1>1, <1>2, <2>1, <2>2 DEF StagesInOrder, Increasing, AllBefore, UpTo
  <1>13. TakenInOrder'
    <2>1. ASSUME NEW v \in Threads
          PROVE  IF workers'[v] = "begin" THEN Len(taken'[v]) = 1 ELSE taken'[v] = <<>>
      <3>1. CASE v = w
        BY <1>1, <1>4, <3>1 DEF CallBegins, WorkerAt, EventBusTypeOK
      <3>2. CASE v # w
        BY <1>1, <1>4, <3>2 DEF CallBegins, WorkerAt, EventBusTypeOK, TakenInOrder
      <3> QED BY <3>1, <3>2
    <2>2. ASSUME NEW v \in Threads
          PROVE  /\ UpTo(taken'[v], events') /\ AllBefore(taken'[v], tasks')
                 /\ \A p \in Publishers : AllBefore(taken'[v], publishing'[p])
      BY <1>1, <1>2, <1>4 DEF TakenInOrder, UpTo, AllBefore
    <2>3. ASSUME NEW v \in Threads, NEW e \in 1 .. MaxEvents, NEW i \in 1 .. Len(called'[e]),
                 NEW j \in 1 .. Len(taken'[v]), taken'[v][j][2] = e
          PROVE  /\ called'[e][i][1] # taken'[v][j][1]
                 /\ called'[e][i][2] = v => called'[e][i][1] < taken'[v][j][1]
      <3>1. v # w /\ taken'[v] = taken[v]
        BY <1>4, <2>3
      <3>2. CASE i \in 1 .. Len(called[e]) /\ called'[e][i] = called[e][i]
        BY <1>1, <2>3, <3>1, <3>2 DEF TakenInOrder
      <3>3. CASE e = x[2] /\ called'[e][i][1] = x[1] /\ called'[e][i][2] = w
        <4>1. taken[v][j] # x
          BY <1>1, <1>5, <3>1 DEF TakenInOrder, x
        <4>2. taken[v] \in Seq(Task)
          BY <1>1 DEF EventBusTypeOK
        <4>3. taken[v][j] \in Task
          BY <3>1, <4>2, ElementOfSeq
        <4>4. taken[v][j] = <<taken[v][j][1], taken[v][j][2]>>
          BY <4>3 DEF Task
        <4>5. taken[v][j][1] # x[1]
          BY <1>5, <2>3, <3>1, <3>3, <4>1, <4>4
        <4> QED BY <3>1, <3>3, <4>5
      <3> QED BY <1>7, <3>2, <3>3
    <2>4. ASSUME NEW v \in Threads, NEW u \in Threads, v # u,
                 NEW i \in 1 .. Len(taken'[v]), NEW j \in 1 .. Len(taken'[u])
          PROVE  taken'[v][i] # taken'[u][j]
      BY <1>1, <1>4, <2>4 DEF TakenInOrder
    <2> QED BY <2>1, <2>2, <2>3, <2>4 DEF TakenInOrder
  <1> QED
    BY <1>2, <1>3, <1>7, <1>8, <1>10, <1>11, <1>12, <1>13 DEF BusInv, BusSafe, Subscribed, ownVars

LEMMA DeliverInv ==
  ASSUME BusInv, NEW p \in Publishers, Deliver(p)
  PROVE  BusInv'
  <1> DEFINE x == publishing[p][1]
  <1>1. EventBusTypeOK /\ OwnEvents /\ StagesInOrder /\ TakenInOrder /\ CalledOnce /\ SubscriptionOrder
    BY DEF BusInv, BusSafe
  <1>2. /\ publishing[p] # <<>> /\ publishing[p] \in Seq(Task)
        /\ publishing' = [publishing EXCEPT ![p] = Tail(publishing[p])]
        /\ UNCHANGED <<ownVars, poolRunning, tasksClosed, workers, events, taken>>
    BY <1>1 DEF Deliver, EventBusTypeOK
  <1>3. /\ Len(publishing[p]) \in Nat /\ 1 \in 1 .. Len(publishing[p])
        /\ Head(publishing[p]) = x /\ x \in Task
        /\ Tail(publishing[p]) \in Seq(Task) /\ Len(Tail(publishing[p])) = Len(publishing[p]) - 1
        /\ \A i \in 1 .. Len(Tail(publishing[p])) :
             Tail(publishing[p])[i] = publishing[p][i + 1] /\ i + 1 \in 1 .. Len(publishing[p])
    BY <1>2
  <1>4. /\ publishing' \in [Publishers -> Seq(Task)] /\ publishing'[p] = Tail(publishing[p])
        /\ \A q \in Publishers \ {p} : publishing'[q] = publishing[q]
    BY <1>1, <1>2, <1>3 DEF EventBusTypeOK
  <1>5. ASSUME NEW q \in Publishers, NEW i \in 1 .. Len(publishing'[q])
        PROVE  \E k \in {i, i + 1} : /\ k \in 1 .. Len(publishing[q]) /\ publishing'[q][i] = publishing[q][k]
                                    /\ k = IF q = p THEN i + 1 ELSE i
    <2>1. CASE q = p
      BY <1>3, <1>4, <2>1
    <2>2. CASE q # p
      BY <1>4, <2>2
    <2> QED BY <2>1, <2>2
  <1>6. x[1] \in Nat /\ x[2] \in 1 .. MaxEvents /\ x[2] <= events /\ events \in Nat
    BY <1>1, <1>3 DEF Task, Subscription, OwnEvents, UpTo, EventBusTypeOK
  <1> HIDE DEF x
  <1>7. OwnEvents' /\ \A q \in Publishers : Increasing(publishing'[q])
    <2>1. ASSUME NEW q \in Publishers, NEW i \in 1 .. Len(publishing'[q])
          PROVE  publishing'[q][i][2] <= events'
      BY <1>1, <1>2, <1>5 DEF OwnEvents, UpTo
    <2>2. ASSUME NEW q \in Publishers, NEW i \in 1 .. Len(publishing'[q]), NEW j \in 1 .. Len(publishing'[q])
          PROVE  publishing'[q][i][2] = publishing'[q][j][2]
      <3>1. PICK k \in {i, i + 1} : /\ k \in 1 .. Len(publishing[q]) /\ publishing'[q][i] = publishing[q][k]
        BY <1>5
      <3>2. PICK l \in {j, j + 1} : /\ l \in 1 .. Len(publishing[q]) /\ publishing'[q][j] = publishing[q][l]
        BY <1>5
      <3> QED BY <1>1, <3>1, <3>2 DEF OwnEvents
    <2>3. ASSUME NEW q \in Publishers, NEW r \in Publishers \ {q},
                 NEW i \in 1 .. Len(publishing'[q]), NEW j \in 1 .. Len(publishing'[r])
          PROVE  publishing'[q][i][2] # publishing'[r][j][2]
      <3>1. PICK k \in {i, i + 1} : /\ k \in 1 .. Len(publishing[q]) /\ publishing'[q][i] = publishing[q][k]
        BY <1>5
      <3>2. PICK l \in {j, j + 1} : /\ l \in 1 .. Len(publishing[r]) /\ publishing'[r][j] = publishing[r][l]
        BY <1>5
      <3> QED BY <1>1, <3>1, <3>2 DEF OwnEvents
    <2>4. ASSUME NEW q \in Publishers, NEW i \in 1 .. Len(publishing'[q]), NEW j \in 1 .. Len(publishing'[q]),
                 i < j, publishing'[q][i][2] = publishing'[q][j][2]
          PROVE  publishing'[q][i][1] < publishing'[q][j][1]
      <3>1. PICK k \in {i, i + 1} : /\ k \in 1 .. Len(publishing[q]) /\ publishing'[q][i] = publishing[q][k]
                                  /\ k = IF q = p THEN i + 1 ELSE i
        BY <1>5
      <3>2. PICK l \in {j, j + 1} : /\ l \in 1 .. Len(publishing[q]) /\ publishing'[q][j] = publishing[q][l]
                                  /\ l = IF q = p THEN j + 1 ELSE j
        BY <1>5
      <3>3. k < l
        BY <2>4, <3>1, <3>2
      <3> QED BY <1>1, <2>4, <3>1, <3>2, <3>3, SMTT(30) DEF StagesInOrder, Increasing
    <2> QED BY <2>1, <2>2, <2>3, <2>4 DEF OwnEvents, UpTo, Increasing
  (* What is left is behind x, and so is all that is ahead of it before it. *)
  <1>8. ASSUME NEW q \in Publishers, NEW i \in 1 .. Len(publishing'[q]), publishing'[q][i][2] = x[2]
        PROVE  x[1] < publishing'[q][i][1]
    <2>1. PICK k \in {i, i + 1} : /\ k \in 1 .. Len(publishing[q]) /\ publishing'[q][i] = publishing[q][k]
                                /\ k = IF q = p THEN i + 1 ELSE i
      BY <1>5
    <2>2. q = p
      BY <1>1, <1>3, <1>8, <2>1 DEF OwnEvents, x
    <2> QED BY <1>1, <1>3, <1>8, <2>1, <2>2 DEF StagesInOrder, Increasing, x
  <1>9. /\ \A i \in 1 .. Len(called[x[2]]) : called[x[2]][i][1] < x[1]
        /\ \A i \in 1 .. Len(tasks) : tasks[i][2] = x[2] => tasks[i][1] < x[1]
        /\ \A w \in Threads : \A i \in 1 .. Len(taken[w]) : taken[w][i][2] = x[2] => taken[w][i][1] < x[1]
    BY <1>1, <1>3, <1>6 DEF StagesInOrder, TakenInOrder, SubscriptionOrder, AllBefore, x
  <1>10. ASSUME NEW q \in Publishers, NEW j \in 1 .. Len(publishing'[q])
         PROVE  \E k \in 1 .. Len(publishing[q]) : publishing'[q][j] = publishing[q][k]
    BY <1>5
  <1>11. ASSUME NEW q \in Publishers
         PROVE  /\ AllBefore(tasks, publishing'[q])
                /\ \A w \in Threads : AllBefore(taken[w], publishing'[q])
                /\ \A e \in 1 .. MaxEvents : \A i \in 1 .. Len(called[e]) : \A j \in 1 .. Len(publishing'[q]) :
                     publishing'[q][j][2] = e => called[e][i][1] < publishing'[q][j][1]
    <2>1. AllBefore(tasks, publishing[q]) /\ \A w \in Threads : AllBefore(taken[w], publishing[q])
      BY <1>1 DEF StagesInOrder, TakenInOrder
    <2>5. \A j \in 1 .. Len(publishing'[q]) :
             \E k \in 1 .. Len(publishing[q]) : publishing'[q][j] = publishing[q][k]
      BY <1>10
    <2>2. AllBefore(tasks, publishing'[q])
      BY <2>1, <2>5 DEF AllBefore
    <2>3. \A w \in Threads : AllBefore(taken[w], publishing'[q])
      BY <2>1, <2>5 DEF AllBefore
    <2>4. ASSUME NEW e \in 1 .. MaxEvents, NEW i \in 1 .. Len(called[e]), NEW j \in 1 .. Len(publishing'[q]),
                 publishing'[q][j][2] = e
          PROVE  called[e][i][1] < publishing'[q][j][1]
      BY <1>1, <1>10, <2>4 DEF SubscriptionOrder
    <2> QED BY <2>2, <2>3, <2>4
  <1>12. tasks \in Seq(Task) /\ Len(tasks) \in Nat
    BY <1>1 DEF EventBusTypeOK
  <1>13. CASE async /\ ~tasksClosed
    <2>1. tasks' = Append(tasks, x) /\ UNCHANGED calledVars
      BY <1>2, <1>3, <1>13 DEF Deliver, Queued, calledVars
    <2>2. tasks' \in Seq(Task) /\ Len(tasks') = Len(tasks) + 1
          /\ \A i \in 1 .. Len(tasks') : \/ i \in 1 .. Len(tasks) /\ tasks'[i] = tasks[i]
                                         \/ i = Len(tasks) + 1 /\ tasks'[i] = x
      BY <1>3, <1>12, <2>1
    <2>3. EventBusTypeOK'
      BY <1>1, <1>2, <1>4, <2>1, <2>2 DEF EventBusTypeOK, ownVars, calledVars
    <2>4. UpTo(tasks', events')
      BY <1>1, <1>2, <1>6, <2>2 DEF StagesInOrder, UpTo
    <2>5. Increasing(tasks')
      <3> SUFFICES ASSUME NEW i \in 1 .. Len(tasks'), NEW j \in 1 .. Len(tasks'), i < j,
                          tasks'[i][2] = tasks'[j][2]
                   PROVE  tasks'[i][1] < tasks'[j][1]
        BY DEF Increasing
      <3>1. i \in 1 .. Len(tasks) /\ tasks'[i] = tasks[i]
        BY <1>12, <2>2
      <3>2. CASE j \in 1 .. Len(tasks) /\ tasks'[j] = tasks[j]
        BY <1>1, <3>1, <3>2 DEF StagesInOrder, Increasing
      <3>3. CASE tasks'[j] = x
        BY <1>9, <3>1, <3>3
      <3> QED BY <2>2, <3>2, <3>3
    <2>6. ASSUME NEW q \in Publishers PROVE AllBefore(tasks', publishing'[q])
      <3>1. \A i \in 1 .. Len(tasks') : (i \in 1 .. Len(tasks) /\ tasks'[i] = tasks[i]) \/ tasks'[i] = x
        BY <2>2
      <3>2. \A i \in 1 .. Len(publishing'[q]) : publishing'[q][i][2] = x[2] => x[1] < publishing'[q][i][1]
        BY <1>8
      <3> QED BY <1>11, <3>1, <3>2, OneMoreBefore
    <2>7. ASSUME NEW e \in 1 .. MaxEvents, NEW i \in 1 .. Len(called[e]), NEW j \in 1 .. Len(tasks'),
                 tasks'[j][2] = e
          PROVE  /\ called[e][i][1] # tasks'[j][1]
                 /\ called[e][i][2] # Publisher => called[e][i][1] < tasks'[j][1]
      <3>1. CASE j \in 1 .. Len(tasks) /\ tasks'[j] = tasks[j]
        BY <1>1, <2>7, <3>1 DEF StagesInOrder, SubscriptionOrder
      <3>2. CASE tasks'[j] = x
        <4>1. called[e][i][1] < x[1]
          BY <1>9, <2>7, <3>2
        <4>2. called[e][i][1] \in Nat
          <5>1. called[e] \in Seq(Call)
            BY <1>1 DEF EventBusTypeOK
          <5>2. called[e][i] \in Call
            BY <5>1, ElementOfSeq
          <5> QED BY <5>2 DEF Call, Subscription
        <4> QED BY <1>6, <3>2, <4>1, <4>2
      <3> QED BY <2>2, <3>1, <3>2
    <2>8. StagesInOrder'
      BY <1>1, <1>2, <1>7, <2>1, <2>4, <2>5, <2>6, <2>7 DEF StagesInOrder, calledVars
    <2>9. CalledOnce' /\ SubscriptionOrder'
      BY <1>1, <1>11, <2>1, <2>7 DEF CalledOnce, SubscriptionOrder, calledVars
    <2>10. \A w \in Threads : AllBefore(taken[w], tasks')
      <3> SUFFICES ASSUME NEW w \in Threads, NEW i \in 1 .. Len(taken[w]), NEW j \in 1 .. Len(tasks'),
                          taken[w][i][2] = tasks'[j][2]
                   PROVE  taken[w][i][1] < tasks'[j][1]
        BY DEF AllBefore
      <3>1. CASE j \in 1 .. Len(tasks) /\ tasks'[j] = tasks[j]
        BY <1>1, <3>1 DEF TakenInOrder, AllBefore
      <3>2. CASE tasks'[j] = x
        BY <1>9, <3>2
      <3> QED BY <2>2, <3>1, <3>2
    <2>11. TakenInOrder'
      BY <1>1, <1>2, <1>11, <2>1, <2>10 DEF TakenInOrder, calledVars
    <2> QED
      BY <1>2, <1>7, <2>3, <2>8, <2>9, <2>11 DEF BusInv, BusSafe,
         NoThreadAfterShutdown, Subscribed, PoolOwned, NoThreads, ownVars
  <1>14. CASE async /\ tasksClosed
    <2>1. UNCHANGED <<tasks, calledVars>>
      BY <1>2, <1>14 DEF Deliver, Queued, calledVars
    <2>2. EventBusTypeOK'
      BY <1>1, <1>2, <1>4, <2>1 DEF EventBusTypeOK, ownVars, calledVars
    <2>3. StagesInOrder'
      BY <1>1, <1>2, <1>7, <1>11, <2>1 DEF StagesInOrder, UpTo, Increasing, calledVars
    <2>4. TakenInOrder'
      BY <1>1, <1>2, <1>11, <2>1 DEF TakenInOrder, calledVars, AllBefore
    <2>5. CalledOnce' /\ SubscriptionOrder'
      BY <1>1, <1>11, <2>1 DEF CalledOnce, SubscriptionOrder, calledVars
    <2> QED
      BY <1>2, <1>7, <2>2, <2>3, <2>4, <2>5 DEF BusInv, BusSafe,
         NoThreadAfterShutdown, Subscribed, PoolOwned, NoThreads, ownVars
  <1>15. CASE ~async
    <2>1. called' = Begun(x, Publisher) /\ UNCHANGED tasks
      BY <1>3, <1>15 DEF Deliver
    <2>2. /\ called' \in [1 .. MaxEvents -> Seq(Call)]
          /\ \A e \in 1 .. MaxEvents : e # x[2] => called'[e] = called[e]
          /\ \A e \in 1 .. MaxEvents : \A i \in 1 .. Len(called'[e]) :
               \/ i \in 1 .. Len(called[e]) /\ called'[e][i] = called[e][i]
               \/ e = x[2] /\ called'[e][i][1] = x[1] /\ called'[e][i][2] = Publisher
          /\ CalledOnce'
          /\ \A e \in 1 .. MaxEvents : \A i, j \in 1 .. Len(called'[e]) :
               i < j /\ called'[e][i][2] = called'[e][j][2] => called'[e][i][1] < called'[e][j][1]
      <3>1. \A e \in 1 .. MaxEvents : \A i, j \in 1 .. Len(called[e]) :
              i < j /\ called[e][i][2] = called[e][j][2] => called[e][i][1] < called[e][j][1]
        BY <1>1 DEF SubscriptionOrder
      <3>2. \A i \in 1 .. Len(called[x[2]]) : called[x[2]][i][1] # x[1]
                                            /\ (called[x[2]][i][2] = Publisher => called[x[2]][i][1] < x[1])
        <4>1. called[x[2]] \in Seq(Call)
          BY <1>1, <1>6 DEF EventBusTypeOK
        <4>2. \A i \in 1 .. Len(called[x[2]]) : called[x[2]][i][1] \in Nat
          <5>1. \A i \in 1 .. Len(called[x[2]]) : called[x[2]][i] \in Call
            BY <4>1, ElementOfSeq
          <5> QED BY <5>1 DEF Call, Subscription
        <4> QED BY <1>6, <1>9, <4>2
      <3>3. x \in Task /\ Publisher \in Threads \cup {Publisher}
        BY <1>3
      <3> QED BY <1>1, <2>1, <3>1, <3>2, <3>3, BegunLast, Zenon
    <2>3. EventBusTypeOK'
      BY <1>1, <1>2, <1>4, <2>1, <2>2 DEF EventBusTypeOK, ownVars
    <2>4. ASSUME NEW e \in 1 .. MaxEvents, NEW i \in 1 .. Len(called'[e])
          PROVE  /\ \A q \in Publishers : \A j \in 1 .. Len(publishing'[q]) :
                      publishing'[q][j][2] = e => called'[e][i][1] < publishing'[q][j][1]
                 /\ \A j \in 1 .. Len(tasks) : tasks[j][2] = e =>
                      /\ called'[e][i][1] # tasks[j][1]
                      /\ called'[e][i][2] # Publisher => called'[e][i][1] < tasks[j][1]
                 /\ e <= events
      <3>1. CASE i \in 1 .. Len(called[e]) /\ called'[e][i] = called[e][i]
        <4>1. e <= events
          BY <1>1, <1>6, <3>1 DEF StagesInOrder
        <4> QED BY <1>1, <1>11, <3>1, <4>1 DEF StagesInOrder, SubscriptionOrder
      <3>2. CASE e = x[2] /\ called'[e][i][1] = x[1] /\ called'[e][i][2] = Publisher
        <4>1. \A j \in 1 .. Len(tasks) : tasks[j][2] = e => tasks[j][1] # x[1]
          <5>1. \A j \in 1 .. Len(tasks) : tasks[j] \in Task
            BY <1>12, ElementOfSeq
          <5>2. \A j \in 1 .. Len(tasks) : tasks[j][1] \in Nat
            BY <5>1 DEF Task, Subscription
          <5> QED BY <1>6, <1>9, <3>2, <5>2
        <4> QED BY <1>6, <1>8, <3>2, <4>1
      <3> QED BY <2>2, <3>1, <3>2
    <2>5. SubscriptionOrder'
      BY <2>1, <2>2, <2>4 DEF SubscriptionOrder
    <2>6. StagesInOrder'
      <3>1. \A e \in 1 .. MaxEvents : e > events' => called'[e] = <<>>
        BY <1>1, <1>2, <1>6, <2>2 DEF StagesInOrder
      <3>2. UpTo(tasks', events') /\ Increasing(tasks')
        BY <1>1, <1>2, <2>1 DEF StagesInOrder, UpTo, Increasing
      <3> QED BY <1>7, <1>11, <2>1, <2>4, <3>1, <3>2 DEF StagesInOrder
    <2>7. ASSUME NEW w \in Threads, NEW e \in 1 .. MaxEvents, NEW i \in 1 .. Len(called'[e]),
                 NEW j \in 1 .. Len(taken[w]), taken[w][j][2] = e
          PROVE  /\ called'[e][i][1] # taken[w][j][1]
                 /\ called'[e][i][2] = w => called'[e][i][1] < taken[w][j][1]
      <3>1. CASE i \in 1 .. Len(called[e]) /\ called'[e][i] = called[e][i]
        BY <1>1, <2>7, <3>1 DEF TakenInOrder
      <3>2. CASE e = x[2] /\ called'[e][i][1] = x[1] /\ called'[e][i][2] = Publisher
        <4>1. w # Publisher
          BY EventBusAssumption DEF Threads, Publisher
        <4>2. taken[w][j][1] < x[1]
          BY <1>9, <2>7, <3>2
        <4>3. taken[w] \in Seq(Task)
          BY <1>1 DEF EventBusTypeOK
        <4>4. taken[w][j] \in Task
          BY <4>3, ElementOfSeq
        <4>5. taken[w][j][1] \in Nat
          BY <4>4 DEF Task, Subscription
        <4> QED BY <1>6, <3>2, <4>1, <4>2, <4>5
      <3> QED BY <2>2, <3>1, <3>2
    <2>8. TakenInOrder'
      <3>1. UNCHANGED <<workers, taken, tasks, events>>
        BY <1>2, <2>1
      <3>2. ASSUME NEW w \in Threads
            PROVE  /\ IF workers'[w] = "begin" THEN Len(taken'[w]) = 1 ELSE taken'[w] = <<>>
                   /\ UpTo(taken'[w], events') /\ AllBefore(taken'[w], tasks')
                   /\ \A q \in Publishers : AllBefore(taken'[w], publishing'[q])
        BY <1>1, <1>11, <3>1 DEF TakenInOrder, UpTo, AllBefore
      <3>3. \A v \in Threads, w \in Threads : \A i \in 1 .. Len(taken'[v]), j \in 1 .. Len(taken'[w]) :
              v # w => taken'[v][i] # taken'[w][j]
        BY <1>1, <3>1 DEF TakenInOrder
      <3> QED BY <2>7, <3>1, <3>2, <3>3 DEF TakenInOrder
    <2> QED
      BY <1>2, <1>7, <2>2, <2>3, <2>5, <2>6, <2>8 DEF BusInv, BusSafe,
         NoThreadAfterShutdown, Subscribed, PoolOwned, NoThreads, ownVars
  <1> QED BY <1>13, <1>14, <1>15

LEMMA BusStepInv == BusInv /\ [EventBusNext]_busVars => BusInv'
  <1> SUFFICES ASSUME BusInv, [EventBusNext]_busVars PROVE BusInv'
    OBVIOUS
  <1>1. CASE \/ \E a \in BOOLEAN, size \in PoolSizes : BusInit(a, size)
             \/ Shutdown \/ KeeperClosing
    BY <1>1, BusKeeperInv
  <1>2. CASE Subscribe \/ \E i \in Subscription : Unsubscribe(i)
    BY <1>2, SubscribersInv
  <1>3. ASSUME NEW p \in Publishers, Publish(p) \/ Deliver(p) PROVE BusInv'
    BY <1>3, PublishInv, DeliverInv
  <1>4. ASSUME NEW w \in Threads, WorkerStep(w) PROVE BusInv'
    BY <1>4, WorkerInv, PopInv, BeginInv DEF WorkerStep
  <1>5. CASE UNCHANGED busVars
    <2>1. UNCHANGED queuesVars
      BY <1>5 DEF busVars, queuesVars, poolVars
    <2> QED
      BY <1>5, <2>1, QueuesUntouched DEF KeepsTaking, busVars, ownVars, poolVars, calledVars, BusInv, BusSafe,
         EventBusTypeOK, NoThreadAfterShutdown, NoThreads, Subscribed, PoolOwned
  <1> QED BY <1>1, <1>2, <1>3, <1>4, <1>5 DEF EventBusNext

(* publish() and the pool: whatever is subscribed, published, initialised  *)
(* and shut down in between, no callback is begun twice for an event, each *)
(* caller begins an event's callbacks in their order and passes only those *)
(* that another thread has already taken, and no thread outlives           *)
(* shutdown().                                                             *)
THEOREM CallbacksOnceInOrder == BusSpec => []BusSafe
  <1>1. BusInv => BusSafe
    BY DEF BusInv
  <1> QED BY <1>1, BusInitInv, BusStepInv, PTL DEF BusSpec
=============================================================================
