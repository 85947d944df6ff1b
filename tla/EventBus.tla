------------------------------ MODULE EventBus ------------------------------
(***************************************************************************)
(* foundation/event/EventBus with its ThreadPool and BlockingQueue: a      *)
(* publisher copies the callbacks of an event under mutex_ and calls them, *)
(* or queues them for the pool, after it has released it.  One thread owns *)
(* the bus: it initialises it, subscribes, and shuts it down, while others *)
(* publish.  A task is a callback's subscription and an event; a call is   *)
(* a subscription and who calls it, a thread of the pool or the publisher. *)
(***************************************************************************)
EXTENDS Naturals, Sequences

CONSTANTS Publishers,        \* threads that publish
          PoolSizes,         \* the pool sizes init() may be given
          MaxSubscriptions,  \* bound: subscribe() calls
          MaxEvents,         \* bound: events published
          MaxInits           \* bound: init() calls

ASSUME EventBusAssumption ==
    /\ PoolSizes \subseteq Nat
    /\ MaxSubscriptions \in Nat /\ MaxEvents \in Nat /\ MaxInits \in Nat

VARIABLES
    busReady,      (* initialized_                                         *)
    async,         (* async_                                               *)
    subscribers,   (* subscribers_ of one event type, in order             *)
    nextId,        (* nextId_                                              *)
    poolRunning,   (* running_ of the pool                                 *)
    tasks,         (* queue_                                               *)
    tasksClosed,   (* closed_ of the queue                                 *)
    workers,       (* workers_: where each thread is, if there is one      *)
    keeperAt,      (* where the thread is that owns the bus                *)
    publishing,    (* what each publisher still has to call or to queue    *)
    events,        (* events published                                     *)
    inits,         (* init() calls                                         *)
    taken,         (* task: what a thread has popped and not yet begun     *)
    called         (* history: each event's calls as they were begun       *)

poolVars == <<poolRunning, tasks, tasksClosed, workers>>
ownVars == <<busReady, async, subscribers, nextId, keeperAt, inits>>
calledVars == <<taken, called>>
busVars == <<ownVars, poolVars, publishing, events, calledVars>>

Subscription == 1 .. MaxSubscriptions
Task == Subscription \X (1 .. MaxEvents)
Threads == UNION {1 .. size : size \in PoolSizes}
Publisher == 0
Call == Subscription \X (Threads \cup {Publisher})
NoThreads == [w \in Threads |-> "none"]

EventBusInit ==
    /\ busReady = FALSE /\ async = FALSE
    /\ subscribers = <<>> /\ nextId = 1
    /\ poolRunning = FALSE /\ tasks = <<>> /\ tasksClosed = FALSE /\ workers = NoThreads
    /\ keeperAt = "idle"
    /\ publishing = [p \in Publishers |-> <<>>]
    /\ events = 0 /\ inits = 0
    /\ taken = [w \in Threads |-> <<>>] /\ called = [e \in 1 .. MaxEvents |-> <<>>]

----------------------------------------------------------------------------
(* The owner *)

(* init(), and ThreadPool::start: the queue is not opened again, and a     *)
(* pool that is refused leaves async_ behind.                              *)
BusInit(asynchronous, size) ==
    /\ keeperAt = "idle" /\ ~busReady
    /\ inits < MaxInits
    /\ inits' = inits + 1
    /\ async' = asynchronous
    /\ busReady' = (asynchronous => size > 0)
    /\ poolRunning' = (asynchronous /\ size > 0)
    /\ workers' = IF asynchronous THEN [w \in Threads |-> IF w <= size THEN "loop" ELSE "none"]
                  ELSE workers
    /\ UNCHANGED <<subscribers, nextId, keeperAt, tasks, tasksClosed, publishing, events, calledVars>>

Subscribe ==
    /\ keeperAt = "idle"
    /\ nextId \in Subscription
    /\ subscribers' = Append(subscribers, nextId)
    /\ nextId' = nextId + 1
    /\ UNCHANGED <<busReady, async, keeperAt, inits, poolVars, publishing, events, calledVars>>

(* An id is given out once, so unsubscribe() finds it in one place or not  *)
(* at all.                                                                 *)
Unsubscribe(i) ==
    /\ keeperAt = "idle"
    /\ i <= Len(subscribers)
    /\ subscribers' = SubSeq(subscribers, 1, i - 1) \o SubSeq(subscribers, i + 1, Len(subscribers))
    /\ UNCHANGED <<busReady, async, nextId, keeperAt, inits, poolVars, publishing, events, calledVars>>

(* shutdown() forgets the subscribers under mutex_ and then stops the      *)
(* pool, which returns at once if it is not running.                       *)
Shutdown ==
    /\ keeperAt = "idle"
    /\ subscribers' = <<>> /\ busReady' = FALSE
    /\ poolRunning' = FALSE
    /\ keeperAt' = IF poolRunning THEN "close" ELSE "idle"
    /\ UNCHANGED <<async, nextId, inits, tasks, tasksClosed, workers, publishing, events, calledVars>>

ClosedMutant == FALSE
Closed == TRUE
CloseTasks ==
    /\ keeperAt = "close"
    /\ tasksClosed' = Closed
    /\ keeperAt' = "join"
    /\ UNCHANGED <<busReady, async, subscribers, nextId, inits, poolRunning, tasks, workers,
                   publishing, events, calledVars>>

JoinableMutant == \A w \in Threads : workers[w] # "loop"
Joinable == \A w \in Threads : workers[w] \in {"none", "ended"}
JoinWorkers ==
    /\ keeperAt = "join"
    /\ Joinable
    /\ workers' = [w \in Threads |-> IF workers[w] = "ended" THEN "none" ELSE workers[w]]
    /\ keeperAt' = "idle"
    /\ UNCHANGED <<busReady, async, subscribers, nextId, inits, poolRunning, tasks, tasksClosed,
                   publishing, events, calledVars>>

----------------------------------------------------------------------------
(* The publishers *)
Publish(p) ==
    /\ publishing[p] = <<>>
    /\ events < MaxEvents
    /\ events' = events + 1
    /\ publishing' = [publishing EXCEPT ![p] =
                        [i \in 1 .. Len(subscribers) |-> <<subscribers[i], events + 1>>]]
    /\ UNCHANGED <<ownVars, poolVars, calledVars>>

(* submit(): a queue that is closed drops the task. *)
Queued(task) == IF tasksClosed THEN tasks ELSE Append(tasks, task)
Begun(task, caller) == [called EXCEPT ![task[2]] = Append(@, <<task[1], caller>>)]
Deliver(p) ==
    /\ publishing[p] # <<>>
    /\ publishing' = [publishing EXCEPT ![p] = Tail(@)]
    /\ IF async
         THEN tasks' = Queued(Head(publishing[p])) /\ UNCHANGED called
         ELSE called' = Begun(Head(publishing[p]), Publisher) /\ UNCHANGED tasks
    /\ UNCHANGED <<ownVars, poolRunning, tasksClosed, workers, events, taken>>

----------------------------------------------------------------------------
(* The pool's threads *)
WorkerAt(w, from, to) ==
    /\ workers[w] = from
    /\ workers' = [workers EXCEPT ![w] = to]

WorkerLoop(w) ==
    /\ WorkerAt(w, "loop", IF poolRunning THEN "pop" ELSE "ended")
    /\ UNCHANGED <<ownVars, poolRunning, tasks, tasksClosed, publishing, events, calledVars>>

(* pop() waits until there is a task or the queue is closed; a task that   *)
(* is left in a closed queue is still taken.  The queue's mutex is free    *)
(* again before the thread calls what it took.                             *)
Rest == Tail(tasks)
WorkerPops(w) ==
    /\ tasks # <<>>
    /\ WorkerAt(w, "pop", "begin")
    /\ taken' = [taken EXCEPT ![w] = <<Head(tasks)>>]
    /\ tasks' = Rest
    /\ UNCHANGED <<ownVars, poolRunning, tasksClosed, publishing, events, called>>
WorkerFindsClosed(w) ==
    /\ tasks = <<>> /\ tasksClosed
    /\ WorkerAt(w, "pop", "ended")
    /\ UNCHANGED <<ownVars, poolRunning, tasks, tasksClosed, publishing, events, calledVars>>

CallBegins(w) ==
    /\ WorkerAt(w, "begin", "call")
    /\ called' = Begun(Head(taken[w]), w)
    /\ taken' = [taken EXCEPT ![w] = <<>>]
    /\ UNCHANGED <<ownVars, poolRunning, tasks, tasksClosed, publishing, events>>

AfterCall == "loop"
CallReturned(w) ==
    /\ WorkerAt(w, "call", AfterCall)
    /\ UNCHANGED <<ownVars, poolRunning, tasks, tasksClosed, publishing, events, calledVars>>

----------------------------------------------------------------------------
WorkerStep(w) ==
    \/ WorkerLoop(w) \/ WorkerPops(w) \/ WorkerFindsClosed(w)
    \/ CallBegins(w) \/ CallReturned(w)
KeeperClosing == CloseTasks \/ JoinWorkers
EventBusNext ==
    \/ \E a \in BOOLEAN, size \in PoolSizes : BusInit(a, size)
    \/ Subscribe \/ Shutdown \/ KeeperClosing
    \/ \E i \in Subscription : Unsubscribe(i)
    \/ \E p \in Publishers : Publish(p) \/ Deliver(p)
    \/ \E w \in Threads : WorkerStep(w)

(* The threads run, and callbacks return. *)
EventBusFairness ==
    /\ WF_busVars(KeeperClosing)
    /\ \A p \in Publishers : WF_busVars(Deliver(p))
    /\ \A w \in Threads : WF_busVars(WorkerStep(w))

----------------------------------------------------------------------------
EventBusTypeOK ==
    /\ busReady \in BOOLEAN /\ async \in BOOLEAN
    /\ poolRunning \in BOOLEAN /\ tasksClosed \in BOOLEAN
    /\ subscribers \in Seq(Subscription) /\ nextId \in 1 .. MaxSubscriptions + 1
    /\ tasks \in Seq(Task)
    /\ workers \in [Threads -> {"none", "loop", "pop", "begin", "call", "ended"}]
    /\ keeperAt \in {"idle", "close", "join"}
    /\ publishing \in [Publishers -> Seq(Task)]
    /\ events \in 0 .. MaxEvents /\ inits \in 0 .. MaxInits
    /\ taken \in [Threads -> Seq(Task)] /\ called \in [1 .. MaxEvents -> Seq(Call)]

(* No callback is called twice for an event, even by several threads of a  *)
(* pool that is stopped and started again.                                 *)
CalledOnce ==
    \A e \in 1 .. MaxEvents : \A i, j \in 1 .. Len(called[e]) :
        i # j => called[e][i][1] # called[e][j][1]

(* One caller begins the callbacks of an event in the order of their       *)
(* subscription, so a bus without a pool (the program's) and one with a    *)
(* pool of one thread keep it.  Threads of a larger pool may pass another  *)
(* between pop() and the call, and only there: a callback that was begun   *)
(* is never later than one its publisher still has to deliver, nor, if the *)
(* pool began it, than one that is still queued.                           *)
SubscriptionOrder ==
    \A e \in 1 .. MaxEvents : \A i \in 1 .. Len(called[e]) :
        /\ \A j \in 1 .. Len(called[e]) :
             i < j /\ called[e][i][2] = called[e][j][2] => called[e][i][1] < called[e][j][1]
        /\ \A p \in Publishers : \A j \in 1 .. Len(publishing[p]) :
             publishing[p][j][2] = e => called[e][i][1] < publishing[p][j][1]
        /\ \A j \in 1 .. Len(tasks) :
             called[e][i][2] # Publisher /\ tasks[j][2] = e => called[e][i][1] < tasks[j][1]

(* When shutdown() has returned no thread of the pool is left, so none     *)
(* calls into an object whose owner has unsubscribed it that way.          *)
NoThreadAfterShutdown ==
    keeperAt = "idle" /\ ~poolRunning => workers = NoThreads

(* shutdown() returns, whatever is queued, if callbacks return. *)
ShutdownReturns == keeperAt = "close" ~> keeperAt = "idle"

(* Queued callbacks are all called, unless the bus is shut down.           *)
QueueServed == poolRunning /\ tasks # <<>> ~> tasks = <<>> \/ ~poolRunning

(* Together: callbacks are called once, in that order, and not after the   *)
(* end.                                                                    *)
BusSafe == EventBusTypeOK /\ CalledOnce /\ SubscriptionOrder /\ NoThreadAfterShutdown

(* Together: the queue is served, and closing it wakes every thread.       *)
BusEnds == ShutdownReturns /\ QueueServed
=============================================================================
