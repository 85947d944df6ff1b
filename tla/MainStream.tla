----------------------------- MODULE MainStream -----------------------------
(***************************************************************************)
(* media/stream/MainStream: the bounded, leaky queue between the worker    *)
(* thread of the media pipeline (push) and the publishers (waitFrame).     *)
(* Every method locks mutex_ for its whole body, so a method is one        *)
(* action; waitFrame releases the mutex while it sleeps on cv_, so it is   *)
(* split there.  The condition variable is explicit: a thread sleeps until *)
(* somebody notifies it or its timeout expires, and a change nobody        *)
(* notifies leaves it asleep.                                              *)
(*                                                                         *)
(* A frame is abstracted to its number in push order.                      *)
(***************************************************************************)
EXTENDS Naturals, Sequences

CONSTANTS Consumers,      (* threads that call waitFrame                    *)
          Timed,          (* those of them that pass a timeout >= 0         *)
          LowLatency,     (* profile_.lowLatency                            *)
          Fps,            (* profile_.fps                                   *)
          MaxFrames       (* bound: pushes in a behaviour                   *)

ASSUME StreamAssumption ==
    /\ Timed \subseteq Consumers
    /\ LowLatency \in BOOLEAN
    /\ Fps \in Nat
    /\ MaxFrames \in Nat

VARIABLES
    frames,         (* frames_                                              *)
    state,          (* state_                                               *)
    framesIn,       (* stats_.framesIn                                      *)
    framesDropped,  (* stats_.framesDropped                                 *)
    pc,             (* where each consumer is in waitFrame                  *)
    \* history variables
    delivered,      (* the last frame returned by waitFrame                 *)
    taken,          (* how many frames waitFrame has returned               *)
    cleared,        (* how many frames clear() has thrown away              *)
    stopMark,       (* framesIn when stop() was last called                 *)
    staleTaken      (* frames up to stopMark returned after that stop()     *)

stats   == <<framesIn, framesDropped>>
history == <<delivered, taken, cleared, stopMark, staleTaken>>
vars    == <<frames, state, framesIn, framesDropped, pc,
             delivered, taken, cleared, stopMark, staleTaken>>

----------------------------------------------------------------------------
(* capacity_, as init() computes it. *)
Capacity == IF LowLatency THEN 1 ELSE IF Fps = 0 THEN 30 ELSE Fps

(* The predicate both forms of the wait use. *)
Ready == state # "Running" \/ frames # <<>>

(* cv_.notify_all *)
NotifyAllMutant(threads) == threads
NotifyAll(threads) ==
    [c \in Consumers |-> IF threads[c] = "asleep" THEN "notified" ELSE threads[c]]

(* The last n elements of a queue. *)
Newest(queue, n) == SubSeq(queue, Len(queue) - n + 1, Len(queue))

(* push() pops from the front until there is room for one frame more. *)
MakeRoomMutant(queue) == IF Len(queue) > Capacity THEN Newest(queue, Capacity) ELSE queue
MakeRoom(queue) == IF Len(queue) >= Capacity THEN Newest(queue, Capacity - 1) ELSE queue

(* How many frames a pop loop has dropped. *)
DroppedMutant(before, after) == Len(after) - Len(before)
Dropped(before, after) == Len(before) - Len(after)

(* waitFrame() of a low-latency stream skips to the newest frame. *)
SkipToNewest(queue) ==
    IF LowLatency /\ Len(queue) > 1 THEN Newest(queue, 1) ELSE queue

(* waitFrame() pops the frame it returns. *)
PoppedMutant(queue) == queue
Popped(queue) == Tail(queue)

----------------------------------------------------------------------------
Init ==
    /\ frames = <<>>
    /\ state = "Stopped"
    /\ framesIn = 0 /\ framesDropped = 0
    /\ pc = [c \in Consumers |-> "idle"]
    /\ delivered = 0 /\ taken = 0 /\ cleared = 0
    /\ stopMark = 0 /\ staleTaken = 0

Start ==
    /\ state' = "Running"
    /\ UNCHANGED <<frames, stats, pc, history>>

Stop ==
    /\ state' = "Stopped"
    /\ pc' = NotifyAll(pc)
    /\ stopMark' = framesIn
    /\ staleTaken' = 0
    /\ UNCHANGED <<frames, stats, delivered, taken, cleared>>

Clear ==
    /\ frames' = <<>>
    /\ cleared' = cleared + Len(frames)
    /\ UNCHANGED <<state, stats, pc, delivered, taken, stopMark, staleTaken>>

(* A push into a stream that is not running is an error and changes nothing. *)
Push ==
    /\ state = "Running"
    /\ framesIn < MaxFrames
    /\ framesIn' = framesIn + 1
    /\ framesDropped' = framesDropped + Dropped(frames, MakeRoom(frames))
    /\ frames' = Append(MakeRoom(frames), framesIn + 1)
    /\ pc' = NotifyAll(pc)
    /\ UNCHANGED <<state, history>>

(* The part of waitFrame after the wait; c leaves without a frame when the *)
(* queue is empty.                                                         *)
Take(c) ==
    /\ pc' = [pc EXCEPT ![c] = "idle"]
    /\ \/ /\ frames = <<>>
          /\ UNCHANGED <<frames, framesDropped, delivered, taken, staleTaken>>
       \/ /\ frames # <<>>
          /\ LET queue == SkipToNewest(frames) IN
             /\ frames' = Popped(queue)
             /\ framesDropped' = framesDropped + Dropped(frames, queue)
             /\ delivered' = Head(queue)
             /\ staleTaken' = staleTaken + (IF Head(queue) <= stopMark THEN 1 ELSE 0)
          /\ taken' = taken + 1
    /\ UNCHANGED <<state, framesIn, cleared, stopMark>>

Sleep(c) ==
    /\ pc' = [pc EXCEPT ![c] = "asleep"]
    /\ UNCHANGED <<frames, state, stats, history>>

WaitFrame(c) ==
    /\ pc[c] = "idle"
    /\ \/ Ready /\ Take(c)
       \/ ~Ready /\ Sleep(c)

(* A notified thread evaluates the predicate again under the mutex. *)
Wake(c) ==
    /\ pc[c] = "notified"
    /\ \/ Ready /\ Take(c)
       \/ ~Ready /\ Sleep(c)

(* wait_for returns at the timeout whatever the predicate says. *)
Timeout(c) ==
    /\ c \in Timed
    /\ pc[c] \in {"asleep", "notified"}
    /\ Take(c)

Next ==
    \/ Start \/ Stop \/ Clear \/ Push
    \/ \E c \in Consumers : WaitFrame(c) \/ Wake(c) \/ Timeout(c)

Spec == Init /\ [][Next]_vars

(* The scheduler runs a notified thread and timers expire; nobody has to   *)
(* push, start or stop.                                                    *)
FairSpec ==
    /\ Spec
    /\ \A c \in Consumers : WF_vars(Wake(c)) /\ WF_vars(Timeout(c))

----------------------------------------------------------------------------
TypeOK ==
    /\ frames \in Seq(Nat)
    /\ state \in {"Stopped", "Running"}
    /\ framesIn \in Nat /\ framesDropped \in Nat
    /\ pc \in [Consumers -> {"idle", "asleep", "notified"}]
    /\ delivered \in Nat /\ taken \in Nat /\ cleared \in Nat
    /\ stopMark \in Nat /\ staleTaken \in Nat

(* No wake-up is lost: a publisher sleeps in waitFrame only while there is *)
(* nothing to hand out and the stream is running.  Every method that makes *)
(* the predicate true must notify (stop at MainStream.cpp:59, push at 88). *)
NoLostWakeup == \A c \in Consumers : pc[c] = "asleep" => ~Ready

(* The queue is always the newest frames pushed, without a gap and within  *)
(* capacity_: old frames never pile up behind a slow publisher.            *)
QueueIsNewest ==
    /\ Len(frames) <= Capacity
    /\ \A i \in 1 .. Len(frames) : frames[i] = framesIn - Len(frames) + i

(* The statistics account for every frame: what was pushed was handed out, *)
(* counted as dropped, cleared, or is still queued.                        *)
FramesAccounted == framesIn = taken + framesDropped + cleared + Len(frames)

(* stop() does not empty the queue, so frames of the stopped pipeline are  *)
(* still handed out after it; they are never more than capacity_.          *)
StaleBounded == staleTaken <= Capacity

(* When the stream stops for good, no publisher stays in waitFrame, with   *)
(* or without a timeout.                                                   *)
StopReleasesWaiters ==
    \A c \in Consumers : <>[](state = "Stopped") => []<>(pc[c] = "idle")

(* The main stream implements the frame feed the publishers rely on.       *)
Feed == INSTANCE FrameFeed
          WITH NewestOnly <- LowLatency, pushed <- framesIn, count <- taken
FeedSpec == Feed!Spec
=============================================================================
