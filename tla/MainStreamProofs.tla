-------------------------- MODULE MainStreamProofs --------------------------
(***************************************************************************)
(* Proofs about the main stream for every set of publishers, every frame   *)
(* rate and both latency profiles.                                         *)
(***************************************************************************)
EXTENDS MainStream, SequenceTheorems, TLAPS

(* The inductive invariant.  The numbers of the queued frames are known    *)
(* from framesIn and the length of the queue, so what was handed out is    *)
(* older than what is queued, and the frames of the stopped session that   *)
(* are still queued, together with those already handed out, fit into      *)
(* capacity_.                                                              *)
StaleQueued == stopMark - (framesIn - Len(frames))

IInv ==
    /\ TypeOK
    /\ QueueIsNewest
    /\ NoLostWakeup
    /\ FramesAccounted
    /\ Len(frames) <= framesIn
    /\ delivered <= framesIn - Len(frames)
    /\ stopMark <= framesIn
    /\ StaleBounded
    /\ staleTaken + StaleQueued <= Capacity

(* Whatever the profile, the queue has room for at least one frame.        *)
LEMMA CapacityPositive == Capacity \in Nat /\ Capacity >= 1
  BY StreamAssumption DEF Capacity

(* r is what dropping from the front leaves of the queue q.               *)
IsEndOf(r, q) ==
    /\ r \in Seq(Nat)
    /\ Len(r) <= Len(q)
    /\ \A i \in 1 .. Len(r) : r[i] = q[Len(q) - Len(r) + i]

(* A queue nothing is dropped from.                                        *)
LEMMA WholeIsEnd == ASSUME NEW q \in Seq(Nat) PROVE IsEndOf(q, q)
  <1>1. \A i \in 1 .. Len(q) : Len(q) - Len(q) + i = i
    OBVIOUS
  <1> QED BY <1>1 DEF IsEndOf

(* The pop loops of push and waitFrame keep the last n frames.             *)
LEMMA NewestFacts ==
  ASSUME NEW q \in Seq(Nat), NEW n \in Nat, n <= Len(q)
  PROVE  IsEndOf(Newest(q, n), q) /\ Len(Newest(q, n)) = n
  <1> DEFINE m == Len(q) - n + 1
             r == SubSeq(q, m, Len(q))
  <1>1. m \in Int /\ Len(q) \in Int /\ Len(q) - m + 1 = n
    OBVIOUS
  <1>2. \A i \in m .. Len(q) : q[i] \in Nat
    OBVIOUS
  <1>3. /\ r \in Seq(Nat)
        /\ Len(r) = IF m <= Len(q) THEN Len(q) - m + 1 ELSE 0
        /\ \A i \in 1 .. Len(q) - m + 1 : r[i] = q[m + i - 1]
    BY <1>1, <1>2, SubSeqProperties
  <1>4. Len(r) = n
    BY <1>1, <1>3
  <1>5. \A i \in 1 .. n : m + i - 1 = Len(q) - n + i
    OBVIOUS
  <1>6. \A i \in 1 .. n : r[i] = q[Len(q) - n + i]
    BY <1>1, <1>3, <1>5
  <1>7. r = Newest(q, n)
    BY DEF Newest
  <1> HIDE DEF r
  <1> QED BY <1>3, <1>4, <1>6, <1>7 DEF IsEndOf

(* What push leaves of the queue before it appends: its end, with room for *)
(* one frame more.                                                         *)
LEMMA MakeRoomFacts ==
  ASSUME NEW q \in Seq(Nat), Len(q) <= Capacity
  PROVE  IsEndOf(MakeRoom(q), q) /\ Len(MakeRoom(q)) < Capacity
  <1>1. CASE Len(q) >= Capacity
    <2>1. Capacity - 1 \in Nat /\ Capacity - 1 <= Len(q)
      BY <1>1, CapacityPositive
    <2>2. MakeRoom(q) = Newest(q, Capacity - 1)
      BY <1>1 DEF MakeRoom
    <2> QED BY <2>1, <2>2, NewestFacts, CapacityPositive
  <1>2. CASE Len(q) < Capacity
    <2>1. MakeRoom(q) = q
      BY <1>2, CapacityPositive DEF MakeRoom
    <2> QED BY <1>2, <2>1, WholeIsEnd
  <1> QED BY <1>1, <1>2, CapacityPositive

(* What waitFrame leaves of the queue before it pops: its end, not empty,  *)
(* only the newest frame if the stream is low-latency.                     *)
LEMMA SkipFacts ==
  ASSUME NEW q \in Seq(Nat), q # <<>>
  PROVE  /\ IsEndOf(SkipToNewest(q), q)
         /\ Len(SkipToNewest(q)) >= 1
         /\ LowLatency => Len(SkipToNewest(q)) = 1
  <1>0. Len(q) \in Nat /\ Len(q) >= 1
    OBVIOUS
  <1>1. CASE LowLatency /\ Len(q) > 1
    <2>1. SkipToNewest(q) = Newest(q, 1)
      BY <1>1 DEF SkipToNewest
    <2>2. IsEndOf(Newest(q, 1), q) /\ Len(Newest(q, 1)) = 1
      BY <1>0, NewestFacts
    <2>3. Len(Newest(q, 1)) >= 1
      BY <2>2, 1 >= 1, Zenon
    <2> QED BY <2>1, <2>2, <2>3, Zenon
  <1>2. CASE ~(LowLatency /\ Len(q) > 1)
    <2>1. SkipToNewest(q) = q
      BY <1>2 DEF SkipToNewest
    <2> QED BY <1>0, <1>2, <2>1, WholeIsEnd
  <1> QED BY <1>1, <1>2

(* notify_all leaves nobody asleep.                                        *)
LEMMA NotifyFacts ==
  ASSUME NEW p \in [Consumers -> {"idle", "asleep", "notified"}]
  PROVE  /\ NotifyAll(p) \in [Consumers -> {"idle", "asleep", "notified"}]
         /\ \A c \in Consumers : NotifyAll(p)[c] # "asleep"
  BY DEF NotifyAll

----------------------------------------------------------------------------
(* A new stream satisfies the invariant. *)
LEMMA InitIInv == Init => IInv
  <1> SUFFICES ASSUME Init PROVE IInv
    OBVIOUS
  <1>1. TypeOK
    BY DEF Init, TypeOK
  <1>2. Len(frames) = 0
    BY DEF Init
  <1>3. NoLostWakeup
    BY DEF Init, NoLostWakeup
  <1> QED BY <1>1, <1>2, <1>3, CapacityPositive
         DEF Init, IInv, QueueIsNewest, FramesAccounted, StaleBounded, StaleQueued

(* stop() keeps the queue: at most capacity_ frames become stale.          *)
LEMMA StopIInv == IInv /\ Stop => IInv'
  <1> SUFFICES ASSUME IInv, Stop PROVE IInv'
    OBVIOUS
  <1>1. TypeOK' /\ NoLostWakeup'
    BY NotifyFacts DEF IInv, TypeOK, NoLostWakeup, Stop, stats
  <1> QED BY <1>1, CapacityPositive
         DEF IInv, TypeOK, Stop, stats, QueueIsNewest, FramesAccounted,
             StaleBounded, StaleQueued, Capacity

LEMMA StartIInv == IInv /\ Start => IInv'
  <1> SUFFICES ASSUME IInv, Start PROVE IInv'
    OBVIOUS
  <1>1. TypeOK' /\ NoLostWakeup'
    BY DEF IInv, TypeOK, NoLostWakeup, Ready, Start, stats, history
  <1> QED BY <1>1
         DEF IInv, TypeOK, Start, stats, history, QueueIsNewest, FramesAccounted,
             StaleBounded, StaleQueued, Capacity

LEMMA ClearIInv == IInv /\ Clear => IInv'
  <1> SUFFICES ASSUME IInv, Clear PROVE IInv'
    OBVIOUS
  <1>1. Len(frames') = 0 /\ Len(frames) \in Nat
    BY DEF Clear, IInv, TypeOK
  <1>2. TypeOK' /\ NoLostWakeup'
    BY <1>1 DEF IInv, TypeOK, NoLostWakeup, Ready, Clear, stats
  <1> QED BY <1>1, <1>2, CapacityPositive
         DEF IInv, TypeOK, Clear, stats, QueueIsNewest, FramesAccounted,
             StaleBounded, StaleQueued, Capacity

(* push() drops from the front only what it needs to stay within           *)
(* capacity_, appends the next number and wakes every sleeper.             *)
LEMMA PushIInv == IInv /\ Push => IInv'
  <1> SUFFICES ASSUME IInv, Push PROVE IInv'
    OBVIOUS
  <1> DEFINE r == MakeRoom(frames)
  <1>0. frames \in Seq(Nat) /\ Len(frames) <= Capacity /\ framesIn \in Nat
    BY DEF IInv, TypeOK, QueueIsNewest
  <1>1. /\ r \in Seq(Nat) /\ Len(r) <= Len(frames) /\ Len(r) < Capacity
        /\ \A i \in 1 .. Len(r) : r[i] = frames[Len(frames) - Len(r) + i]
        /\ Len(r) \in Nat /\ Len(frames) \in Nat /\ Capacity' = Capacity
    BY <1>0, MakeRoomFacts DEF IsEndOf, Capacity
  <1>2. /\ frames' = Append(r, framesIn + 1)
        /\ framesIn' = framesIn + 1
        /\ framesDropped' = framesDropped + (Len(frames) - Len(r))
    BY DEF Push, Dropped
  <1> HIDE DEF r
  <1>3. /\ frames' \in Seq(Nat) /\ Len(frames') = Len(r) + 1
        /\ \A i \in 1 .. Len(frames') :
             frames'[i] = IF i = Len(r) + 1 THEN framesIn + 1 ELSE r[i]
    BY <1>0, <1>1, <1>2
  <1>4. pc' = NotifyAll(pc) /\ UNCHANGED <<state, delivered, taken, cleared, stopMark, staleTaken>>
    BY DEF Push, history
  <1>5. TypeOK'
    <2>1. framesDropped' \in Nat /\ framesIn' \in Nat
      BY <1>0, <1>1, <1>2 DEF IInv, TypeOK
    <2> QED BY <1>3, <1>4, <2>1, NotifyFacts DEF IInv, TypeOK
  <1>6. NoLostWakeup'
    BY <1>4, NotifyFacts DEF IInv, TypeOK, NoLostWakeup
  <1>7. QueueIsNewest'
    <2>1. \A i \in 1 .. Len(r) : r[i] = framesIn - Len(r) + i
      BY <1>0, <1>1 DEF IInv, QueueIsNewest
    <2>2. \A i \in 1 .. Len(frames') : frames'[i] = framesIn' - Len(frames') + i
      BY <1>0, <1>1, <1>2, <1>3, <2>1, SMTT(30)
    <2>3. Len(frames') <= Capacity'
      BY <1>1, <1>3, CapacityPositive
    <2> QED BY <2>2, <2>3 DEF QueueIsNewest
  <1>8. FramesAccounted'
    BY <1>0, <1>1, <1>2, <1>3, <1>4 DEF IInv, TypeOK, FramesAccounted
  <1>9. /\ Len(frames') <= framesIn'
        /\ delivered' <= framesIn' - Len(frames')
        /\ stopMark' <= framesIn'
        /\ StaleBounded'
        /\ (staleTaken + StaleQueued <= Capacity)'
    BY <1>0, <1>1, <1>2, <1>3, <1>4, CapacityPositive
    DEF IInv, TypeOK, StaleBounded, StaleQueued
  <1> QED BY <1>5, <1>6, <1>7, <1>8, <1>9 DEF IInv

(* The end of waitFrame: the frame returned is newer than all the earlier  *)
(* ones, and what stays queued is still the newest.                        *)
LEMMA TakeFacts ==
  ASSUME IInv, frames # <<>>, NEW c \in Consumers, Take(c)
  PROVE  LET q == SkipToNewest(frames) IN
         /\ frames' \in Seq(Nat) /\ Len(frames') = Len(q) - 1
         /\ Len(q) \in 1 .. Len(frames)
         /\ LowLatency => Len(q) = 1
         /\ delivered' = framesIn - Len(q) + 1
         /\ \A i \in 1 .. Len(frames') : frames'[i] = framesIn - Len(frames') + i
         /\ framesDropped' = framesDropped + (Len(frames) - Len(q))
         /\ staleTaken' = staleTaken + (IF delivered' <= stopMark THEN 1 ELSE 0)
         /\ taken' = taken + 1
         /\ UNCHANGED <<state, framesIn, cleared, stopMark>>
  <1> DEFINE q == SkipToNewest(frames)
  <1>0. frames \in Seq(Nat) /\ framesIn \in Nat
    BY DEF IInv, TypeOK
  <1>1. /\ q \in Seq(Nat) /\ Len(q) \in 1 .. Len(frames)
        /\ LowLatency => Len(q) = 1
        /\ \A i \in 1 .. Len(q) : q[i] = frames[Len(frames) - Len(q) + i]
    BY <1>0, SkipFacts DEF IsEndOf
  <1>2. /\ frames' = Tail(q) /\ delivered' = Head(q)
        /\ framesDropped' = framesDropped + (Len(frames) - Len(q))
        /\ staleTaken' = staleTaken + (IF Head(q) <= stopMark THEN 1 ELSE 0)
        /\ taken' = taken + 1
        /\ UNCHANGED <<state, framesIn, cleared, stopMark>>
    BY DEF Take, Popped, Dropped
  <1> HIDE DEF q
  <1>3. \A i \in 1 .. Len(q) : q[i] = framesIn - Len(q) + i
    BY <1>0, <1>1 DEF IInv, QueueIsNewest
  <1>4. q # <<>> /\ Head(q) = q[1]
    BY <1>1
  <1>5. /\ Tail(q) \in Seq(Nat) /\ Len(Tail(q)) = Len(q) - 1
        /\ \A i \in 1 .. Len(Tail(q)) : Tail(q)[i] = q[i + 1]
    BY <1>1, <1>4, HeadTailProperties
  <1>6. \A i \in 1 .. Len(Tail(q)) : Tail(q)[i] = framesIn - Len(Tail(q)) + i
    BY <1>0, <1>1, <1>3, <1>5
  <1>7. Head(q) = framesIn - Len(q) + 1
    BY <1>0, <1>1, <1>3, <1>4
  <1> QED BY <1>1, <1>2, <1>5, <1>6, <1>7 DEF q

(* Which consumer leaves waitFrame, and that nobody falls asleep.          *)
LEMMA TakeIInv ==
  ASSUME IInv, NEW c \in Consumers, Take(c)
  PROVE  IInv'
  <1>1. CASE frames = <<>>
    <2>1. UNCHANGED <<frames, framesDropped, delivered, taken, staleTaken,
                      state, framesIn, cleared, stopMark>>
      BY <1>1 DEF Take
    <2>2. TypeOK' /\ NoLostWakeup'
      BY <2>1 DEF IInv, TypeOK, NoLostWakeup, Ready, Take
    <2> QED BY <2>1, <2>2
           DEF IInv, QueueIsNewest, FramesAccounted, StaleBounded, StaleQueued, Capacity
  <1>2. CASE frames # <<>>
    <2> DEFINE n == Len(SkipToNewest(frames))
    <2>1. /\ frames' \in Seq(Nat) /\ Len(frames') = n - 1
          /\ n \in 1 .. Len(frames)
          /\ delivered' = framesIn - n + 1
          /\ \A i \in 1 .. Len(frames') : frames'[i] = framesIn - Len(frames') + i
          /\ framesDropped' = framesDropped + (Len(frames) - n)
          /\ staleTaken' = staleTaken + (IF delivered' <= stopMark THEN 1 ELSE 0)
          /\ taken' = taken + 1
          /\ UNCHANGED <<state, framesIn, cleared, stopMark>>
      BY <1>2, TakeFacts
    <2> HIDE DEF n
    <2>2. pc' = [pc EXCEPT ![c] = "idle"]
      BY DEF Take
    <2>3. /\ frames \in Seq(Nat) /\ framesIn \in Nat /\ framesDropped \in Nat
          /\ taken \in Nat /\ cleared \in Nat /\ stopMark \in Nat /\ staleTaken \in Nat
          /\ Len(frames) \in Nat /\ n \in Nat /\ Len(frames) <= framesIn
      BY <2>1 DEF IInv, TypeOK
    <2>4. TypeOK'
      BY <2>1, <2>2, <2>3 DEF IInv, TypeOK
    <2>5. NoLostWakeup'
      BY <1>2, <2>1, <2>2 DEF IInv, TypeOK, NoLostWakeup, Ready
    <2>6. QueueIsNewest' /\ FramesAccounted'
      <3>0. Capacity' = Capacity
        BY DEF Capacity
      <3>1. Len(frames') <= Capacity'
        BY <2>1, <2>3, <3>0, CapacityPositive DEF IInv, QueueIsNewest
      <3>2. FramesAccounted'
        BY <2>1, <2>3 DEF IInv, FramesAccounted
      <3> QED BY <2>1, <3>1, <3>2 DEF QueueIsNewest
    <2>7. /\ Len(frames') <= framesIn' /\ delivered' <= framesIn' - Len(frames')
          /\ stopMark' <= framesIn'
      BY <2>1, <2>3 DEF IInv
    <2>8. staleTaken' + (stopMark - (framesIn - Len(frames'))) <= Capacity
      <3>1. CASE delivered' <= stopMark
        BY <2>1, <2>3, <3>1, CapacityPositive DEF IInv, StaleQueued
      <3>2. CASE ~(delivered' <= stopMark)
        BY <2>1, <2>3, <3>2, CapacityPositive DEF IInv, StaleBounded, StaleQueued
      <3> QED BY <3>1, <3>2
    <2>9. staleTaken' <= Capacity
      BY <2>1, <2>3, CapacityPositive DEF IInv, StaleBounded, StaleQueued
    <2> QED BY <2>1, <2>4, <2>5, <2>6, <2>7, <2>8, <2>9
           DEF IInv, StaleBounded, StaleQueued, Capacity
  <1> QED BY <1>1, <1>2

(* A consumer goes to sleep only when the wait's predicate is false.       *)
LEMMA SleepIInv ==
  ASSUME IInv, NEW c \in Consumers, ~Ready, Sleep(c)
  PROVE  IInv'
  <1>1. TypeOK' /\ NoLostWakeup'
    BY DEF IInv, TypeOK, NoLostWakeup, Ready, Sleep, stats, history
  <1> QED BY <1>1
         DEF IInv, Sleep, stats, history, QueueIsNewest, FramesAccounted,
             StaleBounded, StaleQueued, Capacity

(* Every step of the stream, its consumers and its clients keeps IInv.     *)
LEMMA NextIInv == IInv /\ [Next]_vars => IInv'
  <1> SUFFICES ASSUME IInv, [Next]_vars PROVE IInv'
    OBVIOUS
  <1>1. CASE Start
    BY <1>1, StartIInv
  <1>2. CASE Stop
    BY <1>2, StopIInv
  <1>3. CASE Clear
    BY <1>3, ClearIInv
  <1>4. CASE Push
    BY <1>4, PushIInv
  <1>5. ASSUME NEW c \in Consumers, WaitFrame(c) PROVE IInv'
    BY <1>5, TakeIInv, SleepIInv DEF WaitFrame
  <1>6. ASSUME NEW c \in Consumers, Wake(c) PROVE IInv'
    BY <1>6, TakeIInv, SleepIInv DEF Wake
  <1>7. ASSUME NEW c \in Consumers, Timeout(c) PROVE IInv'
    BY <1>7, TakeIInv DEF Timeout
  <1>8. CASE UNCHANGED vars
    BY <1>8 DEF vars, IInv, TypeOK, QueueIsNewest, NoLostWakeup, Ready,
                FramesAccounted, StaleBounded, StaleQueued, Capacity
  <1> QED BY <1>1, <1>2, <1>3, <1>4, <1>5, <1>6, <1>7, <1>8 DEF Next

(* IInv holds in every reachable state. *)
THEOREM InductiveInvariant == Spec => []IInv
  BY InitIInv, NextIInv, PTL DEF Spec

(* Types: in particular the drop counter never runs below zero.            *)
THEOREM TypeCorrect == Spec => []TypeOK
  <1>1. IInv => TypeOK
    BY DEF IInv
  <1> QED BY <1>1, InductiveInvariant, PTL

(* No publisher sleeps in waitFrame while there is a frame to send or the  *)
(* stream is stopped, for any number of publishers.                        *)
THEOREM WakeupNeverLost == Spec => []NoLostWakeup
  <1>1. IInv => NoLostWakeup
    BY DEF IInv
  <1> QED BY <1>1, InductiveInvariant, PTL

(* Whatever the frame rate, the queue holds the newest frames, in order,   *)
(* without a gap and never more than capacity_.                            *)
THEOREM QueueHoldsNewest == Spec => []QueueIsNewest
  <1>1. IInv => QueueIsNewest
    BY DEF IInv
  <1> QED BY <1>1, InductiveInvariant, PTL

(* The stream's statistics account for every frame pushed.                 *)
THEOREM EveryFrameAccounted == Spec => []FramesAccounted
  <1>1. IInv => FramesAccounted
    BY DEF IInv
  <1> QED BY <1>1, InductiveInvariant, PTL

(* After a stop(), at most capacity_ frames from before it are handed out. *)
THEOREM StaleFramesBounded == Spec => []StaleBounded
  <1>1. IInv => StaleBounded
    BY DEF IInv
  <1> QED BY <1>1, InductiveInvariant, PTL

----------------------------------------------------------------------------
(* Every step of the stream is a step of the feed or leaves it unchanged:  *)
(* push publishes, the end of waitFrame delivers.                          *)
LEMMA TakeFeeds ==
  ASSUME IInv, NEW c \in Consumers, Take(c)
  PROVE  [Feed!Next]_(Feed!vars)
  <1>1. CASE frames = <<>>
    BY <1>1 DEF Take, Feed!vars
  <1>2. CASE frames # <<>>
    <2> DEFINE n == Len(SkipToNewest(frames))
    <2>1. /\ n \in 1 .. Len(frames)
          /\ LowLatency => n = 1
          /\ delivered' = framesIn - n + 1
          /\ taken' = taken + 1
          /\ framesIn' = framesIn
      BY <1>2, TakeFacts
    <2> HIDE DEF n
    <2>2. /\ framesIn \in Nat /\ delivered \in Nat /\ Len(frames) \in Nat
          /\ delivered <= framesIn - Len(frames) /\ n \in Nat
      BY <2>1 DEF IInv, TypeOK
    <2>3. delivered' \in (delivered + 1) .. framesIn
      BY <2>1, <2>2
    <2>4. LowLatency => delivered' = framesIn
      BY <2>1, <2>2
    <2> QED BY <2>1, <2>3, <2>4 DEF Feed!Next, Feed!Deliver
  <1> QED BY <1>1, <1>2

LEMMA StepSimulation == IInv /\ [Next]_vars => [Feed!Next]_(Feed!vars)
  <1> SUFFICES ASSUME IInv, [Next]_vars PROVE [Feed!Next]_(Feed!vars)
    OBVIOUS
  <1>1. CASE Start \/ Stop \/ Clear \/ UNCHANGED vars
    BY <1>1 DEF Start, Stop, Clear, vars, stats, history, Feed!vars
  <1>2. CASE Push
    BY <1>2 DEF Push, history, Feed!Next, Feed!Publish
  <1>3. ASSUME NEW c \in Consumers, Sleep(c) PROVE [Feed!Next]_(Feed!vars)
    BY <1>3 DEF Sleep, stats, history, Feed!vars
  <1>4. ASSUME NEW c \in Consumers, WaitFrame(c) \/ Wake(c) \/ Timeout(c)
        PROVE  [Feed!Next]_(Feed!vars)
    BY <1>3, <1>4, TakeFeeds DEF WaitFrame, Wake, Timeout
  <1> QED BY <1>1, <1>2, <1>4 DEF Next

(* The main stream implements the frame feed for every set of publishers   *)
(* and every profile: frames are never repeated or handed out in another   *)
(* order, and a low-latency stream hands out only the newest.              *)
THEOREM ImplementsFeed == Spec => FeedSpec
  <1>1. Init => Feed!Init
    BY DEF Init, Feed!Init
  <1> QED BY <1>1, InductiveInvariant, StepSimulation, PTL DEF Spec, FeedSpec, Feed!Spec
=============================================================================
