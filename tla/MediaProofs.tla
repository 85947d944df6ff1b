---------------------------- MODULE MediaProofs ------------------------------
(***************************************************************************)
(* Proofs about frames and packets: queues of any size and any arrival     *)
(* times, any number of pictures and of library calls that fail, and       *)
(* frames of any bytes.                                                    *)
(***************************************************************************)
EXTENDS FrameBuffers, MppEncoder, RtpJpeg, Integers,
        FiniteSetTheorems, SequenceTheorems, WellFoundedInduction, TLAPS

----------------------------------------------------------------------------
(* The frame queue and the frame synchroniser (FrameBuffers) *)

(* Every nonempty set of numbers has a least one. *)
LEMMA LeastNumber ==
  ASSUME NEW T, T \subseteq Nat, T # {}
  PROVE  \E m \in T : \A n \in T : m <= n
  <1> DEFINE U == {0 .. n - 1 : n \in T}
  <1>1. \A n \in T : 0 .. n - 1 \in SUBSET Nat /\ IsFiniteSet(0 .. n - 1)
    BY FS_Interval
  <1>2. U \subseteq FiniteSubsetsOf(Nat) /\ U # {}
    BY <1>1 DEF FiniteSubsetsOf
  <1> HIDE DEF U
  <1>3. PICK x \in U : \A y \in U : <<y, x>> \notin StrictSubsetOrdering(Nat)
    BY <1>2, FS_StrictSubsetOrderingWellFounded, WFMin
  <1>4. PICK m \in T : x = 0 .. m - 1
    BY DEF U
  <1>5. ASSUME NEW n \in T, n < m PROVE FALSE
    <2>1. 0 .. n - 1 \in U /\ 0 .. n - 1 \in SUBSET Nat /\ x \in SUBSET Nat
      BY <1>4 DEF U
    <2>2. 0 .. n - 1 \subseteq x /\ n \in x /\ n \notin 0 .. n - 1
      BY <1>4, <1>5
    <2> QED BY <1>3, <2>1, <2>2 DEF StrictSubsetOrdering
  <1> QED BY <1>5

FramesVars == <<queueVars, syncVars>>
FramesNext == (QueueNext /\ UNCHANGED syncVars) \/ (SyncNext /\ UNCHANGED queueVars)
FramesSpec == FrameInit /\ [][FramesNext]_FramesVars

(* Each camera's queued frames are in the order of their times, none later *)
(* than the last that came.                                                *)
InTime(q, last) ==
    /\ \A i \in 1 .. Len(q) : q[i] <= last
    /\ \A i, j \in 1 .. Len(q) : i < j => q[i] <= q[j]

FramesInv ==
    /\ QueueSafe
    /\ lastPopped <= counts.pushed - Len(queue)
    /\ InTime(visible, clocks.visible) /\ InTime(composite, clocks.composite)

LEMMA FrameInitInv == FrameInit => FramesInv
  <1> SUFFICES ASSUME FrameInit PROVE FramesInv
    OBVIOUS
  <1> USE FrameAssumption DEF FrameInit
  <1>1. FrameTypeOK
    <2>1. queue \in Seq(1 .. MaxFrames) /\ visible \in Seq(0 .. MaxTime) /\ composite \in Seq(0 .. MaxTime)
      OBVIOUS
    <2>2. /\ counts \in [{"pushed", "dropped", "popped", "cleared"} -> 0 .. MaxFrames]
          /\ clocks \in [{"visible", "composite"} -> 0 .. MaxTime]
      OBVIOUS
    <2>3. lastPopped \in 0 .. MaxFrames /\ Len(visible) <= Capacity /\ Len(composite) <= Capacity
      OBVIOUS
    <2> QED BY <2>1, <2>2, <2>3 DEF FrameTypeOK
  <1> QED BY <1>1 DEF FramesInv, QueueSafe, NewestFramesQueued, SleepsOnlyWhileEmpty, InTime

----------------------------------------------------------------------------
(* The queue. *)
LEMMA QueueInv ==
  ASSUME FramesInv, QueueNext, UNCHANGED syncVars
  PROVE  FramesInv'
  <1> USE FrameAssumption
  <1> DEFINE n == Len(queue)
             Count == {"pushed", "dropped", "popped", "cleared"}
  <1>1. FrameTypeOK /\ NewestFramesQueued /\ SleepsOnlyWhileEmpty
    BY DEF FramesInv, QueueSafe
  <1>2. /\ queue \in Seq(1 .. MaxFrames) /\ counts \in [Count -> 0 .. MaxFrames]
        /\ lastPopped \in 0 .. MaxFrames
        /\ queueClosed \in BOOLEAN /\ popping \in {"no", "timeout", "forever"} /\ asleep \in BOOLEAN
    BY <1>1 DEF FrameTypeOK
  <1>3. /\ counts.pushed \in 0 .. MaxFrames /\ counts.dropped \in 0 .. MaxFrames
        /\ counts.popped \in 0 .. MaxFrames /\ counts.cleared \in 0 .. MaxFrames
        /\ n \in Nat /\ counts.pushed = n + counts.dropped + counts.popped + counts.cleared
    BY <1>1, <1>2 DEF FramesInv, NewestFramesQueued
  <1>13. /\ counts.pushed \in Int /\ counts.dropped \in Int /\ counts.popped \in Int
         /\ counts.cleared \in Int /\ n \in Int
         /\ counts.pushed = n + counts.dropped + counts.popped + counts.cleared
    BY <1>3
  <1>11. n \in Nat /\ n <= Capacity /\ Capacity \in Nat /\ Capacity >= 1
    BY <1>1, <1>2 DEF NewestFramesQueued
  <1>12. lastPopped \in Nat /\ lastPopped <= counts.pushed - n
    BY <1>2 DEF FramesInv
  <1>10. \A i \in 1 .. n : queue[i] = counts.pushed - n + i
    BY <1>1 DEF NewestFramesQueued
  (* Whoever makes the queue worth looking at wakes the consumer. *)
  <1>14. asleep' \in BOOLEAN /\ SleepsOnlyWhileEmpty'
    <2>1. ASSUME QueuePush \/ PopGets \/ PopGetsNothing \/ QueueClose
          PROVE  asleep' \in BOOLEAN /\ SleepsOnlyWhileEmpty'
      BY <2>1 DEF QueuePush, PopGets, PopGetsNothing, QueueClose, SleepsOnlyWhileEmpty
    <2>2. ASSUME PopSleepsAgain PROVE asleep' \in BOOLEAN /\ SleepsOnlyWhileEmpty'
      BY <2>2 DEF PopSleepsAgain, SleepsOnlyWhileEmpty, NothingToPop
    <2>3. ASSUME QueueClear PROVE asleep' \in BOOLEAN /\ SleepsOnlyWhileEmpty'
      BY <1>1, <1>2, <2>3 DEF QueueClear, SleepsOnlyWhileEmpty, NothingToPop
    <2>4. ASSUME NEW wait \in {"timeout", "forever"}, PopBegins(wait)
          PROVE  asleep' \in BOOLEAN /\ SleepsOnlyWhileEmpty'
      BY <2>4 DEF PopBegins, SleepsOnlyWhileEmpty, NothingToPop
    <2> QED BY <2>1, <2>2, <2>3, <2>4 DEF QueueNext
  (* What a step must show. *)
  <1>4. ASSUME queue' \in Seq(1 .. MaxFrames), lastPopped' \in 0 .. MaxFrames, queueClosed' \in BOOLEAN,
               popping' \in {"no", "timeout", "forever"}, asleep' \in BOOLEAN,
               SleepsOnlyWhileEmpty', counts' \in [Count -> 0 .. MaxFrames],
               NewestFramesQueued', lastPopped' <= counts'.pushed - Len(queue')
        PROVE  FramesInv'
    BY <1>1, <1>4 DEF FramesInv, QueueSafe, FrameTypeOK, InTime, syncVars
  <1>5. ASSUME NEW q \in Seq(1 .. MaxFrames), NEW c \in [Count -> 0 .. MaxFrames],
               NEW last \in 0 .. MaxFrames, queue' = q, counts' = c, lastPopped' = last,
               queueClosed' \in BOOLEAN, popping' \in {"no", "timeout", "forever"},
               asleep' \in BOOLEAN, SleepsOnlyWhileEmpty',
               Len(q) <= Capacity, c.pushed = Len(q) + c.dropped + c.popped + c.cleared,
               \A i \in 1 .. Len(q) : q[i] = c.pushed - Len(q) + i, last <= c.pushed - Len(q)
        PROVE  FramesInv'
    <2>1. q # <<>> => last < q[1]
      <3>1. c.pushed \in Nat /\ Len(q) \in Nat /\ last \in Nat
        OBVIOUS
      <3>2. q # <<>> => 1 \in 1 .. Len(q)
        OBVIOUS
      <3> QED BY <1>5, <3>1, <3>2, SMTT(30)
    <2>2. NewestFramesQueued'
      BY <1>5, <2>1 DEF NewestFramesQueued
    <2> QED BY <1>4, <1>5, <2>2
  <1>6. ASSUME QueuePush PROVE FramesInv'
    <2>1. /\ counts.pushed < MaxFrames /\ queueClosed' = queueClosed /\ popping' = popping
          /\ lastPopped' = lastPopped
      BY <1>6 DEF QueuePush
    <2>2. CASE n < Capacity
      <3> DEFINE q == Append(queue, counts.pushed + 1)
                 c == [counts EXCEPT !.pushed = counts.pushed + 1]
      <3>1. queue' = q /\ counts' = c
        <4>1. ~IsFull
          BY <1>11, <2>2 DEF IsFull
        <4> QED BY <1>2, <1>6, <4>1 DEF QueuePush, Pushed
      <3>2. counts.pushed + 1 \in 1 .. MaxFrames /\ counts.pushed + 1 \in 0 .. MaxFrames
        BY <1>3, <2>1
      <3>3. q \in Seq(1 .. MaxFrames) /\ Len(q) = n + 1 /\ q[n + 1] = counts.pushed + 1
            /\ \A i \in 1 .. n : q[i] = queue[i]
        BY <1>2, <3>2
      <3>4. c.pushed = counts.pushed + 1 /\ c.dropped = counts.dropped
            /\ c.popped = counts.popped /\ c.cleared = counts.cleared
        BY <1>2
      <3>5. c \in [Count -> 0 .. MaxFrames]
        BY <1>2, <3>2
      <3> HIDE DEF q, c
      <3>6. /\ Len(q) <= Capacity
            /\ c.pushed = Len(q) + c.dropped + c.popped + c.cleared
            /\ lastPopped <= c.pushed - Len(q)
        <4>1. Len(q) <= Capacity
          BY <1>11, <2>2, <3>3
        <4>2. c.pushed = Len(q) + c.dropped + c.popped + c.cleared
          BY <1>13, <3>3, <3>4, SMTT(30)
        <4>3. c.pushed - Len(q) = counts.pushed - n
          BY <1>13, <3>3, <3>4
        <4> QED BY <1>12, <4>1, <4>2, <4>3
      <3>7. ASSUME NEW i \in 1 .. Len(q) PROVE q[i] = c.pushed - Len(q) + i
        <4>1. i \in 1 .. n \/ i = n + 1
          BY <1>3, <3>3
        <4> QED BY <1>3, <1>10, <3>3, <3>4, <4>1
      <3> QED BY <1>2, <1>5, <1>14, <2>1, <3>1, <3>3, <3>5, <3>6, <3>7
    <2>3. CASE n = Capacity
      <3> DEFINE q == Append(Tail(queue), counts.pushed + 1)
                 c == [counts EXCEPT !.pushed = counts.pushed + 1, !.dropped = counts.dropped + 1]
      <3>1. queue' = q /\ counts' = c
        <4>1. IsFull
          BY <1>11, <2>3 DEF IsFull
        <4> QED BY <1>2, <1>6, <4>1 DEF QueuePush, Pushed
      <3>2. counts.dropped + 1 \in 0 .. MaxFrames /\ counts.pushed + 1 \in 1 .. MaxFrames
            /\ counts.pushed + 1 \in 0 .. MaxFrames
        <4>1. counts.pushed + 1 \in 1 .. MaxFrames /\ counts.pushed + 1 \in 0 .. MaxFrames
          BY <1>3, <2>1
        <4>2. n >= 1
          BY <1>11, <2>3
        <4>3. counts.dropped + 1 \in 0 .. MaxFrames
          BY <1>3, <4>2, SMTT(30)
        <4> QED BY <4>1, <4>3
      <3>3. /\ Tail(queue) \in Seq(1 .. MaxFrames) /\ Len(Tail(queue)) = n - 1
            /\ \A i \in 1 .. n - 1 : Tail(queue)[i] = queue[i + 1]
        BY <1>2, <1>11, <2>3
      <3>4. q \in Seq(1 .. MaxFrames) /\ Len(q) = n /\ q[n] = counts.pushed + 1
            /\ \A i \in 1 .. n - 1 : q[i] = queue[i + 1]
        BY <1>3, <3>2, <3>3
      <3>5. c.pushed = counts.pushed + 1 /\ c.dropped = counts.dropped + 1
            /\ c.popped = counts.popped /\ c.cleared = counts.cleared
        BY <1>2
      <3>6. c \in [Count -> 0 .. MaxFrames]
        BY <1>2, <3>2
      <3> HIDE DEF q, c
      <3>9. Len(q) = n
        BY <3>4
      <3>7. /\ Len(q) <= Capacity
            /\ c.pushed = Len(q) + c.dropped + c.popped + c.cleared
            /\ lastPopped <= c.pushed - Len(q)
        <4>1. Len(q) <= Capacity
          BY <1>11, <3>4
        <4>2. c.pushed = Len(q) + c.dropped + c.popped + c.cleared
          BY <1>13, <3>5, <3>9
        <4>3. c.pushed - Len(q) = counts.pushed - n + 1 /\ counts.pushed - n \in Int
          BY <1>13, <3>5, <3>9
        <4> QED BY <1>12, <4>1, <4>2, <4>3
      <3>8. ASSUME NEW i \in 1 .. Len(q) PROVE q[i] = c.pushed - Len(q) + i
        <4>1. (i \in 1 .. n - 1 /\ i + 1 \in 1 .. n) \/ i = n
          BY <1>3, <3>4
        <4>2. c.pushed - Len(q) = counts.pushed - n + 1 /\ counts.pushed - n \in Int
          BY <1>13, <3>5, <3>9, SMTT(30)
        <4>3. CASE i \in 1 .. n - 1 /\ i + 1 \in 1 .. n
          <5>1. q[i] = counts.pushed - n + (i + 1)
            BY <1>10, <3>4, <4>3
          <5> QED BY <4>2, <4>3, <5>1
        <4>4. CASE i = n
          BY <1>3, <3>4, <4>2, <4>4
        <4> QED BY <4>1, <4>3, <4>4
      <3> QED BY <1>2, <1>5, <1>14, <2>1, <3>1, <3>4, <3>6, <3>7, <3>8
    <2> QED BY <1>11, <2>2, <2>3
  <1>7. ASSUME PopGets PROVE FramesInv'
    <2> DEFINE q == Tail(queue)
               c == [counts EXCEPT !.popped = counts.popped + 1]
    <2>1. /\ queue # <<>> /\ queue' = q /\ counts' = c /\ lastPopped' = Head(queue)
          /\ popping' = "no" /\ queueClosed' = queueClosed
      BY <1>7 DEF PopGets
    <2>2. /\ q \in Seq(1 .. MaxFrames) /\ Len(q) = n - 1 /\ n >= 1
          /\ Head(queue) = queue[1] /\ queue[1] \in 1 .. MaxFrames
      BY <1>2, <2>1, SMTT(30)
    <2>3. \A i \in 1 .. n - 1 : q[i] = queue[i + 1]
      BY <1>2, <2>1
    <2>4. c.pushed = counts.pushed /\ c.dropped = counts.dropped
          /\ c.popped = counts.popped + 1 /\ c.cleared = counts.cleared
      BY <1>2
    <2>5. counts.popped + 1 \in 0 .. MaxFrames
      BY <1>3, <2>2, SMTT(30)
    <2>6. c \in [Count -> 0 .. MaxFrames]
      BY <1>2, <2>5
    <2> HIDE DEF q, c
    <2>7. queue[1] = counts.pushed - n + 1
      BY <1>3, <1>10, <2>2
    <2>8. /\ Len(q) <= Capacity
          /\ c.pushed = Len(q) + c.dropped + c.popped + c.cleared
          /\ queue[1] <= c.pushed - Len(q)
      <3>1. Len(q) <= Capacity
        BY <1>11, <2>2
      <3>2. c.pushed = Len(q) + c.dropped + c.popped + c.cleared
        BY <1>13, <2>2, <2>4, SMTT(30)
      <3>3. c.pushed - Len(q) = counts.pushed - n + 1
        BY <1>13, <2>2, <2>4
      <3> QED BY <1>3, <2>7, <3>1, <3>2, <3>3
    <2>9. ASSUME NEW i \in 1 .. Len(q) PROVE q[i] = c.pushed - Len(q) + i
      <3>1. i \in 1 .. n - 1 /\ i + 1 \in 1 .. n
        BY <1>3, <2>2
      <3>2. q[i] = counts.pushed - n + (i + 1)
        BY <1>10, <2>3, <3>1
      <3>3. c.pushed - Len(q) = counts.pushed - n + 1 /\ counts.pushed - n \in Int
        BY <1>13, <2>2, <2>4, SMTT(30)
      <3> QED BY <3>1, <3>2, <3>3
    <2>10. queue[1] \in 0 .. MaxFrames
      BY <2>2
    <2> QED BY <1>2, <1>5, <1>14, <2>1, <2>2, <2>6, <2>8, <2>9, <2>10
  <1>8. ASSUME QueueClear PROVE FramesInv'
    <2> DEFINE c == [counts EXCEPT !.cleared = counts.cleared + n]
    <2>1. /\ queue' = <<>> /\ counts' = c /\ lastPopped' = lastPopped
          /\ popping' = popping /\ queueClosed' = queueClosed
      BY <1>8 DEF QueueClear
    <2>2. c.pushed = counts.pushed /\ c.dropped = counts.dropped
          /\ c.popped = counts.popped /\ c.cleared = counts.cleared + n
      BY <1>2
    <2>3. counts.cleared + n \in 0 .. MaxFrames
      BY <1>3, SMTT(30)
    <2>4. c \in [Count -> 0 .. MaxFrames]
      BY <1>2, <2>3
    <2> HIDE DEF c
    <2> DEFINE q == <<>>
    <2>5. q \in Seq(1 .. MaxFrames) /\ Len(q) = 0 /\ queue' = q
      BY <2>1
    <2> HIDE DEF q
    <2>6. /\ c.pushed = Len(q) + c.dropped + c.popped + c.cleared
          /\ lastPopped <= c.pushed - Len(q) /\ Len(q) <= Capacity
      <3>1. c.pushed = Len(q) + c.dropped + c.popped + c.cleared
        BY <1>13, <2>2, <2>5
      <3>2. lastPopped <= c.pushed - Len(q)
        BY <1>3, <1>12, <2>2, <2>5
      <3> QED BY <1>11, <2>5, <3>1, <3>2
    <2>7. \A i \in 1 .. Len(q) : q[i] = c.pushed - Len(q) + i
      BY <2>5
    <2> QED BY <1>2, <1>5, <1>14, <2>1, <2>4, <2>5, <2>6, <2>7, ZenonT(30)
  <1>9. ASSUME PopSleepsAgain \/ PopGetsNothing \/ QueueClose \/ \E wait \in {"timeout", "forever"} : PopBegins(wait)
        PROVE  FramesInv'
    <2>1. UNCHANGED <<queue, counts, lastPopped>>
      BY <1>9 DEF PopSleepsAgain, PopGetsNothing, QueueClose, PopBegins
    <2>2. queueClosed' \in BOOLEAN /\ popping' \in {"no", "timeout", "forever"}
      BY <1>2, <1>9 DEF PopSleepsAgain, PopGetsNothing, QueueClose, PopBegins
    <2> QED BY <1>1, <1>2, <1>4, <1>12, <1>14, <2>1, <2>2 DEF NewestFramesQueued
  <1> QED BY <1>6, <1>7, <1>8, <1>9 DEF QueueNext

----------------------------------------------------------------------------
(* The pairing. *)
Time == 0 .. MaxTime

LEMMA AddedFacts ==
  ASSUME NEW q \in Seq(Time), NEW last \in Time, NEW time \in Time, last <= time,
         Len(q) <= Capacity, InTime(q, last)
  PROVE  Added(q, time) \in Seq(Time) /\ Len(Added(q, time)) <= Capacity /\ InTime(Added(q, time), time)
  <1> USE FrameAssumption
  <1> DEFINE n == Len(q)
             a == Append(q, time)
  <1>1. n \in Nat /\ a \in Seq(Time) /\ Len(a) = n + 1
    OBVIOUS
  <1>2. \A i \in 1 .. n + 1 : \/ i \in 1 .. n /\ a[i] = q[i]
                              \/ i = n + 1 /\ a[i] = time
    <2>1. a[n + 1] = time /\ \A i \in 1 .. n : a[i] = q[i]
      OBVIOUS
    <2>2. \A i \in 1 .. n + 1 : i \in 1 .. n \/ i = n + 1
      BY <1>1
    <2> HIDE DEF a
    <2> QED BY <2>1, <2>2
  <1>3. \A i \in 1 .. n : q[i] \in Time /\ q[i] <= last
    BY DEF InTime
  <1> HIDE DEF a
  <1>4. \A i \in 1 .. n + 1 : a[i] \in Time /\ a[i] <= time
    BY <1>2, <1>3, SMTT(30) DEF Time
  <1>5. ASSUME NEW i \in 1 .. n + 1, NEW j \in 1 .. n + 1, i < j PROVE a[i] <= a[j]
    <2>1. i \in 1 .. n /\ a[i] = q[i]
      BY <1>1, <1>2, <1>5
    <2>2. CASE j \in 1 .. n /\ a[j] = q[j]
      BY <1>5, <2>1, <2>2 DEF InTime
    <2>3. CASE a[j] = time
      BY <1>4, <2>3
    <2> QED BY <1>2, <2>2, <2>3
  <1>6. CASE n = Capacity
    <2> DEFINE b == SubSeq(a, 2, n + 1)
    <2>1. Added(q, time) = b
      <3>1. n + 1 - Capacity + 1 = 2
        BY <1>1, <1>6
      <3> QED BY <1>1, <1>6, <3>1 DEF Added, Trimmed, a
    <2>2. \A i \in 2 .. n + 1 : a[i] \in Time
      BY <1>4
    <2>3. b \in Seq(Time) /\ Len(b) = n /\ \A i \in 1 .. n : b[i] = a[i + 1]
      <3>1. 2 <= n + 1 /\ n + 1 \in Int /\ n + 1 - 2 + 1 = n
        BY <1>1, <1>6
      <3>2. /\ b \in Seq(Time) /\ Len(b) = n
            /\ \A i \in 1 .. n : b[i] = a[2 + i - 1]
        BY <2>2, <3>1, SubSeqProperties
      <3>3. \A i \in 1 .. n : 2 + i - 1 = i + 1
        BY <1>1
      <3> QED BY <3>2, <3>3
    <2> HIDE DEF b
    <2>4. \A i \in 1 .. n : i \in 1 .. n + 1 /\ i + 1 \in 1 .. n + 1
      BY <1>1
    <2>5. \A i \in 1 .. n : b[i] <= time
      BY <1>4, <2>3, <2>4
    <2>6. ASSUME NEW i \in 1 .. n, NEW j \in 1 .. n, i < j PROVE b[i] <= b[j]
      <3>1. i + 1 < j + 1
        BY <2>6
      <3> QED BY <1>5, <2>3, <2>4, <3>1
    <2>7. InTime(b, time)
      BY <2>3, <2>5, <2>6 DEF InTime
    <2> QED BY <1>6, <2>1, <2>3, <2>7
  <1>7. CASE n # Capacity
    <2>1. Added(q, time) = a
      BY <1>7 DEF Added, a
    <2>2. n + 1 <= Capacity
      BY <1>1, <1>7
    <2> QED BY <1>1, <1>4, <1>5, <2>1, <2>2 DEF InTime
  <1> QED BY <1>6, <1>7

(* An end of a queue is in time as well. *)
LEMMA RestFacts ==
  ASSUME NEW q \in Seq(Time), NEW last \in Time, Len(q) <= Capacity, InTime(q, last),
         NEW k \in 1 .. Len(q)
  PROVE  LET r == SubSeq(q, k + 1, Len(q))
         IN  r \in Seq(Time) /\ Len(r) = Len(q) - k /\ Len(r) <= Capacity /\ InTime(r, last)
  <1> USE FrameAssumption
  <1> DEFINE n == Len(q)
             r == SubSeq(q, k + 1, n)
  <1>1. n \in Nat /\ k \in Nat /\ k <= n /\ k + 1 \in Int
    OBVIOUS
  <1>2. \A i \in k + 1 .. n : q[i] \in Time
    BY <1>1
  <1>3. /\ r \in Seq(Time) /\ Len(r) = IF k + 1 <= n THEN n - (k + 1) + 1 ELSE 0
        /\ \A i \in 1 .. n - (k + 1) + 1 : r[i] = q[k + 1 + i - 1]
    BY <1>1, <1>2, SubSeqProperties
  <1>4. Len(r) = n - k
    BY <1>1, <1>3
  <1>5. \A i \in 1 .. n - k : r[i] = q[i + k] /\ i + k \in 1 .. n
    <2>1. n - (k + 1) + 1 = n - k /\ \A i \in 1 .. n - k : k + 1 + i - 1 = i + k /\ i + k \in 1 .. n
      BY <1>1
    <2> QED BY <1>3, <2>1
  <1> HIDE DEF r
  <1>6. \A i, j \in 1 .. n - k : i < j => r[i] <= r[j]
    <2> SUFFICES ASSUME NEW i \in 1 .. n - k, NEW j \in 1 .. n - k, i < j PROVE r[i] <= r[j]
      OBVIOUS
    <2>1. i + k < j + k
      BY <1>1
    <2> QED BY <1>5, <2>1 DEF InTime
  <1>7. InTime(r, last)
    BY <1>4, <1>5, <1>6 DEF InTime
  <1>8. Len(r) <= Capacity
    BY <1>1, <1>4
  <1> QED BY <1>3, <1>4, <1>7, <1>8 DEF r

LEMMA ClosestFacts ==
  ASSUME visible \in Seq(Time), composite \in Seq(Time), visible # <<>>, composite # <<>>
  PROVE  /\ Closest \in 1 .. Len(composite)
         /\ \A j \in 1 .. Len(composite) :
              Distance(visible[1], composite[Closest]) <= Distance(visible[1], composite[j])
         /\ \A j \in 1 .. Closest - 1 :
              Distance(visible[1], composite[Closest]) < Distance(visible[1], composite[j])
  <1> USE FrameAssumption
  <1> DEFINE d(j) == Distance(visible[1], composite[j])
             n == Len(composite)
  <1>1. n \in Nat /\ 1 \in 1 .. n /\ visible[1] \in Time /\ \A j \in 1 .. n : composite[j] \in Time
    OBVIOUS
  <1>2. \A j \in 1 .. n : d(j) \in Nat
    BY <1>1 DEF Distance, Time
  <1> HIDE DEF d
  <1>3. PICK m \in {d(j) : j \in 1 .. n} : \A e \in {d(j) : j \in 1 .. n} : m <= e
    <2>1. {d(j) : j \in 1 .. n} \subseteq Nat /\ {d(j) : j \in 1 .. n} # {}
      BY <1>1, <1>2
    <2> QED BY <2>1, LeastNumber
  <1>4. PICK i \in {j \in 1 .. n : d(j) = m} : \A k \in {j \in 1 .. n : d(j) = m} : i <= k
    <2>1. {j \in 1 .. n : d(j) = m} \subseteq Nat /\ {j \in 1 .. n : d(j) = m} # {}
      BY <1>1, <1>3
    <2> QED BY <2>1, LeastNumber
  <1>5. \A j \in 1 .. n : d(i) <= d(j)
    BY <1>3, <1>4
  <1>6. ASSUME NEW j \in 1 .. i - 1 PROVE d(i) < d(j)
    <2>1. j \in 1 .. n /\ ~(i <= j)
      BY <1>1, <1>4
    <2>2. d(j) # m
      BY <1>4, <2>1
    <2> QED BY <1>2, <1>4, <1>5, <2>1, <2>2
  <1>7. \E c \in 1 .. n : (\A j \in 1 .. n : d(c) <= d(j)) /\ (\A j \in 1 .. c - 1 : d(c) < d(j))
    BY <1>4, <1>5, <1>6
  <1> QED BY <1>7 DEF Closest, d

LEMMA SyncInv ==
  ASSUME FramesInv, SyncNext, UNCHANGED queueVars
  PROVE  FramesInv'
  <1> USE FrameAssumption
  <1>1. /\ visible \in Seq(Time) /\ composite \in Seq(Time)
        /\ Len(visible) <= Capacity /\ Len(composite) <= Capacity
        /\ clocks \in [{"visible", "composite"} -> Time]
        /\ clocks.visible \in Time /\ clocks.composite \in Time
        /\ InTime(visible, clocks.visible) /\ InTime(composite, clocks.composite)
    BY DEF FramesInv, QueueSafe, FrameTypeOK, Time
  (* What a step must show. *)
  <1>2. ASSUME visible' \in Seq(Time), composite' \in Seq(Time),
               Len(visible') <= Capacity, Len(composite') <= Capacity,
               clocks' \in [{"visible", "composite"} -> Time],
               InTime(visible', clocks'.visible), InTime(composite', clocks'.composite)
        PROVE  FramesInv'
    BY <1>2 DEF FramesInv, QueueSafe, FrameTypeOK, NewestFramesQueued, SleepsOnlyWhileEmpty,
       NothingToPop, queueVars, Time
  <1>3. ASSUME NEW time \in clocks.visible .. MaxTime, PushVisible(time) PROVE FramesInv'
    <2>1. time \in Time /\ clocks.visible <= time
      BY <1>1 DEF Time
    <2>2. /\ visible' = Added(visible, time) /\ composite' = composite
          /\ clocks' = [clocks EXCEPT !.visible = time]
      BY <1>3 DEF PushVisible
    <2>3. clocks' \in [{"visible", "composite"} -> Time] /\ clocks'.visible = time
          /\ clocks'.composite = clocks.composite
      BY <1>1, <2>1, <2>2
    <2> QED BY <1>1, <1>2, <2>1, <2>2, <2>3, AddedFacts
  <1>4. ASSUME NEW time \in clocks.composite .. MaxTime, PushComposite(time) PROVE FramesInv'
    <2>1. time \in Time /\ clocks.composite <= time
      BY <1>1 DEF Time
    <2>2. /\ composite' = Added(composite, time) /\ visible' = visible
          /\ clocks' = [clocks EXCEPT !.composite = time]
      BY <1>4 DEF PushComposite
    <2>3. clocks' \in [{"visible", "composite"} -> Time] /\ clocks'.composite = time
          /\ clocks'.visible = clocks.visible
      BY <1>1, <2>1, <2>2
    <2> QED BY <1>1, <1>2, <2>1, <2>2, <2>3, AddedFacts
  <1>5. ASSUME TrySync PROVE FramesInv'
    <2>1. visible # <<>> /\ composite # <<>> /\ clocks' = clocks
      BY <1>5 DEF TrySync
    <2>2. /\ Tail(visible) \in Seq(Time) /\ Len(Tail(visible)) <= Capacity
          /\ InTime(Tail(visible), clocks.visible)
      <3>1. 1 \in 1 .. Len(visible) /\ Tail(visible) = SubSeq(visible, 1 + 1, Len(visible))
        BY <1>1, <2>1, TailIsSubSeq
      <3> QED BY <1>1, <3>1, RestFacts
    <2>3. /\ Tail(composite) \in Seq(Time) /\ Len(Tail(composite)) <= Capacity
          /\ InTime(Tail(composite), clocks.composite)
      <3>1. 1 \in 1 .. Len(composite) /\ Tail(composite) = SubSeq(composite, 1 + 1, Len(composite))
        BY <1>1, <2>1, TailIsSubSeq
      <3> QED BY <1>1, <3>1, RestFacts
    <2>4. LET r == SubSeq(composite, Closest + 1, Len(composite))
          IN  r \in Seq(Time) /\ Len(r) <= Capacity /\ InTime(r, clocks.composite)
      <3>1. Closest \in 1 .. Len(composite)
        BY <1>1, <2>1, ClosestFacts
      <3> QED BY <1>1, <3>1, RestFacts
    <2>5. \/ visible' = Tail(visible) /\ composite' = composite
          \/ visible' = visible /\ composite' = Tail(composite)
          \/ visible' = Tail(visible) /\ composite' = SubSeq(composite, Closest + 1, Len(composite))
      BY <1>5 DEF TrySync, UsedComposite
    <2> QED BY <1>1, <1>2, <2>1, <2>2, <2>3, <2>4, <2>5
  <1>6. ASSUME SyncClear PROVE FramesInv'
    <2>1. visible' = <<>> /\ composite' = <<>> /\ clocks' = clocks
      BY <1>6 DEF SyncClear
    <2>2. InTime(<<>>, clocks.visible) /\ InTime(<<>>, clocks.composite)
      BY DEF InTime
    <2>3. <<>> \in Seq(Time) /\ Len(<<>>) <= Capacity
      OBVIOUS
    <2> QED BY <1>1, <1>2, <2>1, <2>2, <2>3
  <1> QED BY <1>3, <1>4, <1>5, <1>6 DEF SyncNext

LEMMA FramesStepInv == FramesInv /\ [FramesNext]_FramesVars => FramesInv'
  <1> SUFFICES ASSUME FramesInv, [FramesNext]_FramesVars PROVE FramesInv'
    OBVIOUS
  <1>1. CASE UNCHANGED FramesVars
    BY <1>1 DEF FramesVars, queueVars, syncVars, FramesInv, QueueSafe, FrameTypeOK, NewestFramesQueued,
       SleepsOnlyWhileEmpty, NothingToPop, InTime
  <1> QED BY <1>1, QueueInv, SyncInv DEF FramesNext

(* FrameQueue: whatever is pushed, popped, cleared and closed in whichever *)
(* order, the queue holds the newest frames, no more than its capacity,    *)
(* every frame is accounted for, and what is handed out is never newer     *)
(* than what is still queued.                                              *)
THEOREM QueueKeepsNewest == FramesSpec => []QueueSafe
  <1>1. FramesInv => QueueSafe
    BY DEF FramesInv
  <1> QED BY <1>1, FrameInitInv, FramesStepInv, PTL DEF FramesSpec

LEMMA DroppedAlone ==
  ASSUME FramesInv, TrySync, group' = NoGroup
  PROVE  /\ visible' # visible => /\ Partners(visible[1], composite) = {}
                                  /\ clocks.composite > visible[1] + MaxDelta
         /\ composite' # composite => /\ Partners(composite[1], visible) = {}
                                      /\ clocks.visible > composite[1] + MaxDelta
  <1> USE FrameAssumption
  <1>1. /\ visible \in Seq(Time) /\ composite \in Seq(Time)
        /\ clocks.visible \in Time /\ clocks.composite \in Time
        /\ InTime(visible, clocks.visible) /\ InTime(composite, clocks.composite)
        /\ visible # <<>> /\ composite # <<>>
    BY DEF FramesInv, QueueSafe, FrameTypeOK, Time, TrySync
  <1>2. /\ 1 \in 1 .. Len(visible) /\ 1 \in 1 .. Len(composite) /\ visible[1] \in Nat /\ composite[1] \in Nat
        /\ \A i \in 1 .. Len(visible) : visible[i] \in Nat /\ visible[1] <= visible[i]
        /\ \A i \in 1 .. Len(composite) : composite[i] \in Nat /\ composite[1] <= composite[i]
        /\ visible[1] <= clocks.visible /\ composite[1] <= clocks.composite
        /\ clocks.visible \in Nat /\ clocks.composite \in Nat
    <2>1. 1 \in 1 .. Len(visible) /\ 1 \in 1 .. Len(composite)
      BY <1>1
    <2>2. /\ \A i \in 1 .. Len(visible) : visible[i] \in Time
          /\ \A i \in 1 .. Len(composite) : composite[i] \in Time
      BY <1>1
    <2>3. /\ \A i \in 1 .. Len(visible) : visible[1] <= visible[i]
          /\ \A i \in 1 .. Len(composite) : composite[1] <= composite[i]
      BY <1>1, <2>1, <2>2, SMTT(30) DEF InTime, Time
    <2> QED BY <1>1, <2>1, <2>2, <2>3, SMTT(30) DEF InTime, Time
  <1>3. Distance(visible[1], composite[Closest]) > MaxDelta
    <2> SUFFICES ASSUME ~(Distance(visible[1], composite[Closest]) > MaxDelta) PROVE FALSE
      OBVIOUS
    <2>1. group' = [visible |-> visible[1], composite |-> composite[Closest]]
      BY DEF TrySync
    <2>2. group'.visible = visible[1] /\ group'.visible = -1
      BY <2>1 DEF NoGroup
    <2> QED BY <1>2, <2>2
  <1>4. \A i \in 1 .. Len(composite) : Distance(visible[1], composite[i]) > MaxDelta
    <2>1. Closest \in 1 .. Len(composite)
          /\ \A j \in 1 .. Len(composite) :
               Distance(visible[1], composite[Closest]) <= Distance(visible[1], composite[j])
      BY <1>1, ClosestFacts
    <2>2. \A i \in 1 .. Len(composite) : Distance(visible[1], composite[i]) \in Nat
      BY <1>2 DEF Distance
    <2> QED BY <1>3, <2>1, <2>2
  <1>5. ASSUME visible' # visible
        PROVE  Partners(visible[1], composite) = {} /\ clocks.composite > visible[1] + MaxDelta
    <2>1. visible[1] < composite[1]
      BY <1>3, <1>5 DEF TrySync, DropsVisible
    <2>2. composite[1] - visible[1] > MaxDelta
      BY <1>2, <1>4, <2>1 DEF Distance
    <2>3. Partners(visible[1], composite) = {}
      <3>1. \A i \in 1 .. Len(composite) : ~(Distance(visible[1], composite[i]) <= MaxDelta)
        BY <1>2, <1>4 DEF Distance
      <3> QED BY <3>1 DEF Partners
    <2> QED BY <1>2, <2>2, <2>3
  <1>6. ASSUME composite' # composite
        PROVE  Partners(composite[1], visible) = {} /\ clocks.visible > composite[1] + MaxDelta
    <2>1. ~(visible[1] < composite[1])
      BY <1>3, <1>6 DEF TrySync, DropsVisible
    <2>2. visible[1] - composite[1] > MaxDelta
      BY <1>2, <1>4, <2>1 DEF Distance
    <2>3. Partners(composite[1], visible) = {}
      <3>1. \A i \in 1 .. Len(visible) : ~(Distance(composite[1], visible[i]) <= MaxDelta)
        BY <1>2, <2>2 DEF Distance
      <3> QED BY <3>1 DEF Partners
    <2> QED BY <1>2, <2>2, <2>3
  <1> QED BY <1>5, <1>6

LEMMA GroupClose ==
  ASSUME FramesInv, TrySync, group' # NoGroup
  PROVE  /\ Distance(group'.visible, group'.composite) <= MaxDelta
         /\ \A i \in 1 .. Len(composite) :
              Distance(visible[1], composite[i]) >= Distance(visible[1], group'.composite)
         /\ \E used \in 1 .. Len(composite) :
              /\ composite[used] = group'.composite
              /\ composite' = SubSeq(composite, used + 1, Len(composite))
              /\ \A i \in 1 .. used - 1 : composite[i] # group'.composite
  <1> USE FrameAssumption
  <1>1. visible \in Seq(Time) /\ composite \in Seq(Time) /\ visible # <<>> /\ composite # <<>>
    BY DEF FramesInv, QueueSafe, FrameTypeOK, Time, TrySync
  <1>2. ~(Distance(visible[1], composite[Closest]) > MaxDelta)
    BY DEF TrySync
  <1>3. /\ group' = [visible |-> visible[1], composite |-> composite[Closest]]
        /\ composite' = SubSeq(composite, Closest + 1, Len(composite))
    BY <1>2 DEF TrySync, UsedComposite
  <1>4. group'.visible = visible[1] /\ group'.composite = composite[Closest]
    BY <1>3
  <1>5. /\ Closest \in 1 .. Len(composite)
        /\ \A j \in 1 .. Len(composite) :
             Distance(visible[1], composite[Closest]) <= Distance(visible[1], composite[j])
        /\ \A j \in 1 .. Closest - 1 :
             Distance(visible[1], composite[Closest]) < Distance(visible[1], composite[j])
    BY <1>1, ClosestFacts
  <1>6. visible[1] \in Nat /\ \A i \in 1 .. Len(composite) : composite[i] \in Nat
    BY <1>1 DEF Time
  <1>7. \A i \in 1 .. Len(composite) : Distance(visible[1], composite[i]) \in Nat
    BY <1>6 DEF Distance
  <1>8. Distance(visible[1], composite[Closest]) \in Nat
    BY <1>5, <1>7
  <1>9. \A i \in 1 .. Closest - 1 : composite[i] # composite[Closest]
    BY <1>5, <1>8
  <1>10. Distance(group'.visible, group'.composite) <= MaxDelta
    BY <1>2, <1>4, <1>8
  <1>11. \A i \in 1 .. Len(composite) :
           Distance(visible[1], composite[i]) >= Distance(visible[1], group'.composite)
    BY <1>4, <1>5, <1>7, <1>8
  <1> QED BY <1>3, <1>4, <1>5, <1>9, <1>10, <1>11

(* FrameSync::trySync, for every capacity and every distance allowed: a    *)
(* frame that is dropped has no partner and can get none, a group is the   *)
(* closest its visible frame can be part of, and no frame is used twice.   *)
THEOREM PairsAreClosest == FramesSpec => PairsRight
  <1>1. FramesInv /\ [FramesNext]_FramesVars =>
          [TrySync /\ group' = NoGroup =>
             /\ visible' # visible => /\ Partners(visible[1], composite) = {}
                                      /\ clocks.composite > visible[1] + MaxDelta
             /\ composite' # composite => /\ Partners(composite[1], visible) = {}
                                          /\ clocks.visible > composite[1] + MaxDelta]_syncVars
    BY DroppedAlone
  <1>2. FramesInv /\ [FramesNext]_FramesVars =>
          [TrySync /\ group' # NoGroup =>
             /\ Distance(group'.visible, group'.composite) <= MaxDelta
             /\ \A i \in 1 .. Len(composite) :
                  Distance(visible[1], composite[i]) >= Distance(visible[1], group'.composite)
             /\ \E used \in 1 .. Len(composite) :
                  /\ composite[used] = group'.composite
                  /\ composite' = SubSeq(composite, used + 1, Len(composite))
                  /\ \A i \in 1 .. used - 1 : composite[i] # group'.composite]_syncVars
    BY GroupClose
  <1>3. FramesInv => FrameTypeOK
    BY DEF FramesInv, QueueSafe
  <1> QED
    BY <1>1, <1>2, <1>3, FrameInitInv, FramesStepInv, PTL
       DEF FramesSpec, PairsRight, DroppedHasNoPartner, GroupIsClosest

----------------------------------------------------------------------------
(* The encoder (MppEncoder) *)

(* What FlattenSeq computes: the concatenation of ever longer prefixes.    *)
IsFlat(f, s, n) ==
    /\ f = [i \in 1 .. n |-> f[i]]
    /\ \A i \in 1 .. n : f[i] = IF i = 1 THEN s[i] ELSE f[i - 1] \o s[i]

LEMMA FlatExists ==
  ASSUME NEW s, NEW N \in Nat
  PROVE  \E f : IsFlat(f, s, N)
  <1> DEFINE T == {n \in Nat : ~\E f : IsFlat(f, s, n)}
  <1> SUFFICES ASSUME T # {} PROVE FALSE
    OBVIOUS
  <1>1. PICK n \in T : \A m \in T : n <= m
    BY LeastNumber
  <1>2. n # 0
    <2>1. IsFlat([i \in 1 .. 0 |-> 0], s, 0)
      BY DEF IsFlat
    <2> QED BY <2>1
  <1>3. n \in Nat /\ n - 1 \in Nat /\ n - 1 \notin T
    BY <1>1, <1>2
  <1>4. PICK g : IsFlat(g, s, n - 1)
    BY <1>3
  <1> DEFINE f == [i \in 1 .. n |-> IF i = n THEN (IF n = 1 THEN s[n] ELSE g[n - 1] \o s[n]) ELSE g[i]]
  <1>5. \A i \in 1 .. n : f[i] = IF i = 1 THEN s[i] ELSE f[i - 1] \o s[i]
    <2> SUFFICES ASSUME NEW i \in 1 .. n PROVE f[i] = IF i = 1 THEN s[i] ELSE f[i - 1] \o s[i]
      OBVIOUS
    <2>1. CASE i = n
      <3>1. n # 1 => n - 1 \in 1 .. n /\ n - 1 # n
        BY <1>3
      <3> QED BY <2>1, <3>1
    <2>2. CASE i # n
      <3>1. i \in 1 .. n - 1 /\ (i # 1 => i - 1 \in 1 .. n /\ i - 1 # n)
        BY <1>3, <2>2
      <3> QED BY <1>4, <2>2, <3>1 DEF IsFlat
    <2> QED BY <2>1, <2>2
  <1>6. IsFlat(f, s, n)
    BY <1>5 DEF IsFlat
  <1> QED BY <1>1, <1>6

LEMMA FlattenIs ==
  ASSUME NEW s, NEW n \in Nat \ {0}, Len(s) = n
  PROVE  \E f : IsFlat(f, s, n) /\ FlattenSeq(s) = f[n]
  <1> DEFINE P(f) == f = [i \in 1 .. Len(s) |-> IF i = 1 THEN s[i] ELSE f[i - 1] \o s[i]]
  <1>1. \A f : IsFlat(f, s, n) <=> P(f)
    BY DEF IsFlat
  <1>2. \E f : P(f)
    BY <1>1, FlatExists
  <1>3. FlattenSeq(s) = (CHOOSE f : P(f))[Len(s)]
    BY DEF FlattenSeq
  <1> QED BY <1>1, <1>2, <1>3

----------------------------------------------------------------------------
(* hasNalType: the bytes of one unit, and where the scan finds a unit.     *)
UnitBytes(u) == Start(u.length) \o <<96 + u.type, 0, 128>>
Hit(data, i, type) ==
    \/ /\ data[i] = 0 /\ data[i + 1] = 0 /\ data[i + 2] = 0 /\ data[i + 3] = 1
       /\ data[i + 4] % 32 = type
    \/ /\ data[i] = 0 /\ data[i + 1] = 0 /\ data[i + 2] = 1
       /\ data[i + 3] % 32 = type
Units == [type : 1 .. 31, length : {3, 4}]

LEMMA ScanIsHit ==
  ASSUME NEW data \in Seq(Nat), NEW type, NEW margin \in {4, 5}
  PROVE  HasNal(data, type, margin) <=> \E i \in 1 .. Len(data) - margin : Hit(data, i, type)
  <1> SUFFICES ASSUME NEW i \in 1 .. Len(data) - margin
               PROVE  (LET start4 == SubSeq(data, i, i + 3) = Start(4)
                           start3 == SubSeq(data, i, i + 2) = Start(3)
                       IN  \/ start4 /\ data[i + 4] % 32 = type
                           \/ ~start4 /\ start3 /\ data[i + 3] % 32 = type)
                      <=> Hit(data, i, type)
    BY DEF HasNal
  <1>1. i \in Nat /\ i >= 1 /\ i + 4 <= Len(data) /\ Len(data) \in Nat
    OBVIOUS
  <1>2. SubSeq(data, i, i + 3) = Start(4)
          <=> data[i] = 0 /\ data[i + 1] = 0 /\ data[i + 2] = 0 /\ data[i + 3] = 1
    <2> DEFINE s == SubSeq(data, i, i + 3)
    <2>1. /\ s \in Seq(Nat) /\ Len(s) = 4
          /\ s[1] = data[i] /\ s[2] = data[i + 1] /\ s[3] = data[i + 2] /\ s[4] = data[i + 3]
      BY <1>1
    <2>2. Start(4) = <<0, 0, 0, 1>>
      BY DEF Start
    <2> HIDE DEF s
    <2>3. s = <<0, 0, 0, 1>> <=> s[1] = 0 /\ s[2] = 0 /\ s[3] = 0 /\ s[4] = 1
      <3>1. s = [x \in 1 .. 4 |-> s[x]]
        BY <2>1
      <3>2. <<0, 0, 0, 1>> = [x \in 1 .. 4 |-> IF x = 4 THEN 1 ELSE 0]
        OBVIOUS
      <3>3. \A x \in 1 .. 4 : x = 1 \/ x = 2 \/ x = 3 \/ x = 4
        OBVIOUS
      <3> QED BY <3>1, <3>2, <3>3
    <2> QED BY <2>1, <2>2, <2>3 DEF s
  <1>3. SubSeq(data, i, i + 2) = Start(3)
          <=> data[i] = 0 /\ data[i + 1] = 0 /\ data[i + 2] = 1
    <2> DEFINE s == SubSeq(data, i, i + 2)
    <2>0. s \in Seq(Nat) /\ Len(s) = 3
      BY <1>1
    <2>1. /\ s \in Seq(Nat) /\ Len(s) = 3
          /\ s[1] = data[i] /\ s[2] = data[i + 1] /\ s[3] = data[i + 2]
      BY <1>1, <2>0
    <2>2. Start(3) = <<0, 0, 1>>
      BY DEF Start
    <2> HIDE DEF s
    <2>3. s = <<0, 0, 1>> <=> s[1] = 0 /\ s[2] = 0 /\ s[3] = 1
      BY <2>1, SMTT(30)
    <2> QED BY <2>1, <2>2, <2>3 DEF s
  <1> QED BY <1>2, <1>3 DEF Hit

LEMMA UnitBytesAre ==
  ASSUME NEW u \in Units, NEW c, c = UnitBytes(u)
  PROVE  /\ c \in Seq(Nat) /\ Len(c) \in {6, 7} /\ Len(c) = u.length + 3
         /\ u.length = 4 => /\ c[1] = 0 /\ c[2] = 0 /\ c[3] = 0 /\ c[4] = 1
                            /\ c[5] = 96 + u.type /\ c[6] = 0 /\ c[7] = 128
         /\ u.length = 3 => /\ c[1] = 0 /\ c[2] = 0 /\ c[3] = 1
                            /\ c[4] = 96 + u.type /\ c[5] = 0 /\ c[6] = 128
         /\ (96 + u.type) % 32 = u.type /\ u.type \in 1 .. 31
  <1> DEFINE t == u.type
  <1>1. t \in 1 .. 31 /\ u.length \in {3, 4}
    BY DEF Units
  <1>2. c = Start(u.length) \o <<96 + t, 0, 128>>
    BY DEF UnitBytes
  <1> HIDE DEF t
  <1>3. (96 + t) % 32 = t
    BY <1>1
  <1>4. CASE u.length = 4
    <2>1. Start(u.length) = <<0, 0, 0, 1>>
      BY <1>4 DEF Start
    <2>2. c = <<0, 0, 0, 1>> \o <<96 + t, 0, 128>> /\ 96 + t \in Nat
      BY <1>1, <1>2, <2>1
    <2>3. c \in Seq(Nat) /\ Len(c) = 7
      BY <2>2
    <2>4. /\ c[1] = 0 /\ c[2] = 0 /\ c[3] = 0 /\ c[4] = 1
          /\ c[5] = 96 + t /\ c[6] = 0 /\ c[7] = 128
      BY <2>2
    <2> QED BY <1>1, <1>3, <1>4, <2>3, <2>4 DEF t
  <1>5. CASE u.length = 3
    <2>1. Start(u.length) = <<0, 0, 1>>
      BY <1>5 DEF Start
    <2>2. c = <<0, 0, 1>> \o <<96 + t, 0, 128>> /\ 96 + t \in Nat
      BY <1>1, <1>2, <2>1
    <2>3. c \in Seq(Nat) /\ Len(c) = 6
      BY <2>2
    <2>4. /\ c[1] = 0 /\ c[2] = 0 /\ c[3] = 1
          /\ c[4] = 96 + t /\ c[5] = 0 /\ c[6] = 128
      BY <2>2
    <2> QED BY <1>1, <1>3, <1>5, <2>3, <2>4 DEF t
  <1> QED BY <1>1, <1>4, <1>5

LEMMA HitBytes ==
  ASSUME NEW d, NEW i, NEW type, Hit(d, i, type)
  PROVE  d[i] = 0 /\ d[i + 1] = 0 /\ (d[i + 2] = 1 \/ (d[i + 2] = 0 /\ d[i + 3] = 1))
  BY Zenon DEF Hit

(* Alone, a unit is found if it has the type, and no other. *)
LEMMA ChunkScan ==
  ASSUME NEW u \in Units, NEW type, NEW margin \in {4, 5}
  PROVE  (\E i \in 1 .. Len(UnitBytes(u)) - margin : Hit(UnitBytes(u), i, type)) <=> u.type = type
  <1> DEFINE c == UnitBytes(u)
  <1>1. /\ c \in Seq(Nat) /\ Len(c) \in {6, 7} /\ Len(c) = u.length + 3
        /\ u.length = 4 => /\ c[1] = 0 /\ c[2] = 0 /\ c[3] = 0 /\ c[4] = 1
                           /\ c[5] = 96 + u.type /\ c[6] = 0 /\ c[7] = 128
        /\ u.length = 3 => /\ c[1] = 0 /\ c[2] = 0 /\ c[3] = 1
                           /\ c[4] = 96 + u.type /\ c[5] = 0 /\ c[6] = 128
        /\ (96 + u.type) % 32 = u.type /\ u.type \in 1 .. 31
    BY UnitBytesAre
  <1> HIDE DEF c
  <1>2. u.length \in {3, 4}
    BY DEF Units
  <1>3. CASE u.length = 4
    <2>1. Hit(c, 1, type) <=> u.type = type
      BY <1>1, <1>3 DEF Hit
    <2>2. Hit(c, 2, type) => u.type = type
      BY <1>1, <1>3 DEF Hit
    <2>3. ~Hit(c, 3, type)
      BY <1>1, <1>3 DEF Hit
    <2>4. 1 \in 1 .. Len(c) - margin /\ \A i \in 1 .. Len(c) - margin : i = 1 \/ i = 2 \/ i = 3
      BY <1>1, <1>3
    <2> QED BY <2>1, <2>2, <2>3, <2>4 DEF c
  <1>4. CASE u.length = 3
    <2>1. Hit(c, 1, type) <=> u.type = type
      BY <1>1, <1>4 DEF Hit
    <2>2. ~Hit(c, 2, type)
      BY <1>1, <1>4 DEF Hit
    <2>3. 1 \in 1 .. Len(c) - margin /\ \A i \in 1 .. Len(c) - margin : i = 1 \/ i = 2
      BY <1>1, <1>4
    <2> QED BY <2>1, <2>2, <2>3 DEF c
  <1> QED BY <1>2, <1>3, <1>4

(* Behind other units, the scan of what came before is not disturbed: no   *)
(* start code lies across the border.                                      *)
UnitEnd(d) == Len(d) >= 3 /\ d[Len(d)] = 128 /\ d[Len(d) - 1] = 0 /\ d[Len(d) - 2] >= 97
Joins(e, d, c) ==
    /\ e \in Seq(Nat) /\ d \in Seq(Nat) /\ c \in Seq(Nat) /\ Len(e) = Len(d) + Len(c)
    /\ \A i \in 1 .. Len(d) : e[i] = d[i]
    /\ \A i \in 1 .. Len(c) : e[Len(d) + i] = c[i]

LEMMA ConcatJoins ==
  ASSUME NEW d \in Seq(Nat), NEW c \in Seq(Nat)
  PROVE  Joins(d \o c, d, c)
  <1>1. d \o c \in Seq(Nat) /\ Len(d \o c) = Len(d) + Len(c) /\ Len(d) \in Nat /\ Len(c) \in Nat
    OBVIOUS
  <1>2. \A i \in 1 .. Len(d) : (d \o c)[i] = d[i]
    OBVIOUS
  <1>3. ASSUME NEW i \in 1 .. Len(c) PROVE (d \o c)[Len(d) + i] = c[i]
    <2>1. Len(d) + i \in 1 .. Len(d) + Len(c) /\ ~(Len(d) + i <= Len(d)) /\ Len(d) + i - Len(d) = i
      BY <1>1
    <2> QED BY <2>1
  <1> QED BY <1>1, <1>2, <1>3 DEF Joins

LEMMA LongerScan ==
  ASSUME NEW d, UnitEnd(d), NEW u \in Units, NEW e, Joins(e, d, UnitBytes(u)),
         NEW type, NEW margin \in {4, 5}
  PROVE  /\ e \in Seq(Nat) /\ UnitEnd(e) /\ Len(e) >= Len(d)
         /\ \A i \in 1 .. Len(d) : e[i] = d[i]
         /\ (\E i \in 1 .. Len(e) - margin : Hit(e, i, type)) <=>
              (\E i \in 1 .. Len(d) - margin : Hit(d, i, type)) \/ u.type = type
  <1> DEFINE c == UnitBytes(u)
             n == Len(d)
             k == Len(c)
  <1>1. /\ c \in Seq(Nat) /\ k \in {6, 7} /\ k = u.length + 3
        /\ u.length = 4 => /\ c[1] = 0 /\ c[2] = 0 /\ c[3] = 0 /\ c[4] = 1
                           /\ c[5] = 96 + u.type /\ c[6] = 0 /\ c[7] = 128
        /\ u.length = 3 => /\ c[1] = 0 /\ c[2] = 0 /\ c[3] = 1
                           /\ c[4] = 96 + u.type /\ c[5] = 0 /\ c[6] = 128
        /\ u.type \in 1 .. 31
    BY UnitBytesAre
  <1>0. u.length \in {3, 4} /\ u.type \in 1 .. 31
    BY DEF Units
  <1>2. u.length \in {3, 4} /\ 96 + u.type >= 97
    BY <1>0
  <1>3. (\E i \in 1 .. k - margin : Hit(c, i, type)) <=> u.type = type
    BY ChunkScan
  <1>4. n \in Nat /\ n >= 3 /\ k \in Nat
    BY <1>1 DEF UnitEnd, Joins
  <1>5. /\ e \in Seq(Nat) /\ Len(e) = n + k
        /\ \A i \in 1 .. n : e[i] = d[i]
        /\ \A i \in 1 .. k : e[n + i] = c[i]
    BY DEF Joins
  <1> HIDE DEF c, k, n
  <1>6. UnitEnd(e)
    <2>1. CASE u.length = 4
      <3>1. k = 7
        BY <1>1, <2>1
      <3>0. 7 \in 1 .. k /\ 6 \in 1 .. k /\ 5 \in 1 .. k
        BY <3>1
      <3>2. e[n + 7] = c[7] /\ e[n + 6] = c[6] /\ e[n + 5] = c[5]
        BY <1>5, <3>0, Zenon
      <3>3. c[7] = 128 /\ c[6] = 0 /\ c[5] = 96 + u.type
        BY <1>1, <2>1, Zenon
      <3>5. /\ Len(e) = n + 7 /\ Len(e) - 1 = n + 6 /\ Len(e) - 2 = n + 5
            /\ Len(e) >= 3
        BY <1>4, <1>5, <3>1
      <3>6. e[n + 7] = 128 /\ e[n + 6] = 0 /\ e[n + 5] >= 97
        BY <1>2, <3>2, <3>3, Zenon
      <3> QED BY <3>5, <3>6, Zenon DEF UnitEnd
    <2>2. CASE u.length = 3
      <3>1. k = 6
        BY <1>1, <2>2
      <3>0. 6 \in 1 .. k /\ 5 \in 1 .. k /\ 4 \in 1 .. k
        BY <3>1
      <3>2. e[n + 6] = c[6] /\ e[n + 5] = c[5] /\ e[n + 4] = c[4]
        BY <1>5, <3>0, Zenon
      <3>3. c[6] = 128 /\ c[5] = 0 /\ c[4] = 96 + u.type
        BY <1>1, <2>2, Zenon
      <3>5. /\ Len(e) = n + 6 /\ Len(e) - 1 = n + 5 /\ Len(e) - 2 = n + 4
            /\ Len(e) >= 3
        BY <1>4, <1>5, <3>1
      <3>6. e[n + 6] = 128 /\ e[n + 5] = 0 /\ e[n + 4] >= 97
        BY <1>2, <3>2, <3>3, Zenon
      <3> QED BY <3>5, <3>6, Zenon DEF UnitEnd
    <2> QED BY <1>2, <2>1, <2>2
  <1>7. d[n] = 128 /\ d[n - 1] = 0 /\ d[n - 2] >= 97
    BY DEF UnitEnd, n
  <1>8. ASSUME NEW i \in 1 .. n - 5 PROVE Hit(e, i, type) <=> Hit(d, i, type)
    <2>1. i \in 1 .. n /\ i + 1 \in 1 .. n /\ i + 2 \in 1 .. n /\ i + 3 \in 1 .. n /\ i + 4 \in 1 .. n
      BY <1>4
    <2> QED BY <1>5, <2>1 DEF Hit
  <1>9. ASSUME NEW i \in 1 .. n, i > n - 5 PROVE ~Hit(e, i, type)
    <2>0. /\ e[n] = 128 /\ e[n - 1] = 0 /\ e[n - 2] >= 97 /\ e[n - 2] \in Nat
      <3>1. n \in 1 .. n /\ n - 1 \in 1 .. n /\ n - 2 \in 1 .. n
        BY <1>4
      <3>2. e[n] = d[n] /\ e[n - 1] = d[n - 1] /\ e[n - 2] = d[n - 2]
        BY <1>5, <3>1
      <3>3. d[n - 2] \in Nat
        <4>1. d \in Seq(Nat) /\ n = Len(d)
          BY DEF n, Joins
        <4> QED BY <3>1, <4>1
      <3> QED BY <1>7, <3>2, <3>3
    <2>1. SUFFICES ASSUME Hit(e, i, type) PROVE FALSE
      OBVIOUS
    <2>2. e[i] = 0 /\ e[i + 1] = 0 /\ (e[i + 2] = 1 \/ (e[i + 2] = 0 /\ e[i + 3] = 1))
      BY <2>1, HitBytes, Zenon
    <2>3. i = n \/ i + 1 = n \/ i = n - 2 \/ (i + 3 = n /\ i + 2 = n - 1)
            \/ (i + 3 = n - 1 /\ i + 2 = n - 2)
      BY <1>4, <1>9
    <2>4. CASE i = n
      BY <2>0, <2>2, <2>4
    <2>5. CASE i + 1 = n
      BY <2>0, <2>2, <2>5
    <2>6. CASE i = n - 2
      BY <2>0, <2>2, <2>6
    <2>7. CASE i + 3 = n /\ i + 2 = n - 1
      BY <2>0, <2>2, <2>7
    <2>8. CASE i + 3 = n - 1 /\ i + 2 = n - 2
      BY <2>0, <2>2, <2>8
    <2> QED BY <2>3, <2>4, <2>5, <2>6, <2>7, <2>8
  <1>10. ASSUME NEW i \in 1 .. n - 4, i > n - 5 PROVE ~Hit(d, i, type)
    <2>1. SUFFICES ASSUME Hit(d, i, type) PROVE FALSE
      OBVIOUS
    <2>2. d[i + 2] = 1 \/ (d[i + 2] = 0 /\ d[i + 3] = 1)
      BY <2>1, HitBytes, Zenon
    <2>3. i + 3 = n - 1 /\ i + 2 = n - 2
      BY <1>4, <1>10
    <2> QED BY <1>7, <2>2, <2>3
  <1>11. ASSUME NEW i \in 1 .. k - 4 PROVE Hit(e, n + i, type) <=> Hit(c, i, type)
    <2>1. /\ i \in 1 .. k /\ i + 1 \in 1 .. k /\ i + 2 \in 1 .. k /\ i + 3 \in 1 .. k /\ i + 4 \in 1 .. k
      BY <1>4
    <2>2. /\ n + i + 1 = n + (i + 1) /\ n + i + 2 = n + (i + 2)
          /\ n + i + 3 = n + (i + 3) /\ n + i + 4 = n + (i + 4)
      BY <1>4
    <2>3. /\ e[n + i] = c[i] /\ e[n + i + 1] = c[i + 1] /\ e[n + i + 2] = c[i + 2]
          /\ e[n + i + 3] = c[i + 3] /\ e[n + i + 4] = c[i + 4]
      BY <1>5, <2>1, <2>2
    <2> QED BY <2>3, Zenon DEF Hit
  <1>12. ASSUME NEW i \in 1 .. Len(e) - margin, Hit(e, i, type)
         PROVE  (\E j \in 1 .. n - margin : Hit(d, j, type)) \/ u.type = type
    <2>0. Len(e) = n + k
      BY <1>5
    <2>1. CASE i <= n - 5
      <3>1. i \in 1 .. n - 5 /\ i \in 1 .. n - margin
        BY <1>4, <2>0, <2>1
      <3> QED BY <1>8, <1>12, <3>1
    <2>2. CASE i > n - 5 /\ i <= n
      <3>1. i \in 1 .. n
        BY <1>4, <2>2
      <3> QED BY <1>9, <1>12, <2>2, <3>1
    <2>3. CASE i > n
      <3>1. i - n \in 1 .. k - 4 /\ i - n \in 1 .. k - margin /\ n + (i - n) = i
        BY <1>4, <2>0, <2>3
      <3> QED BY <1>3, <1>11, <1>12, <3>1
    <2> QED BY <1>4, <2>0, <2>1, <2>2, <2>3
  <1>13. ASSUME NEW j \in 1 .. n - margin, Hit(d, j, type)
         PROVE  \E i \in 1 .. Len(e) - margin : Hit(e, i, type)
    <2>0. Len(e) = n + k
      BY <1>5
    <2>1. j <= n - 5
      <3>1. j \in 1 .. n - 4
        BY <1>4
      <3> QED BY <1>4, <1>10, <1>13, <3>1
    <2>2. j \in 1 .. n - 5 /\ j \in 1 .. Len(e) - margin
      BY <1>4, <2>0, <2>1
    <2> QED BY <1>8, <1>13, <2>2
  <1>14. ASSUME u.type = type
         PROVE  \E i \in 1 .. Len(e) - margin : Hit(e, i, type)
    <2>0. Len(e) = n + k
      BY <1>5
    <2>1. PICK i \in 1 .. k - margin : Hit(c, i, type)
      BY <1>3, <1>14
    <2>2. i \in 1 .. k - 4 /\ n + i \in 1 .. Len(e) - margin
      BY <1>4, <2>0
    <2> QED BY <1>11, <2>1, <2>2
  <1>15. (\E i \in 1 .. Len(e) - margin : Hit(e, i, type)) <=>
           (\E i \in 1 .. n - margin : Hit(d, i, type)) \/ u.type = type
    BY <1>12, <1>13, <1>14
  <1>16. n + k >= n
    BY <1>4
  <1>17. Len(e) = n + k /\ \A i \in 1 .. n : e[i] = d[i]
    BY <1>5
  <1>18. n = Len(d)
    BY DEF n
  <1>19. Len(e) >= Len(d) /\ \A i \in 1 .. Len(d) : e[i] = d[i]
    BY <1>16, <1>17, <1>18
  <1>20. (\E i \in 1 .. Len(e) - margin : Hit(e, i, type)) <=>
           (\E i \in 1 .. Len(d) - margin : Hit(d, i, type)) \/ u.type = type
    BY <1>15 DEF n
  <1> QED BY <1>5, <1>6, <1>19, <1>20, Zenon

(* A unit without others before it. *)
LEMMA FirstUnit ==
  ASSUME NEW u \in Units, NEW type, NEW margin \in {4, 5}
  PROVE  /\ UnitBytes(u) \in Seq(Nat) /\ UnitEnd(UnitBytes(u)) /\ Len(UnitBytes(u)) = u.length + 3
         /\ (\E i \in 1 .. Len(UnitBytes(u)) - margin : Hit(UnitBytes(u), i, type)) <=> u.type = type
  <1> DEFINE c == UnitBytes(u)
  <1>1. /\ c \in Seq(Nat) /\ Len(c) = u.length + 3
        /\ u.length = 4 => c[5] = 96 + u.type /\ c[6] = 0 /\ c[7] = 128
        /\ u.length = 3 => c[4] = 96 + u.type /\ c[5] = 0 /\ c[6] = 128
    BY UnitBytesAre
  <1>2. u.length \in {3, 4} /\ u.type \in 1 .. 31
    BY DEF Units
  <1> HIDE DEF c
  <1>3. 96 + u.type >= 97
    BY <1>2
  <1>4. UnitEnd(c)
    <2>1. CASE u.length = 4
      <3>1. c[5] >= 97 /\ c[6] = 0 /\ c[7] = 128
        BY <1>1, <1>3, <2>1, Zenon
      <3>2. Len(c) = 7 /\ Len(c) >= 3 /\ Len(c) - 1 = 6 /\ Len(c) - 2 = 5
        BY <1>1, <2>1
      <3> QED BY <3>1, <3>2, Zenon DEF UnitEnd
    <2>2. CASE u.length = 3
      <3>1. c[4] >= 97 /\ c[5] = 0 /\ c[6] = 128
        BY <1>1, <1>3, <2>2, Zenon
      <3>2. Len(c) = 6 /\ Len(c) >= 3 /\ Len(c) - 1 = 5 /\ Len(c) - 2 = 4
        BY <1>1, <2>2
      <3> QED BY <3>1, <3>2, Zenon DEF UnitEnd
    <2> QED BY <1>2, <2>1, <2>2
  <1>5. (\E i \in 1 .. Len(c) - margin : Hit(c, i, type)) <=> u.type = type
    BY ChunkScan DEF c
  <1> QED BY <1>1, <1>4, <1>5 DEF c

(* hasNalType finds the units of a stream: for any units in any number,    *)
(* with long or short start codes, the scan tells exactly the types there  *)
(* are, and the stream begins with the bytes of its first unit.            *)
LEMMA ScanTellsTypes ==
  ASSUME NEW units \in Seq(Units), units # <<>>, NEW type, NEW margin \in {4, 5}
  PROVE  /\ HasNal(AnnexB(units), type, margin) <=> type \in Types(units)
         /\ AnnexB(units) \in Seq(Nat) /\ Len(AnnexB(units)) >= Len(UnitBytes(units[1]))
         /\ \A j \in 1 .. Len(UnitBytes(units[1])) : AnnexB(units)[j] = UnitBytes(units[1])[j]
  <1> DEFINE N == Len(units)
             s == [u \in 1 .. N |-> UnitBytes(units[u])]
             first == UnitBytes(units[1])
  <1>1. N \in Nat \ {0} /\ \A i \in 1 .. N : units[i] \in Units
    OBVIOUS
  <1>2. AnnexB(units) = FlattenSeq(s)
    BY DEF AnnexB, UnitBytes
  <1>3. Len(s) = N /\ \A i \in 1 .. N : s[i] = UnitBytes(units[i])
    BY <1>1
  <1> HIDE DEF s, N
  <1>4. PICK f : IsFlat(f, s, N) /\ FlattenSeq(s) = f[N]
    BY <1>1, <1>3, FlattenIs
  <1>5. f[1] = first /\ \A i \in 2 .. N : f[i] = f[i - 1] \o UnitBytes(units[i])
    <2>1. 1 \in 1 .. N /\ \A i \in 2 .. N : i \in 1 .. N /\ i # 1
      BY <1>1
    <2> QED BY <1>3, <1>4, <2>1 DEF IsFlat
  <1> DEFINE Found(d) == \E i \in 1 .. Len(d) - margin : Hit(d, i, type)
             Among(n) == \E x \in 1 .. n : units[x].type = type
             Good(n) == /\ f[n] \in Seq(Nat) /\ UnitEnd(f[n]) /\ Len(f[n]) >= Len(first)
                        /\ \A j \in 1 .. Len(first) : f[n][j] = first[j]
                        /\ Found(f[n]) <=> Among(n)
             Bad == {n \in 1 .. N : ~Good(n)}
  <1>6. Good(1)
    <2>1. units[1] \in Units
      BY <1>1
    <2>2. /\ first \in Seq(Nat) /\ UnitEnd(first) /\ Len(first) \in Nat
          /\ Found(first) <=> units[1].type = type
      <3>1. Found(first) <=> units[1].type = type
        BY <2>1, FirstUnit, Zenon
      <3>2. first \in Seq(Nat) /\ UnitEnd(first)
        BY <2>1, FirstUnit, Zenon
      <3> HIDE DEF first, Found
      <3> QED BY <3>1, <3>2
    <2>3. Among(1) <=> units[1].type = type
      BY <1>1
    <2> HIDE DEF first, Found, Among
    <2> QED BY <1>5, <2>2, <2>3
  <1>7. ASSUME NEW n \in 2 .. N, Good(n - 1) PROVE Good(n)
    <2>0. n \in 1 .. N
      BY <1>1
    <2>1. units[n] \in Units /\ f[n] = f[n - 1] \o UnitBytes(units[n])
      BY <1>1, <1>5, <2>0
    <2> DEFINE d == f[n - 1]
               e == f[n]
    <2>2. d \in Seq(Nat) /\ UnitEnd(d) /\ Len(d) >= Len(first) /\ Joins(e, d, UnitBytes(units[n]))
      <3>1. UnitBytes(units[n]) \in Seq(Nat)
        BY <2>1, FirstUnit
      <3> QED BY <1>7, <2>1, <3>1, ConcatJoins
    <2> HIDE DEF d, e
    <2>3. /\ e \in Seq(Nat) /\ UnitEnd(e) /\ Len(e) >= Len(d)
          /\ \A i \in 1 .. Len(d) : e[i] = d[i]
          /\ Found(e) <=> Found(d) \/ units[n].type = type
      BY <2>1, <2>2, LongerScan, ZenonT(30)
    <2>4. Among(n) <=> Among(n - 1) \/ units[n].type = type
      <3>1. 1 .. n = (1 .. n - 1) \cup {n}
        BY <1>1
      <3> QED BY <3>1
    <2>5. Len(d) \in Nat /\ Len(e) \in Nat /\ Len(first) \in Nat
      <3>1. first \in Seq(Nat)
        <4>1. units[1] \in Units
          BY <1>1
        <4> QED BY <4>1, FirstUnit
      <3> HIDE DEF first
      <3> QED BY <2>2, <2>3, <3>1, SMTT(30)
    <2> HIDE DEF Found, Among, first
    <2>6. Found(d) <=> Among(n - 1)
      BY <1>7 DEF d
    <2>7. \A j \in 1 .. Len(first) : d[j] = first[j]
      BY <1>7 DEF d
    <2>8. \A j \in 1 .. Len(first) : j \in 1 .. Len(d)
      BY <2>2, <2>5
    <2>9. \A j \in 1 .. Len(first) : e[j] = first[j]
      BY <2>3, <2>7, <2>8
    <2>10. Len(e) >= Len(first)
      BY <2>2, <2>3, <2>5
    <2>11. Found(e) <=> Among(n)
      BY <2>3, <2>4, <2>6
    <2> QED BY <2>3, <2>9, <2>10, <2>11 DEF e
  <1> HIDE DEF Good
  <1>8. Bad = {}
    <2> SUFFICES ASSUME Bad # {} PROVE FALSE
      OBVIOUS
    <2>1. Bad \subseteq Nat
      BY <1>1
    <2> HIDE DEF Bad
    <2>2. PICK n \in Bad : \A m \in Bad : n <= m
      BY <2>1, LeastNumber
    <2>3. n \in 1 .. N /\ ~Good(n)
      BY <2>2 DEF Bad
    <2>4. n # 1
      BY <1>6, <2>3
    <2>5. n \in 2 .. N /\ n - 1 \in 1 .. N /\ n - 1 \notin Bad
      BY <1>1, <2>2, <2>3, <2>4
    <2>6. Good(n - 1)
      BY <2>5 DEF Bad
    <2> QED BY <1>7, <2>3, <2>5, <2>6
  <1>9. Good(N)
    BY <1>1, <1>8
  <1>10. Among(N) <=> type \in Types(units)
    BY DEF Types, N
  <1>11. f[N] = AnnexB(units)
    BY <1>2, <1>4
  <1>12. /\ AnnexB(units) \in Seq(Nat) /\ Len(AnnexB(units)) >= Len(first)
         /\ \A j \in 1 .. Len(first) : AnnexB(units)[j] = first[j]
         /\ Found(AnnexB(units)) <=> type \in Types(units)
    BY <1>9, <1>10, <1>11 DEF Good
  <1>13. HasNal(AnnexB(units), type, margin) <=> Found(AnnexB(units))
    BY <1>12, ScanIsHit
  <1> QED BY <1>12, <1>13

----------------------------------------------------------------------------
LEMMA WiderSeq ==
  ASSUME NEW S, NEW T, \A x \in S : x \in T, NEW s \in Seq(S)
  PROVE  s \in Seq(T)
  <1>1. s = [i \in 1 .. Len(s) |-> s[i]] /\ Len(s) \in Nat /\ \A i \in 1 .. Len(s) : s[i] \in T
    OBVIOUS
  <1> QED BY <1>1

LEMMA FirstBytes ==
  ASSUME NEW D \in Seq(Nat), NEW m \in Nat, m <= Len(D)
  PROVE  /\ SubSeq(D, 1, m) \in Seq(Nat) /\ Len(SubSeq(D, 1, m)) = m
         /\ \A k \in 1 .. m : SubSeq(D, 1, m)[k] = D[k]
  OBVIOUS

(* The streams the hardware may send: each of units, and its parameter     *)
(* sets at the front if it has any.                                        *)
LEMMA StreamsAre ==
  ASSUME NEW units \in Streams
  PROVE  /\ units \in Seq(Units) /\ units # <<>> /\ Len(units) \in 1 .. 3
         /\ 7 \in Types(units) => units[1] = Unit(7, 4)
  <1>1. /\ Unit(5, 4) \in Units /\ Unit(1, 4) \in Units /\ Unit(6, 4) \in Units
        /\ Unit(5, 3) \in Units /\ Unit(1, 3) \in Units /\ Unit(7, 4) \in Units
        /\ Unit(8, 3) \in Units
    BY DEF Unit, Units
  <1>2. /\ Unit(5, 4).type # 7 /\ Unit(1, 4).type # 7 /\ Unit(6, 4).type # 7
        /\ Unit(5, 3).type # 7 /\ Unit(1, 3).type # 7
    BY DEF Unit
  <1>3. \/ units = <<Unit(5, 4)>> \/ units = <<Unit(1, 4)>> \/ units = <<Unit(6, 4), Unit(5, 3)>>
        \/ units = <<Unit(1, 3), Unit(1, 3)>> \/ units = <<Unit(7, 4), Unit(8, 3), Unit(5, 3)>>
    BY DEF Streams
  <1>4. units \in Seq(Units) /\ units # <<>> /\ Len(units) \in 1 .. 3
    <2>1. <<Unit(5, 4)>> \in Seq(Units) /\ <<Unit(1, 4)>> \in Seq(Units)
      BY <1>1
    <2>2. <<Unit(6, 4), Unit(5, 3)>> \in Seq(Units) /\ <<Unit(1, 3), Unit(1, 3)>> \in Seq(Units)
      BY <1>1
    <2>3. <<Unit(7, 4), Unit(8, 3), Unit(5, 3)>> \in Seq(Units)
      BY <1>1
    <2>4. units \in Seq(Units)
      BY <1>3, <2>1, <2>2, <2>3, Zenon
    <2>5. Len(units) \in 1 .. 3
      BY <1>3
    <2> QED BY <2>4, <2>5
  <1>5. 7 \in Types(units) => units[1] = Unit(7, 4)
    <2>1. 7 \in Types(units) <=> \E u \in 1 .. Len(units) : units[u].type = 7
      BY DEF Types
    <2> QED BY <1>2, <1>3, <2>1
  <1> QED BY <1>4, <1>5

(* The first seven bytes of a stream that begins with an SPS hold it. *)
LEMMA SpsInFront ==
  ASSUME NEW units \in Seq(Units), units # <<>>, units[1] = Unit(7, 4)
  PROVE  HasSps(SubSeq(AnnexB(units), 1, 7))
  <1> DEFINE c == UnitBytes(units[1])
             D == AnnexB(units)
             s == SubSeq(D, 1, 7)
  <1>1. Unit(7, 4) \in Units /\ Unit(7, 4).type = 7 /\ Unit(7, 4).length = 4
    BY DEF Unit, Units
  <1>2. D \in Seq(Nat) /\ Len(D) >= Len(c) /\ \A j \in 1 .. Len(c) : D[j] = c[j]
    BY ScanTellsTypes
  <1>3. /\ c \in Seq(Nat) /\ Len(c) = 7
        /\ \E i \in 1 .. 7 - 4 : Hit(c, i, 7)
    <2> DEFINE u == units[1]
    <2>1. u \in Units /\ u.type = 7 /\ u.length + 3 = 7
      BY <1>1
    <2> HIDE DEF u
    <2>2. /\ UnitBytes(u) \in Seq(Nat) /\ Len(UnitBytes(u)) = u.length + 3
          /\ (\E i \in 1 .. Len(UnitBytes(u)) - 4 : Hit(UnitBytes(u), i, 7)) <=> u.type = 7
      BY <2>1, FirstUnit
    <2> QED BY <2>1, <2>2 DEF u
  <1>4. \E i \in 1 .. 3 : Hit(c, i, 7)
    BY <1>3
  <1> HIDE DEF D, c
  <1>5. s \in Seq(Nat) /\ Len(s) = 7 /\ \A j \in 1 .. 7 : s[j] = c[j]
    <2>1. Len(D) \in Nat /\ Len(D) >= 7
      BY <1>2, <1>3
    <2>2. s \in Seq(Nat) /\ Len(s) = 7 /\ \A j \in 1 .. 7 : s[j] = D[j]
      <3>1. D \in Seq(Nat) /\ 7 \in Nat /\ 7 <= Len(D)
        BY <1>2, <2>1
      <3> QED BY <3>1, FirstBytes
    <2> QED BY <1>2, <1>3, <2>2
  <1> HIDE DEF s
  <1>6. PICK i \in 1 .. 3 : Hit(c, i, 7)
    BY <1>4
  <1>7. s[i] = c[i] /\ s[i + 1] = c[i + 1] /\ s[i + 2] = c[i + 2] /\ s[i + 3] = c[i + 3]
          /\ s[i + 4] = c[i + 4]
    BY <1>5
  <1>8. Hit(s, i, 7)
    BY <1>6, <1>7, Zenon DEF Hit
  <1>9. HasNal(s, 7, 4)
    <2>1. Len(s) - 4 = 3
      BY <1>5
    <2>2. HasNal(s, 7, 4) <=> \E x \in 1 .. Len(s) - 4 : Hit(s, x, 7)
      BY <1>5, ScanIsHit
    <2> QED BY <1>8, <2>1, <2>2
  <1> QED BY <1>9 DEF HasSps, s, D

(* What encode() gives is right, whichever stream the hardware sends. *)
LEMMA PacketIsRight ==
  ASSUME NEW units \in Streams, NEW packet, packet = EncodedPacket(units)
  PROVE  /\ packet.ok /\ packet.pts = encodes + 1 /\ packet.of = Head(Put)
         /\ packet.key <=> 5 \in Types(packet.nals)
         /\ packet.key /\ (encoder.extraInfo \/ 7 \in Types(packet.nals)) =>
              HasSps(SubSeq(packet.data, 1, 7))
  <1>1. /\ units \in Seq(Units) /\ units # <<>>
        /\ 7 \in Types(units) => units[1] = Unit(7, 4)
    BY StreamsAre
  <1>2. /\ packet.ok /\ packet.pts = encodes + 1 /\ packet.of = Head(Put) /\ packet.nals = units
        /\ packet.key = HasIdr(AnnexB(units)) /\ packet.data = AnnexB(WithHeaders(units))
    BY DEF EncodedPacket
  <1>3. HasIdr(AnnexB(units)) <=> 5 \in Types(units)
    BY <1>1, ScanTellsTypes DEF HasIdr
  <1>4. HasSps(AnnexB(units)) <=> 7 \in Types(units)
    BY <1>1, ScanTellsTypes DEF HasSps
  <1>5. ASSUME HasIdr(AnnexB(units)), encoder.extraInfo \/ 7 \in Types(units)
        PROVE  HasSps(SubSeq(AnnexB(WithHeaders(units)), 1, 7))
    <2>1. CASE 7 \in Types(units)
      <3>1. WithHeaders(units) = units
        BY <1>4, <2>1 DEF WithHeaders
      <3> QED BY <1>1, <2>1, <3>1, SpsInFront
    <2>2. CASE 7 \notin Types(units)
      <3>1. WithHeaders(units) = Headers \o units
        BY <1>4, <1>5, <2>2 DEF WithHeaders
      <3>2. Headers \in Seq(Units) /\ Len(Headers) = 2 /\ Headers[1] = Unit(7, 4)
        <4>1. Unit(7, 4) \in Units /\ Unit(8, 4) \in Units
          BY DEF Unit, Units
        <4> QED BY <4>1 DEF Headers
      <3>3. /\ Headers \o units \in Seq(Units) /\ Headers \o units # <<>>
            /\ (Headers \o units)[1] = Unit(7, 4)
        <4> DEFINE h == Headers
        <4>1. h \in Seq(Units) /\ Len(h) = 2 /\ h[1] = Unit(7, 4)
          BY <3>2
        <4> HIDE DEF h
        <4>2. h \o units \in Seq(Units) /\ Len(h \o units) # 0 /\ (h \o units)[1] = h[1]
          BY <1>1, <4>1, ConcatProperties
        <4> QED BY <4>1, <4>2 DEF h
      <3> QED BY <3>1, <3>3, SpsInFront
    <2> QED BY <2>1, <2>2
  <1> QED BY <1>2, <1>3, <1>5

----------------------------------------------------------------------------
MppSpec == MppInit /\ [][MppNext]_encVars

(* The hardware holds pictures given before, as many as packets were       *)
(* missed since init(): none missed, and the next packet is of the picture *)
(* just given; one missed, and it never is.                                *)
EncoderInv ==
    /\ encoder \in [ready : BOOLEAN, extraInfo : BOOLEAN]
    /\ opens \in 0 .. MaxOpens /\ encodes \in 0 .. MaxEncodes /\ missed \in 0 .. encodes
    /\ hardware \in Seq(1 .. encodes) /\ Len(hardware) = IF encoder.ready THEN missed ELSE 0
    /\ NothingLeaked /\ KeyFrameDecodable
    /\ output.ok => (output.pts = output.of <=> missed = 0)

(* Whatever it has taken, a call gives back what it took. *)
LEMMA BalanceIs ==
  ASSUME NEW before \in [Kinds -> Nat], NEW taken, NEW returned, returned \subseteq taken
  PROVE  /\ Balance(before, taken, returned) \in [Kinds -> Nat]
         /\ \A k \in Kinds : Balance(before, taken, returned)[k] =
              IF k \in taken \ returned THEN before[k] + 1 ELSE before[k]
  <1>1. \A k \in Kinds : before[k] \in Nat
    OBVIOUS
  <1>2. \A k \in Kinds : k \in returned => k \in taken
    OBVIOUS
  <1>3. \A k \in Kinds : (before[k] + IF k \in taken THEN 1 ELSE 0) - (IF k \in returned THEN 1 ELSE 0)
                           = IF k \in taken \ returned THEN before[k] + 1 ELSE before[k]
    BY <1>1, <1>2
  <1> QED BY <1>1, <1>3 DEF Balance

LEMMA ReleaseGivesBack ==
  ASSUME NothingLeaked, encoder.ready \in BOOLEAN
  PROVE  ReleasedLive = [k \in Kinds |-> 0]
  <1>1. \A k \in Kinds : live[k] = IF k = "context" /\ encoder.ready THEN 1 ELSE 0
    BY DEF NothingLeaked
  <1>2. ReleasedLive = [k \in Kinds |->
            (live[k] + IF k \in {} THEN 1 ELSE 0)
              - IF k \in (IF encoder.ready THEN {"context"} ELSE {}) THEN 1 ELSE 0]
    BY DEF ReleasedLive, Balance
  <1>3. \A k \in Kinds : (live[k] + IF k \in {} THEN 1 ELSE 0)
              - (IF k \in (IF encoder.ready THEN {"context"} ELSE {}) THEN 1 ELSE 0) = 0
    BY <1>1
  <1> QED BY <1>2, <1>3

LEMMA EncoderStep ==
  ASSUME EncoderInv, [MppNext]_encVars
  PROVE  EncoderInv'
  <1>0. /\ encoder.ready \in BOOLEAN /\ encoder.extraInfo \in BOOLEAN
        /\ opens \in Nat /\ encodes \in Nat /\ missed \in Nat
        /\ encoder = [ready |-> encoder.ready, extraInfo |-> encoder.extraInfo]
    BY EncoderAssumption DEF EncoderInv
  <1>1. ReleasedLive = [k \in Kinds |-> 0]
    BY <1>0, ReleaseGivesBack DEF EncoderInv
  <1>2. CASE ReleaseEncoder
    <2>1. encoder' = [ready |-> FALSE, extraInfo |-> encoder.extraInfo]
      BY <1>0, <1>2 DEF ReleaseEncoder
    <2>2. live' = [k \in Kinds |-> 0] /\ hardware' = <<>>
      BY <1>1, <1>2 DEF ReleaseEncoder, ClearedHardware
    <2>3. UNCHANGED <<opens, encodes, missed, output>>
      BY <1>2 DEF ReleaseEncoder
    <2>4. encoder'.ready = FALSE /\ encoder'.extraInfo = encoder.extraInfo
      BY <2>1
    <2>5. NothingLeaked'
      BY <2>2, <2>4 DEF NothingLeaked
    <2>6. KeyFrameDecodable'
      BY <2>3, <2>4 DEF EncoderInv, KeyFrameDecodable
    <2>7. encoder' \in [ready : BOOLEAN, extraInfo : BOOLEAN]
      BY <1>0, <2>1
    <2>8. hardware' \in Seq(1 .. encodes') /\ Len(hardware') = IF encoder'.ready THEN missed' ELSE 0
      BY <2>2, <2>4
    <2> QED BY <2>3, <2>5, <2>6, <2>7, <2>8 DEF EncoderInv
  <1>3. CASE OpenEncoder
    <2>1. PICK stage \in OpenStages, got \in BOOLEAN :
            /\ live' = Balance(ReleasedLive, OpenTakes(stage), OpenReturns(stage))
            /\ encoder' = IF stage = "open" THEN [ready |-> TRUE, extraInfo |-> got]
                          ELSE [encoder EXCEPT !.ready = FALSE]
      BY <1>3 DEF OpenEncoder
    <2>2. /\ opens' = opens + 1 /\ opens' \in 0 .. MaxOpens /\ encodes' = encodes
          /\ hardware' = <<>> /\ missed' = 0 /\ output' = NoAnswer
      BY <1>0, <1>3, EncoderAssumption DEF OpenEncoder, ClearedHardware
    <2>3. encoder' = [ready |-> stage = "open",
                      extraInfo |-> IF stage = "open" THEN got ELSE encoder.extraInfo]
      <3>1. CASE stage = "open"
        BY <2>1, <3>1
      <3>2. CASE stage # "open"
        BY <1>0, <2>1, <3>2
      <3> QED BY <3>1, <3>2
    <2>4. encoder'.ready = (stage = "open") /\ encoder' \in [ready : BOOLEAN, extraInfo : BOOLEAN]
      BY <1>0, <2>3
    <2>5. \A k \in Kinds : live'[k] = IF k \in OpenTakes(stage) \ OpenReturns(stage) THEN 1 ELSE 0
      <3>1. OpenReturns(stage) \subseteq OpenTakes(stage)
        BY DEF OpenReturns, OpenTakes
      <3> QED BY <1>1, <2>1, <3>1, BalanceIs
    <2>6. \A k \in Kinds : k \in OpenTakes(stage) \ OpenReturns(stage) <=> k = "context" /\ stage = "open"
      BY DEF OpenReturns, OpenTakes
    <2>7. NothingLeaked'
      <3>1. live' = [k \in Kinds |-> live'[k]]
        BY <2>1 DEF Balance
      <3> QED BY <2>4, <2>5, <2>6, <3>1 DEF NothingLeaked
    <2>8. ~output'.ok
      BY <2>2 DEF NoAnswer
    <2>9. hardware' \in Seq(1 .. encodes') /\ Len(hardware') = IF encoder'.ready THEN missed' ELSE 0
      BY <2>2
    <2> QED BY <1>0, <2>2, <2>4, <2>7, <2>8, <2>9 DEF EncoderInv, KeyFrameDecodable
  <1>4. CASE Encode
    <2>1. PICK stage \in EncodeStages :
            /\ (stage = "not ready") <=> ~encoder.ready
            /\ live' = Balance(live, EncodeTakes(stage), EncodeReturns(stage))
            /\ hardware' = CASE stage = "encoded"   -> RestOfHardware
                             [] stage = "no packet" -> Put
                             [] OTHER               -> hardware
            /\ missed' = IF stage = "no packet" THEN missed + 1 ELSE missed
            /\ IF stage = "encoded"
                 THEN \E units \in Streams : output' = EncodedPacket(units)
                 ELSE output' = NoAnswer
      BY <1>4 DEF Encode
    <2>2. encodes' = encodes + 1 /\ encodes' \in 0 .. MaxEncodes /\ encoder' = encoder /\ opens' = opens
      <3>1. encodes < MaxEncodes /\ encodes' = encodes + 1 /\ UNCHANGED <<encoder, opens>>
        BY <1>4 DEF Encode
      <3> QED BY <1>0, <3>1, EncoderAssumption
    <2>3. NothingLeaked'
      <3>1. live \in [Kinds -> Nat]
        BY DEF EncoderInv, NothingLeaked
      <3>2. /\ live' \in [Kinds -> Nat]
            /\ \A k \in Kinds : live'[k] = live[k]
        <4> DEFINE taken == EncodeTakes(stage)
        <4>1. live' = Balance(live, taken, taken) /\ taken \subseteq taken
          BY <2>1 DEF EncodeReturns
        <4> HIDE DEF taken
        <4>2. /\ Balance(live, taken, taken) \in [Kinds -> Nat]
              /\ \A k \in Kinds : Balance(live, taken, taken)[k] =
                   IF k \in taken \ taken THEN live[k] + 1 ELSE live[k]
          BY <3>1, <4>1, BalanceIs
        <4> QED BY <4>1, <4>2
      <3>3. live' = live
        BY <3>1, <3>2
      <3> QED BY <2>2, <3>3 DEF EncoderInv, NothingLeaked
    <2>4. /\ Put \in Seq(1 .. encodes + 1) /\ Len(Put) = Len(hardware) + 1 /\ Len(hardware) \in Nat
          /\ hardware \in Seq(1 .. encodes + 1) /\ hardware \in Seq(1 .. encodes)
      <3>1. hardware \in Seq(1 .. encodes)
        BY DEF EncoderInv
      <3>2. \A x \in 1 .. encodes : x \in 1 .. encodes + 1
        BY <1>0
      <3>3. hardware \in Seq(1 .. encodes + 1)
        BY <3>1, <3>2, WiderSeq
      <3>4. encodes + 1 \in 1 .. encodes + 1
        BY <1>0
      <3> QED BY <3>1, <3>3, <3>4 DEF Put
    <2>5. Tail(Put) \in Seq(1 .. encodes + 1) /\ Len(Tail(Put)) = Len(hardware)
      BY <2>4
    <2>6. encoder.ready => Len(hardware) = missed
      BY DEF EncoderInv
    <2>7. hardware' \in Seq(1 .. encodes')
      BY <2>1, <2>2, <2>4, <2>5 DEF RestOfHardware
    <2>8. Len(hardware') = IF encoder'.ready THEN missed' ELSE 0
      <3>1. CASE ~encoder.ready
        BY <2>1, <2>2, <3>1 DEF EncoderInv
      <3>2. CASE encoder.ready
        BY <1>0, <2>1, <2>2, <2>4, <2>5, <2>6, <3>2 DEF RestOfHardware
      <3> QED BY <3>1, <3>2
    <2>9. missed' \in 0 .. encodes'
      <3>1. missed \in 0 .. encodes
        BY DEF EncoderInv
      <3>2. missed' = missed \/ missed' = missed + 1
        BY <2>1
      <3> QED BY <1>0, <2>2, <3>1, <3>2
    <2>10. KeyFrameDecodable' /\ (output'.ok => (output'.pts = output'.of <=> missed' = 0))
      <3>1. CASE stage # "encoded"
        <4>1. ~output'.ok
          <5>1. output' = NoAnswer
            BY <2>1, <3>1
          <5> QED BY <5>1 DEF NoAnswer
        <4> QED BY <4>1 DEF KeyFrameDecodable
      <3>2. CASE stage = "encoded"
        <4>1. PICK units \in Streams : output' = EncodedPacket(units)
          BY <2>1, <3>2
        <4>2. /\ output'.ok /\ output'.pts = encodes + 1 /\ output'.of = Head(Put)
              /\ output'.key <=> 5 \in Types(output'.nals)
              /\ output'.key /\ (encoder.extraInfo \/ 7 \in Types(output'.nals)) =>
                   HasSps(SubSeq(output'.data, 1, 7))
          BY <4>1, PacketIsRight
        <4>3. KeyFrameDecodable'
          BY <2>2, <4>2 DEF KeyFrameDecodable
        <4>4. encoder.ready /\ missed' = missed /\ Len(hardware) = missed
          BY <2>1, <2>6, <3>2
        <4>5. CASE missed = 0
          <5>1. hardware = <<>>
            BY <2>4, <4>4, <4>5
          <5>2. Head(Put) = encodes + 1
            BY <5>1 DEF Put
          <5> QED BY <4>2, <4>3, <4>4, <4>5, <5>2
        <4>6. CASE missed # 0
          <5>1. 1 \in 1 .. Len(hardware)
            BY <1>0, <2>4, <4>4, <4>6
          <5>2. Head(Put) = hardware[1] /\ hardware[1] \in 1 .. encodes
            <6>1. Head(Put) = Put[1] /\ Put[1] = hardware[1]
              BY <2>4, <5>1 DEF Put
            <6>2. hardware[1] \in 1 .. encodes
              BY <2>4, <5>1, ElementOfSeq
            <6> QED BY <6>1, <6>2
          <5>3. Head(Put) # encodes + 1
            BY <1>0, <5>2
          <5> QED BY <4>2, <4>3, <4>4, <4>6, <5>3
        <4> QED BY <4>5, <4>6
      <3> QED BY <3>1, <3>2
    <2> QED BY <2>2, <2>3, <2>7, <2>8, <2>9, <2>10 DEF EncoderInv
  <1>5. CASE UNCHANGED encVars
    BY <1>5 DEF encVars, EncoderInv, NothingLeaked, KeyFrameDecodable
  <1> QED BY <1>2, <1>3, <1>4, <1>5 DEF MppNext

(* Whichever call of the library fails, and however often: nothing is      *)
(* kept, a key frame can be decoded, and the label of a packet is that of  *)
(* its picture exactly as long as no packet was missed.                    *)
THEOREM PacketsDecodable == MppSpec => []EncoderSafe
  <1>1. MppInit => EncoderInv
    <2> SUFFICES ASSUME MppInit PROVE EncoderInv
      OBVIOUS
    <2>1. ~output.ok /\ ~encoder.ready /\ hardware = <<>> /\ opens = 0 /\ encodes = 0 /\ missed = 0
      BY DEF MppInit, NoAnswer
    <2>2. encoder \in [ready : BOOLEAN, extraInfo : BOOLEAN]
      BY DEF MppInit
    <2>3. NothingLeaked
      BY <2>1 DEF MppInit, NothingLeaked
    <2> QED BY <2>1, <2>2, <2>3, EncoderAssumption DEF EncoderInv, KeyFrameDecodable
  <1>2. EncoderInv /\ [MppNext]_encVars => EncoderInv'
    BY EncoderStep
  <1>3. EncoderInv => EncoderSafe
    <2> SUFFICES ASSUME EncoderInv PROVE EncoderSafe
      OBVIOUS
    <2>1. missed \in 0 .. MaxEncodes /\ \A x \in 1 .. encodes : x \in 1 .. MaxEncodes
      BY EncoderAssumption DEF EncoderInv
    <2>2. hardware \in Seq(1 .. MaxEncodes)
      BY <2>1, WiderSeq DEF EncoderInv
    <2>3. live \in [Kinds -> Nat]
      BY DEF EncoderInv, NothingLeaked
    <2> QED BY <2>1, <2>2, <2>3 DEF EncoderInv, EncoderSafe, MppTypeOK, LabelOfItsPicture
  <1> QED BY <1>1, <1>2, <1>3, PTL DEF MppSpec

----------------------------------------------------------------------------
(* From a frame to its packets (RtpJpeg) *)

RtpSpec == RtpInit /\ [][RtpNext]_rtpVars

(* FlattenSeq: of nothing, of one more, and of which type. *)
LEMMA FlatUnique ==
  ASSUME NEW f, NEW g, NEW s, NEW t, NEW n \in Nat, NEW m \in Nat, n <= m,
         IsFlat(f, s, n), IsFlat(g, t, m), \A i \in 1 .. n : s[i] = t[i]
  PROVE  \A i \in 1 .. n : f[i] = g[i]
  <1> DEFINE T == {i \in 1 .. n : f[i] # g[i]}
  <1> SUFFICES ASSUME T # {} PROVE FALSE
    OBVIOUS
  <1>1. T \subseteq Nat
    OBVIOUS
  <1> HIDE DEF T
  <1>2. PICK i \in T : \A x \in T : i <= x
    BY <1>1, LeastNumber
  <1>3. i \in 1 .. n /\ f[i] # g[i] /\ i \in 1 .. m
    BY <1>2 DEF T
  <1>4. f[i] = (IF i = 1 THEN s[i] ELSE f[i - 1] \o s[i]) /\ g[i] = (IF i = 1 THEN t[i] ELSE g[i - 1] \o t[i])
    BY <1>3 DEF IsFlat
  <1>5. s[i] = t[i]
    BY <1>3
  <1>6. CASE i = 1
    BY <1>3, <1>4, <1>5, <1>6
  <1>7. CASE i # 1
    <2>1. i - 1 \in 1 .. n /\ ~(i <= i - 1)
      BY <1>3, <1>7
    <2>2. i - 1 \notin T
      BY <1>2, <2>1
    <2>3. f[i - 1] = g[i - 1]
      BY <2>1, <2>2 DEF T
    <2> QED BY <1>3, <1>4, <1>5, <1>7, <2>3
  <1> QED BY <1>6, <1>7

LEMMA FlattenNone ==
  ASSUME NEW s, Len(s) = 0
  PROVE  FlattenSeq(s) = s
  BY DEF FlattenSeq

LEMMA FlattenOne ==
  ASSUME NEW s, Len(s) = 1
  PROVE  FlattenSeq(s) = s[1]
  <1>1. 1 \in Nat \ {0} /\ 1 \in 1 .. 1
    OBVIOUS
  <1>2. PICK f : IsFlat(f, s, 1) /\ FlattenSeq(s) = f[1]
    BY <1>1, FlattenIs, Zenon
  <1> QED BY <1>1, <1>2 DEF IsFlat

LEMMA FlattenMore ==
  ASSUME NEW s, NEW t, NEW n \in Nat, n # 0, Len(s) = n, Len(t) = n + 1,
         \A i \in 1 .. n : s[i] = t[i]
  PROVE  FlattenSeq(t) = FlattenSeq(s) \o t[n + 1]
  <1>1. PICK f : IsFlat(f, s, n) /\ FlattenSeq(s) = f[n]
    BY FlattenIs
  <1>2. n + 1 \in Nat \ {0}
    OBVIOUS
  <1>3. PICK g : IsFlat(g, t, n + 1) /\ FlattenSeq(t) = g[n + 1]
    BY <1>2, FlattenIs
  <1>4. f[n] = g[n]
    <2>1. n \in 1 .. n /\ n <= n + 1 /\ n + 1 \in Nat
      OBVIOUS
    <2> QED BY <1>1, <1>3, <2>1, FlatUnique
  <1>5. g[n + 1] = g[n] \o t[n + 1]
    <2> DEFINE k == n + 1
    <2>1. k \in 1 .. k /\ k # 1 /\ k - 1 = n
      OBVIOUS
    <2>2. \A i \in 1 .. k : g[i] = IF i = 1 THEN t[i] ELSE g[i - 1] \o t[i]
      BY <1>3 DEF IsFlat
    <2> HIDE DEF k
    <2>3. g[k] = g[k - 1] \o t[k]
      BY <2>1, <2>2, Zenon
    <2>4. g[k] = g[n] \o t[k]
      BY <2>1, <2>3
    <2> QED BY <2>4 DEF k
  <1> QED BY <1>1, <1>3, <1>4, <1>5

LEMMA FlattenType ==
  ASSUME NEW T, NEW s, NEW n \in Nat, Len(s) = n, \A i \in 1 .. n : s[i] \in Seq(T),
         n = 0 => s = <<>>
  PROVE  FlattenSeq(s) \in Seq(T)
  <1>1. CASE n = 0
    <2>1. FlattenSeq(s) = <<>>
      BY <1>1, FlattenNone
    <2> QED BY <2>1
  <1>2. CASE n # 0
    <2>1. PICK f : IsFlat(f, s, n) /\ FlattenSeq(s) = f[n]
      BY <1>2, FlattenIs
    <2> DEFINE B == {i \in 1 .. n : f[i] \notin Seq(T)}
    <2> SUFFICES ASSUME B # {} PROVE FALSE
      BY <1>2, <2>1
    <2>2. B \subseteq Nat
      OBVIOUS
    <2> HIDE DEF B
    <2>3. PICK i \in B : \A x \in B : i <= x
      BY <2>2, LeastNumber
    <2>4. i \in 1 .. n /\ f[i] \notin Seq(T)
      BY <2>3 DEF B
    <2>5. f[i] = IF i = 1 THEN s[i] ELSE f[i - 1] \o s[i]
      BY <2>1, <2>4 DEF IsFlat
    <2>6. s[i] \in Seq(T)
      BY <2>4
    <2>7. i # 1
      BY <2>4, <2>5, <2>6
    <2>8. i - 1 \in 1 .. n /\ ~(i <= i - 1)
      BY <2>4, <2>7
    <2>9. f[i - 1] \in Seq(T)
      BY <2>3, <2>8 DEF B
    <2> QED BY <2>4, <2>5, <2>6, <2>7, <2>9, ConcatProperties
  <1> QED BY <1>1, <1>2

(* The lesser and the greater of two numbers, and the first of a set. *)
LEMMA LesserIs ==
  ASSUME NEW a \in Int, NEW b \in Int
  PROVE  Min({a, b}) = IF a <= b THEN a ELSE b
  <1> DEFINE m == IF a <= b THEN a ELSE b
  <1>1. m \in {a, b} /\ \A y \in {a, b} : m <= y
    OBVIOUS
  <1>2. \A x \in {a, b} : (\A y \in {a, b} : x <= y) => x = m
    OBVIOUS
  <1> QED BY <1>1, <1>2 DEF Min

LEMMA GreaterIs ==
  ASSUME NEW a \in Int, NEW b \in Int
  PROVE  Max({a, b}) = IF a >= b THEN a ELSE b
  <1> DEFINE m == IF a >= b THEN a ELSE b
  <1>1. m \in {a, b} /\ \A y \in {a, b} : m >= y
    OBVIOUS
  <1>2. \A x \in {a, b} : (\A y \in {a, b} : x >= y) => x = m
    OBVIOUS
  <1> QED BY <1>1, <1>2 DEF Max

LEMMA FirstIs ==
  ASSUME Size \in Nat, NEW S, S \subseteq Nat
  PROVE  /\ First(S) \in S \cup {Size + 1} /\ First(S) \in Nat /\ First(S) <= Size + 1
         /\ \A x \in S : First(S) <= x
  <1> DEFINE T == S \cup {Size + 1}
  <1>1. T \subseteq Nat /\ Size + 1 \in T
    OBVIOUS
  <1> HIDE DEF T
  <1>2. PICK m \in T : \A y \in T : m <= y
    BY <1>1, LeastNumber
  <1>3. First(S) \in T /\ \A y \in T : First(S) <= y
    BY <1>2 DEF First, Min, T
  <1> QED BY <1>1, <1>3 DEF T

(* Where a sequence holds another one. *)
Holds(J, at, s) ==
    /\ at \in Nat \ {0} /\ at + Len(s) - 1 <= Len(J)
    /\ \A i \in 1 .. Len(s) : J[at - 1 + i] = s[i]

LEMMA HoldsLeft ==
  ASSUME NEW T, NEW a \in Seq(T), NEW b \in Seq(T), NEW s \in Seq(T), NEW at, Holds(a, at, s)
  PROVE  Holds(a \o b, at, s)
  <1>1. at \in Nat \ {0} /\ Len(a) \in Nat /\ Len(b) \in Nat /\ Len(s) \in Nat
    BY DEF Holds
  <1>2. Len(a \o b) = Len(a) + Len(b) /\ \A i \in 1 .. Len(a) : (a \o b)[i] = a[i]
    BY ConcatProperties
  <1>3. at + Len(s) - 1 <= Len(a) /\ \A i \in 1 .. Len(s) : a[at - 1 + i] = s[i]
    BY DEF Holds
  <1>4. \A i \in 1 .. Len(s) : at - 1 + i \in 1 .. Len(a)
    BY <1>1, <1>3
  <1> QED BY <1>1, <1>2, <1>3, <1>4 DEF Holds

LEMMA HoldsRight ==
  ASSUME NEW T, NEW a \in Seq(T), NEW b \in Seq(T)
  PROVE  Holds(a \o b, Len(a) + 1, b)
  <1>1. Len(a) \in Nat /\ Len(b) \in Nat
    OBVIOUS
  <1>2. Len(a \o b) = Len(a) + Len(b) /\ \A i \in 1 .. Len(b) : (a \o b)[Len(a) + i] = b[i]
    <2>1. Len(a \o b) = Len(a) + Len(b)
      BY ConcatProperties
    <2>2. ASSUME NEW i \in 1 .. Len(b) PROVE (a \o b)[Len(a) + i] = b[i]
      OBVIOUS
    <2> QED BY <2>1, <2>2
  <1>3. \A i \in 1 .. Len(b) : Len(a) + 1 - 1 + i = Len(a) + i
    BY <1>1
  <1> QED BY <1>1, <1>2, <1>3 DEF Holds

LEMMA HoldsWithin ==
  ASSUME NEW J, NEW s, NEW u, NEW a, NEW b, Len(J) \in Nat, Len(s) \in Nat, Len(u) \in Nat,
         Holds(J, a, s), Holds(s, b, u)
  PROVE  Holds(J, a + b - 1, u)
  <1>1. a \in Nat \ {0} /\ b \in Nat \ {0} /\ a + Len(s) - 1 <= Len(J) /\ b + Len(u) - 1 <= Len(s)
    BY DEF Holds
  <1>2. ASSUME NEW i \in 1 .. Len(u) PROVE J[a + b - 1 - 1 + i] = u[i]
    <2>1. b - 1 + i \in 1 .. Len(s) /\ a - 1 + (b - 1 + i) = a + b - 1 - 1 + i
      BY <1>1
    <2>2. J[a - 1 + (b - 1 + i)] = s[b - 1 + i]
      BY <2>1 DEF Holds
    <2>3. s[b - 1 + i] = u[i]
      BY DEF Holds
    <2> QED BY <2>1, <2>2, <2>3
  <1>3. a + b - 1 \in Nat \ {0} /\ a + b - 1 + Len(u) - 1 <= Len(J)
    BY <1>1
  <1> QED BY <1>2, <1>3 DEF Holds

LEMMA ConcatBytes ==
  ASSUME NEW T, NEW a \in Seq(T), NEW b \in Seq(T)
  PROVE  /\ a \o b \in Seq(T) /\ Len(a \o b) = Len(a) + Len(b) /\ Len(a) \in Nat /\ Len(b) \in Nat
         /\ \A i \in 1 .. Len(a) : (a \o b)[i] = a[i]
         /\ Holds(a \o b, Len(a) + 1, b)
  <1>1. Len(a) \in Nat /\ Len(b) \in Nat
    OBVIOUS
  <1>2. /\ a \o b \in Seq(T) /\ Len(a \o b) = Len(a) + Len(b)
        /\ \A i \in 1 .. Len(a) : (a \o b)[i] = a[i]
    BY ConcatProperties
  <1>3. Holds(a \o b, Len(a) + 1, b)
    BY HoldsRight
  <1> QED BY <1>1, <1>2, <1>3

LEMMA HoldsBoth ==
  ASSUME NEW T, NEW a \in Seq(T), NEW b \in Seq(T), NEW J \in Seq(T), NEW at \in Nat, Holds(J, at, a \o b)
  PROVE  Holds(J, at, a) /\ Holds(J, at + Len(a), b)
  <1>1. /\ Len(J) \in Nat /\ Len(a) \in Nat /\ Len(b) \in Nat /\ Len(a \o b) = Len(a) + Len(b)
        /\ Holds(a \o b, Len(a) + 1, b) /\ \A i \in 1 .. Len(a) : (a \o b)[i] = a[i]
    <2>1. Len(J) \in Nat
      OBVIOUS
    <2>2. /\ Len(a) \in Nat /\ Len(b) \in Nat /\ Len(a \o b) = Len(a) + Len(b)
          /\ Holds(a \o b, Len(a) + 1, b) /\ \A i \in 1 .. Len(a) : (a \o b)[i] = a[i]
      BY ConcatBytes, Zenon
    <2> QED BY <2>1, <2>2
  <1>2. Len(a \o b) \in Nat
    BY <1>1
  <1>3. Holds(a \o b, 1, a)
    <2>1. \A i \in 1 .. Len(a) : 1 - 1 + i = i
      BY <1>1
    <2> QED BY <1>1, <2>1 DEF Holds
  <1>4. Holds(J, at + 1 - 1, a)
    BY <1>1, <1>2, <1>3, HoldsWithin, Zenon
  <1>5. Holds(J, at + (Len(a) + 1) - 1, b)
    BY <1>1, <1>2, HoldsWithin, Zenon
  <1>6. at + 1 - 1 = at /\ at + (Len(a) + 1) - 1 = at + Len(a)
    BY <1>1
  <1> QED BY <1>4, <1>5, <1>6

(* The lengths of the segments of a picture, and its height and width. *)
Lengths == 0 .. 999
Sides == 0 .. 9999

LEMMA TwoBytes ==
  ASSUME NEW l \in Lengths
  PROVE  /\ (l + 2) \div 256 \in Octet /\ (l + 2) % 256 \in Octet
         /\ 256 * ((l + 2) \div 256) + ((l + 2) % 256) = l + 2
  <1>1. l \in Int /\ 0 <= l /\ l <= 999
    BY DEF Lengths
  <1> DEFINE q == (l + 2) \div 256
             r == (l + 2) % 256
  <1>2. q \in Int /\ r \in Int /\ 0 <= r /\ r <= 255 /\ l + 2 = 256 * q + r
    BY <1>1
  <1> HIDE DEF q, r
  <1>3. 0 <= q /\ q <= 255
    BY <1>1, <1>2
  <1>4. q \in Octet /\ r \in Octet
    BY <1>2, <1>3 DEF Octet
  <1> QED BY <1>2, <1>4 DEF q, r

LEMMA SegmentIs ==
  ASSUME NEW marker \in Octet, NEW data \in Seq(Octet), Len(data) \in Lengths
  PROVE  /\ Segment(marker, data) \in Seq(Octet) /\ Len(Segment(marker, data)) = Len(data) + 4
         /\ Segment(marker, data)[1] = Mark /\ Segment(marker, data)[2] = marker
         /\ 256 * Segment(marker, data)[3] + Segment(marker, data)[4] = Len(data) + 2
         /\ Holds(Segment(marker, data), 5, data)
  <1> DEFINE n == Len(data) + 2
             front == <<Mark, marker, n \div 256, n % 256>>
  <1>2. n \div 256 \in Octet /\ n % 256 \in Octet /\ 256 * (n \div 256) + (n % 256) = n
    BY TwoBytes
  <1> HIDE DEF n
  <1>3. Mark \in Octet
    BY DEF Mark, Octet
  <1>4. front \in Seq(Octet) /\ Len(front) = 4
    BY <1>2, <1>3
  <1>5. front[1] = Mark /\ front[2] = marker /\ front[3] = n \div 256 /\ front[4] = n % 256
    OBVIOUS
  <1> HIDE DEF front
  <1>6. Segment(marker, data) = front \o data
    BY DEF Segment, front, n
  <1>7. \A i \in 1 .. 4 : (front \o data)[i] = front[i]
    <2>1. \A i \in 1 .. Len(front) : (front \o data)[i] = front[i]
      BY <1>4, ConcatBytes, Zenon
    <2> QED BY <1>4, <2>1
  <1>8. front \o data \in Seq(Octet) /\ Len(front \o data) = 4 + Len(data)
    <2>1. front \o data \in Seq(Octet) /\ Len(front \o data) = Len(front) + Len(data)
      BY <1>4, ConcatBytes, Zenon
    <2> QED BY <1>4, <2>1
  <1>9. Holds(front \o data, 5, data)
    <2>1. Holds(front \o data, Len(front) + 1, data)
      BY <1>4, ConcatBytes, Zenon
    <2> QED BY <1>4, <2>1
  <1>10. 1 \in 1 .. 4 /\ 2 \in 1 .. 4 /\ 3 \in 1 .. 4 /\ 4 \in 1 .. 4
    OBVIOUS
  <1>11. /\ Segment(marker, data)[1] = Mark /\ Segment(marker, data)[2] = marker
         /\ Segment(marker, data)[3] = n \div 256 /\ Segment(marker, data)[4] = n % 256
    <2>1. /\ (front \o data)[1] = front[1] /\ (front \o data)[2] = front[2]
          /\ (front \o data)[3] = front[3] /\ (front \o data)[4] = front[4]
      BY <1>7, <1>10, Zenon
    <2> QED BY <1>5, <1>6, <2>1, Zenon
  <1>12. 256 * Segment(marker, data)[3] + Segment(marker, data)[4] = Len(data) + 2
    BY <1>2, <1>11 DEF n
  <1> QED BY <1>6, <1>8, <1>9, <1>11, <1>12

Values(v) == [i \in 1 .. TableSize |-> v]

LEMMA TableIs ==
  ASSUME NEW precision \in 0 .. 1, NEW v \in Octet
  PROVE  /\ Table(precision, v) \in Seq(Octet) /\ Len(Table(precision, v)) = TableSize + 1
         /\ Table(precision, v)[1] = precision * 16
         /\ \A i \in 1 .. TableSize : Table(precision, v)[i + 1] = v
         /\ Tail(Table(precision, v)) = Values(v) /\ Values(v) \in Seq(Octet) /\ Len(Values(v)) = TableSize
  <1>1. TableSize \in 1 .. 64
    BY RtpAssumption
  <1>2. Values(v) \in Seq(Octet) /\ Len(Values(v)) = TableSize /\ \A i \in 1 .. TableSize : Values(v)[i] = v
    BY <1>1 DEF Values
  <1> DEFINE front == <<precision * 16>>
  <1>3. front \in Seq(Octet) /\ Len(front) = 1 /\ front[1] = precision * 16
    BY DEF Octet
  <1> HIDE DEF front
  <1>4. Table(precision, v) = front \o Values(v)
    BY DEF Table, Values, front
  <1>5. /\ front \o Values(v) \in Seq(Octet) /\ Len(front \o Values(v)) = 1 + TableSize
        /\ (front \o Values(v))[1] = front[1] /\ Holds(front \o Values(v), 2, Values(v))
    <2>0. front \o Values(v) \in Seq(Octet) /\ Len(front \o Values(v)) = Len(front) + Len(Values(v))
      BY <1>2, <1>3, ConcatBytes, Zenon
    <2>1. front \o Values(v) \in Seq(Octet) /\ Len(front \o Values(v)) = 1 + TableSize
      BY <1>2, <1>3, <2>0
    <2>2. (\A i \in 1 .. Len(front) : (front \o Values(v))[i] = front[i])
          /\ Holds(front \o Values(v), Len(front) + 1, Values(v))
      BY <1>2, <1>3, ConcatBytes, Zenon
    <2>3. Len(front) + 1 = 2 /\ 1 \in 1 .. Len(front)
      BY <1>3
    <2> QED BY <2>1, <2>2, <2>3
  <1>6. \A i \in 1 .. TableSize : (front \o Values(v))[i + 1] = v
    BY <1>1, <1>2, <1>5 DEF Holds
  <1>7. Tail(front \o Values(v)) = Values(v)
    <2> DEFINE w == front \o Values(v)
    <2>1. w \in Seq(Octet) /\ Len(w) = TableSize + 1 /\ \A i \in 1 .. TableSize : w[i + 1] = v
      BY <1>1, <1>5, <1>6
    <2> HIDE DEF w
    <2>2. Tail(w) \in Seq(Octet) /\ Len(Tail(w)) = TableSize /\ \A i \in 1 .. TableSize : Tail(w)[i] = w[i + 1]
      BY <1>1, <2>1
    <2>3. \A i \in 1 .. TableSize : Tail(w)[i] = Values(v)[i]
      BY <1>2, <2>1, <2>2
    <2> QED BY <1>2, <2>2, <2>3, SeqEqual DEF w
  <1> QED BY <1>1, <1>2, <1>3, <1>4, <1>5, <1>6, <1>7

LEMMA FlattenTwo ==
  ASSUME NEW s, Len(s) = 2
  PROVE  FlattenSeq(s) = s[1] \o s[2]
  <1> DEFINE r == <<s[1]>>
  <1>1. Len(r) = 1 /\ r[1] = s[1]
    OBVIOUS
  <1> HIDE DEF r
  <1>2. FlattenSeq(r) = s[1]
    BY <1>1, FlattenOne
  <1>3. \A i \in 1 .. 1 : r[i] = s[i]
    BY <1>1
  <1>4. FlattenSeq(s) = FlattenSeq(r) \o s[1 + 1]
    <2>1. 1 \in Nat /\ 1 # 0 /\ Len(s) = 1 + 1
      OBVIOUS
    <2> QED BY <1>1, <1>3, <2>1, FlattenMore
  <1> QED BY <1>2, <1>4

(* What a picture may consist of. *)
LEMMA PictureParts ==
  ASSUME NEW p \in Pictures
  PROVE  /\ p.fill \in {<<>>, <<0, Mark>>, <<Mark, 1>>} /\ p.tables \in Quantisations
         /\ p.joined \in BOOLEAN /\ p.sof \in Sofs /\ p.scan \in Scans /\ p.ended \in BOOLEAN
         /\ p.cut \in Cuts
  BY DEF Pictures

LEMMA QuantisationNone ==
  ASSUME NEW p, p.tables = <<>>
  PROVE  /\ Quantisation(p) = IF p.joined THEN Segment(DQT, <<>>) ELSE <<>>
         /\ FlattenSeq([i \in 1 .. Len(p.tables) |-> Tail(Tables(p)[i])]) = <<>>
  <1>1. Len(p.tables) = 0
    OBVIOUS
  <1>2. ASSUME NEW f, f = [i \in 1 .. 0 |-> f[i]]
        PROVE  f = <<>> /\ FlattenSeq(f) = <<>>
    <2>1. f = <<>> /\ Len(f) = 0
      BY <1>2
    <2> QED BY <2>1, FlattenNone
  <1>3. FlattenSeq(Tables(p)) = <<>>
    BY <1>1, <1>2 DEF Tables
  <1>4. FlattenSeq([i \in 1 .. Len(p.tables) |-> Segment(DQT, Tables(p)[i])]) = <<>>
    BY <1>1, <1>2
  <1>5. FlattenSeq([i \in 1 .. Len(p.tables) |-> Tail(Tables(p)[i])]) = <<>>
    BY <1>1, <1>2
  <1> QED BY <1>3, <1>4, <1>5 DEF Quantisation

LEMMA QuantisationOne ==
  ASSUME NEW p, NEW precision \in 0 .. 1, NEW v \in Octet, p.tables = << <<precision, v>> >>
  PROVE  /\ Quantisation(p) = Segment(DQT, Table(precision, v))
         /\ FlattenSeq([i \in 1 .. Len(p.tables) |-> Tail(Tables(p)[i])]) = Values(v)
  <1>1. Len(p.tables) = 1 /\ p.tables[1][1] = precision /\ p.tables[1][2] = v
    OBVIOUS
  <1>2. 1 \in 1 .. 1
    OBVIOUS
  <1>3. Tables(p) = [i \in 1 .. 1 |-> Table(p.tables[i][1], p.tables[i][2])]
    BY <1>1 DEF Tables
  <1>4. Len(Tables(p)) = 1 /\ Tables(p)[1] = Table(precision, v)
    BY <1>1, <1>2, <1>3
  <1>5. FlattenSeq(Tables(p)) = Table(precision, v)
    BY <1>4, FlattenOne
  <1>6. FlattenSeq([i \in 1 .. Len(p.tables) |-> Segment(DQT, Tables(p)[i])]) = Segment(DQT, Table(precision, v))
    <2> DEFINE s == [i \in 1 .. Len(p.tables) |-> Segment(DQT, Tables(p)[i])]
    <2>1. Len(s) = 1 /\ s[1] = Segment(DQT, Table(precision, v))
      BY <1>1, <1>2, <1>4
    <2> HIDE DEF s
    <2>2. FlattenSeq(s) = Segment(DQT, Table(precision, v))
      BY <2>1, FlattenOne
    <2> QED BY <2>2 DEF s
  <1>7. FlattenSeq([i \in 1 .. Len(p.tables) |-> Tail(Tables(p)[i])]) = Values(v)
    <2> DEFINE s == [i \in 1 .. Len(p.tables) |-> Tail(Tables(p)[i])]
    <2>1. Len(s) = 1 /\ s[1] = Tail(Table(precision, v))
      BY <1>1, <1>2, <1>4
    <2> HIDE DEF s
    <2>2. FlattenSeq(s) = Values(v)
      BY <2>1, FlattenOne, TableIs
    <2> QED BY <2>2 DEF s
  <1> QED BY <1>5, <1>6, <1>7 DEF Quantisation

LEMMA QuantisationTwo ==
  ASSUME NEW p, NEW v \in Octet, NEW w \in Octet, p.tables = << <<0, v>>, <<0, w>> >>
  PROVE  /\ Quantisation(p) = IF p.joined THEN Segment(DQT, Table(0, v) \o Table(0, w))
                              ELSE Segment(DQT, Table(0, v)) \o Segment(DQT, Table(0, w))
         /\ FlattenSeq([i \in 1 .. Len(p.tables) |-> Tail(Tables(p)[i])]) = Values(v) \o Values(w)
  <1>1. /\ Len(p.tables) = 2 /\ p.tables[1][1] = 0 /\ p.tables[1][2] = v
        /\ p.tables[2][1] = 0 /\ p.tables[2][2] = w
    OBVIOUS
  <1>2. 1 \in 1 .. 2 /\ 2 \in 1 .. 2
    OBVIOUS
  <1>3. Tables(p) = [i \in 1 .. 2 |-> Table(p.tables[i][1], p.tables[i][2])]
    BY <1>1 DEF Tables
  <1>4. Len(Tables(p)) = 2 /\ Tables(p)[1] = Table(0, v) /\ Tables(p)[2] = Table(0, w)
    BY <1>1, <1>2, <1>3
  <1>5. FlattenSeq(Tables(p)) = Table(0, v) \o Table(0, w)
    BY <1>4, FlattenTwo
  <1>6. FlattenSeq([i \in 1 .. Len(p.tables) |-> Segment(DQT, Tables(p)[i])])
          = Segment(DQT, Table(0, v)) \o Segment(DQT, Table(0, w))
    <2> DEFINE s == [i \in 1 .. Len(p.tables) |-> Segment(DQT, Tables(p)[i])]
    <2>1. Len(s) = 2 /\ s[1] = Segment(DQT, Table(0, v)) /\ s[2] = Segment(DQT, Table(0, w))
      BY <1>1, <1>2, <1>4
    <2> HIDE DEF s
    <2>2. FlattenSeq(s) = s[1] \o s[2]
      BY <2>1, FlattenTwo
    <2> QED BY <2>1, <2>2 DEF s
  <1>7. FlattenSeq([i \in 1 .. Len(p.tables) |-> Tail(Tables(p)[i])]) = Values(v) \o Values(w)
    <2> DEFINE s == [i \in 1 .. Len(p.tables) |-> Tail(Tables(p)[i])]
    <2>1. Len(s) = 2 /\ s[1] = Tail(Table(0, v)) /\ s[2] = Tail(Table(0, w))
      BY <1>1, <1>2, <1>4
    <2> HIDE DEF s
    <2>2. FlattenSeq(s) = s[1] \o s[2]
      BY <2>1, FlattenTwo
    <2>3. Tail(Table(0, v)) = Values(v) /\ Tail(Table(0, w)) = Values(w)
      <3>1. 0 \in 0 .. 1
        OBVIOUS
      <3> QED BY <3>1, TableIs, Zenon
    <2> QED BY <2>1, <2>2, <2>3 DEF s
  <1> QED BY <1>5, <1>6, <1>7 DEF Quantisation

LEMMA IsLength ==
  ASSUME NEW x \in Int, 0 <= x, x <= 999
  PROVE  x \in Lengths
  BY DEF Lengths

LEMMA TableLengths ==
  /\ TableSize \in Nat /\ TableSize >= 1
  /\ 0 \in Lengths /\ TableSize + 1 \in Lengths /\ (TableSize + 1) + (TableSize + 1) \in Lengths
  <1>1. TableSize \in 1 .. 64
    BY RtpAssumption
  <1>2. TableSize \in Int /\ 1 <= TableSize /\ TableSize <= 64
    BY <1>1
  <1>3. /\ 0 \in Int /\ TableSize + 1 \in Int /\ (TableSize + 1) + (TableSize + 1) \in Int
        /\ 0 <= 0 /\ 0 <= TableSize + 1 /\ 0 <= (TableSize + 1) + (TableSize + 1)
        /\ 0 <= 999 /\ TableSize + 1 <= 999 /\ (TableSize + 1) + (TableSize + 1) <= 999
    BY <1>2
  <1>4. 0 \in Lengths
    BY DEF Lengths
  <1>5. TableSize + 1 \in Lengths
    BY <1>3, IsLength
  <1>6. (TableSize + 1) + (TableSize + 1) \in Lengths
    BY <1>3, IsLength
  <1> QED BY <1>2, <1>4, <1>5, <1>6

LEMMA QuantisationBytes ==
  ASSUME NEW p \in Pictures
  PROVE  Quantisation(p) \in Seq(Octet)
  <1>1. p.joined \in BOOLEAN /\ p.tables \in Quantisations
    BY PictureParts
  <1>2. /\ p.tables = <<>> \/ p.tables = << <<0, 7>> >> \/ p.tables = << <<1, 7>> >>
           \/ p.tables = << <<0, 7>>, <<0, 255>> >>
    BY <1>1 DEF Quantisations
  <1>3. 7 \in Octet /\ 255 \in Octet /\ DQT \in Octet /\ 0 \in 0 .. 1 /\ 1 \in 0 .. 1
    BY DEF Octet, DQT
  <1>4. 0 \in Lengths /\ TableSize + 1 \in Lengths /\ (TableSize + 1) + (TableSize + 1) \in Lengths
    BY TableLengths
  <1>5. CASE p.tables = <<>>
    <2>1. <<>> \in Seq(Octet) /\ Len(<<>>) = 0
      OBVIOUS
    <2>2. Segment(DQT, <<>>) \in Seq(Octet)
      BY <1>3, <1>4, <2>1, SegmentIs
    <2> QED BY <1>1, <1>5, <2>1, <2>2, QuantisationNone
  <1>6. ASSUME NEW precision \in 0 .. 1, NEW v \in Octet
        PROVE  Table(precision, v) \in Seq(Octet) /\ Segment(DQT, Table(precision, v)) \in Seq(Octet)
    <2>1. Table(precision, v) \in Seq(Octet) /\ Len(Table(precision, v)) = TableSize + 1
      BY TableIs, Zenon
    <2> QED BY <1>3, <1>4, <2>1, SegmentIs
  <1>7. CASE p.tables = << <<0, 7>> >>
    <2>1. Quantisation(p) = Segment(DQT, Table(0, 7))
      BY <1>3, <1>7, QuantisationOne, Zenon
    <2> QED BY <1>3, <1>6, <2>1, Zenon
  <1>8. CASE p.tables = << <<1, 7>> >>
    <2>1. Quantisation(p) = Segment(DQT, Table(1, 7))
      BY <1>3, <1>8, QuantisationOne, Zenon
    <2> QED BY <1>3, <1>6, <2>1, Zenon
  <1>9. ASSUME NEW v \in Octet, NEW w \in Octet, p.tables = << <<0, v>>, <<0, w>> >>
        PROVE  Quantisation(p) \in Seq(Octet)
    <2> DEFINE a == Table(0, v)
               b == Table(0, w)
    <2>1. a \in Seq(Octet) /\ Len(a) = TableSize + 1 /\ b \in Seq(Octet) /\ Len(b) = TableSize + 1
      BY <1>3, TableIs, Zenon
    <2>2. Quantisation(p) = IF p.joined THEN Segment(DQT, a \o b) ELSE Segment(DQT, a) \o Segment(DQT, b)
      BY <1>9, QuantisationTwo, Zenon
    <2>3. Segment(DQT, a) \in Seq(Octet) /\ Segment(DQT, b) \in Seq(Octet)
      BY <1>3, <1>6, Zenon
    <2> HIDE DEF a, b
    <2>4. a \o b \in Seq(Octet) /\ Len(a \o b) = Len(a) + Len(b)
      BY <2>1, ConcatBytes, Zenon
    <2>5. Segment(DQT, a \o b) \in Seq(Octet)
      <3>1. Len(a \o b) \in Lengths
        BY <1>4, <2>1, <2>4
      <3> QED BY <1>3, <2>4, <3>1, SegmentIs, Zenon
    <2>6. Segment(DQT, a) \o Segment(DQT, b) \in Seq(Octet)
      BY <2>3, ConcatBytes, Zenon
    <2> QED BY <1>1, <2>2, <2>5, <2>6
  <1> QED BY <1>2, <1>3, <1>5, <1>7, <1>8, <1>9

(* The frame header: what follows its length. *)
Payload(s) ==
    <<s.precision, s.height \div 256, s.height % 256, s.width \div 256, s.width % 256, s.components>>
    \o IF s.components = 1 THEN <<1, 17, 0>> ELSE <<1, s.sampling, 0, 2, 17, 1, 3, 17, 1>>

LEMMA SmallNumber ==
  ASSUME NEW h \in Sides
  PROVE  h \div 256 \in Octet /\ h % 256 \in Octet /\ 256 * (h \div 256) + (h % 256) = h
  <1> DEFINE q == h \div 256
             r == h % 256
  <1>0. h \in Int /\ 0 <= h /\ h <= 9999
    BY DEF Sides
  <1>1. q \in Int /\ r \in Int /\ 0 <= r /\ r <= 255 /\ h = 256 * q + r
    BY <1>0
  <1> HIDE DEF q, r
  <1>2. 0 <= q /\ q <= 255
    BY <1>0, <1>1
  <1>3. q \in Octet /\ r \in Octet
    BY <1>1, <1>2 DEF Octet
  <1> QED BY <1>1, <1>3 DEF q, r

LEMMA PayloadIs ==
  ASSUME NEW s \in Sofs
  PROVE  /\ Payload(s) \in Seq(Octet) /\ Len(Payload(s)) \in Lengths /\ Len(Payload(s)) >= 9
         /\ s.components = 3 => Len(Payload(s)) = 15 /\ Payload(s)[8] = s.sampling
         /\ Payload(s)[1] = s.precision
         /\ 256 * Payload(s)[2] + Payload(s)[3] = s.height
         /\ 256 * Payload(s)[4] + Payload(s)[5] = s.width
         /\ Payload(s)[6] = s.components
         /\ s.components \in {1, 3} /\ s.marker \in {0, SOF0, SOF2}
  <1>1. /\ s.components \in {1, 3} /\ s.marker \in {0, SOF0, SOF2} /\ s.precision \in {8, 12}
        /\ s.height \in {600, 272, 20, 16, 0} /\ s.width \in {800, 16, 2056} /\ s.sampling \in {34, 33, 17}
    BY DEF Sofs, Sof
  <1> DEFINE front == <<s.precision, s.height \div 256, s.height % 256,
                        s.width \div 256, s.width % 256, s.components>>
             back == IF s.components = 1 THEN <<1, 17, 0>> ELSE <<1, s.sampling, 0, 2, 17, 1, 3, 17, 1>>
  <1>2. /\ s.height \div 256 \in Octet /\ s.height % 256 \in Octet
        /\ s.width \div 256 \in Octet /\ s.width % 256 \in Octet
        /\ 256 * (s.height \div 256) + (s.height % 256) = s.height
        /\ 256 * (s.width \div 256) + (s.width % 256) = s.width
    <2>1. s.height \in Sides /\ s.width \in Sides
      BY <1>1 DEF Sides
    <2>2. /\ s.height \div 256 \in Octet /\ s.height % 256 \in Octet
          /\ 256 * (s.height \div 256) + (s.height % 256) = s.height
      BY <2>1, SmallNumber, Zenon
    <2>3. /\ s.width \div 256 \in Octet /\ s.width % 256 \in Octet
          /\ 256 * (s.width \div 256) + (s.width % 256) = s.width
      BY <2>1, SmallNumber, Zenon
    <2> QED BY <2>2, <2>3, Zenon
  <1>3. /\ front \in Seq(Octet) /\ Len(front) = 6
        /\ front[1] = s.precision /\ front[2] = s.height \div 256 /\ front[3] = s.height % 256
        /\ front[4] = s.width \div 256 /\ front[5] = s.width % 256 /\ front[6] = s.components
    <2>1. s.precision \in Octet /\ s.components \in Octet
      BY <1>1 DEF Octet
    <2> QED BY <1>2, <2>1
  <1>4. /\ back \in Seq(Octet) /\ Len(back) \in {3, 9}
        /\ s.components = 3 => Len(back) = 9 /\ back[2] = s.sampling
    <2>1. s.sampling \in Octet /\ 0 \in Octet /\ 1 \in Octet /\ 2 \in Octet /\ 3 \in Octet /\ 17 \in Octet
      BY <1>1 DEF Octet
    <2>2. CASE s.components = 1
      BY <2>1, <2>2
    <2>3. CASE s.components = 3
      BY <2>1, <2>3
    <2> QED BY <1>1, <2>2, <2>3
  <1> HIDE DEF front, back
  <1>5. Payload(s) = front \o back
    BY DEF Payload, front, back
  <1>6. /\ front \o back \in Seq(Octet) /\ Len(front \o back) = Len(front) + Len(back)
        /\ (\A i \in 1 .. Len(front) : (front \o back)[i] = front[i])
        /\ Holds(front \o back, Len(front) + 1, back)
    <2>1. front \in Seq(Octet) /\ back \in Seq(Octet)
      BY <1>3, <1>4
    <2> QED BY <2>1, ConcatBytes, Zenon
  <1>7. /\ 1 \in 1 .. Len(front) /\ 2 \in 1 .. Len(front) /\ 3 \in 1 .. Len(front)
        /\ 4 \in 1 .. Len(front) /\ 5 \in 1 .. Len(front) /\ 6 \in 1 .. Len(front)
    BY <1>3
  <1>8. /\ Payload(s)[1] = front[1] /\ Payload(s)[2] = front[2] /\ Payload(s)[3] = front[3]
        /\ Payload(s)[4] = front[4] /\ Payload(s)[5] = front[5] /\ Payload(s)[6] = front[6]
    <2>1. \A i \in 1 .. Len(front) : Payload(s)[i] = front[i]
      BY <1>5, <1>6
    <2> QED BY <1>7, <2>1, Zenon
  <1>9. s.components = 3 => Payload(s)[8] = s.sampling
    <2>1. Len(back) = 9 => 2 \in 1 .. Len(back)
      OBVIOUS
    <2>2. Len(back) = 9 => (front \o back)[Len(front) + 1 - 1 + 2] = back[2]
      <3>1. \A i \in 1 .. Len(back) : (front \o back)[Len(front) + 1 - 1 + i] = back[i]
        BY <1>6 DEF Holds
      <3> QED BY <2>1, <3>1
    <2>3. Len(front) + 1 - 1 + 2 = 8
      BY <1>3
    <2> QED BY <1>4, <1>5, <2>2, <2>3
  <1>10. Len(Payload(s)) \in {9, 15} /\ (s.components = 3 => Len(Payload(s)) = 15)
    <2>1. Len(Payload(s)) = 6 + Len(back)
      BY <1>3, <1>5, <1>6
    <2>2. Len(back) \in {3, 9} /\ (s.components = 3 => Len(back) = 9)
      BY <1>4
    <2>3. CASE Len(back) = 3
      BY <2>1, <2>2, <2>3
    <2>4. CASE Len(back) = 9
      BY <2>1, <2>4
    <2> QED BY <2>2, <2>3, <2>4
  <1>11. Len(Payload(s)) \in Lengths /\ Len(Payload(s)) >= 9
    <2>1. /\ Len(Payload(s)) \in Int /\ 0 <= Len(Payload(s)) /\ Len(Payload(s)) <= 999
          /\ Len(Payload(s)) >= 9
      <3> DEFINE l == Len(Payload(s))
      <3>1. l = 9 \/ l = 15
        BY <1>10
      <3> HIDE DEF l
      <3>2. l \in Int /\ 0 <= l /\ l <= 999 /\ l >= 9
        BY <3>1
      <3> QED BY <3>2 DEF l
    <2> QED BY <2>1, IsLength
  <1> QED BY <1>1, <1>2, <1>3, <1>5, <1>6, <1>8, <1>9, <1>10, <1>11

LEMMA HeaderBytes ==
  ASSUME NEW s \in Sofs
  PROVE  /\ FrameHeader(s) \in Seq(Octet)
         /\ s.marker = SOF0 => FrameHeader(s) = Segment(SOF0, Payload(s))
  <1>1. s.marker \in {0, SOF0, SOF2} /\ Payload(s) \in Seq(Octet) /\ Len(Payload(s)) \in Lengths
    BY PayloadIs
  <1>2. SOF0 \in Octet /\ SOF2 \in Octet /\ SOF0 # 0 /\ SOF2 # 0
    BY DEF Octet, SOF0, SOF2
  <1>3. s.marker # 0 => FrameHeader(s) = Segment(s.marker, Payload(s))
    BY DEF FrameHeader, Payload
  <1>4. s.marker = 0 => FrameHeader(s) = <<>>
    BY DEF FrameHeader
  <1>5. Segment(SOF0, Payload(s)) \in Seq(Octet) /\ Segment(SOF2, Payload(s)) \in Seq(Octet)
    BY <1>1, <1>2, SegmentIs, Zenon
  <1>6. CASE s.marker = 0
    <2>1. <<>> \in Seq(Octet)
      OBVIOUS
    <2> QED BY <1>2, <1>4, <1>6, <2>1
  <1>7. CASE s.marker # 0
    <2>1. FrameHeader(s) = Segment(s.marker, Payload(s))
      BY <1>3, <1>7
    <2> QED BY <1>1, <1>5, <1>7, <2>1
  <1> QED BY <1>6, <1>7

(* The parts of a picture and where they stand in it. *)
Opening == <<Mark, SOI>>
ScanHeader == Segment(SOS, <<0>>)
Ending(p) == IF p.ended THEN <<Mark, EOI>> ELSE <<>>
AtFill(p) == 3 + Len(Quantisation(p))
AtHeader(p) == AtFill(p) + Len(p.fill)
AtScanHeader(p) == AtHeader(p) + Len(FrameHeader(p.sof))
AtScan(p) == AtScanHeader(p) + Len(ScanHeader)
AtEnding(p) == AtScan(p) + Len(p.scan)

LEMMA PartsAreBytes ==
  ASSUME NEW p \in Pictures
  PROVE  /\ Opening \in Seq(Octet) /\ Quantisation(p) \in Seq(Octet) /\ p.fill \in Seq(Octet)
         /\ FrameHeader(p.sof) \in Seq(Octet) /\ ScanHeader \in Seq(Octet) /\ p.scan \in Seq(Octet)
         /\ Ending(p) \in Seq(Octet) /\ Len(Opening) = 2 /\ Len(ScanHeader) = 5
  <1>1. /\ p.fill \in {<<>>, <<0, Mark>>, <<Mark, 1>>} /\ p.sof \in Sofs /\ p.scan \in Scans
    BY PictureParts
  <1>2. /\ Mark \in Octet /\ SOI \in Octet /\ EOI \in Octet /\ SOS \in Octet /\ 0 \in Octet /\ 1 \in Octet
    BY DEF Octet, Mark, SOI, EOI, SOS
  <1>3. Opening \in Seq(Octet) /\ Ending(p) \in Seq(Octet) /\ p.fill \in Seq(Octet) /\ Len(Opening) = 2
    <2>1. <<>> \in Seq(Octet) /\ <<Mark, EOI>> \in Seq(Octet)
      BY <1>2
    <2>2. Ending(p) \in Seq(Octet)
      BY <2>1 DEF Ending
    <2>3. Opening \in Seq(Octet) /\ Len(Opening) = 2
      BY <1>2 DEF Opening
    <2>4. <<0, Mark>> \in Seq(Octet) /\ <<Mark, 1>> \in Seq(Octet)
      BY <1>2
    <2>5. p.fill \in Seq(Octet)
      BY <1>1, <2>1, <2>4
    <2> QED BY <2>2, <2>3, <2>5
  <1>4. p.scan \in Seq(Octet)
    BY <1>1, RtpAssumption
  <1>5. ScanHeader \in Seq(Octet) /\ Len(ScanHeader) = 5
    <2> DEFINE data == <<0>>
    <2>1. data \in Seq(Octet) /\ Len(data) = 1
      BY <1>2
    <2> HIDE DEF data
    <2>2. Len(data) \in Lengths
      BY <2>1, IsLength
    <2>3. Segment(SOS, data) \in Seq(Octet) /\ Len(Segment(SOS, data)) = Len(data) + 4
      BY <1>2, <2>1, <2>2, SegmentIs, ZenonT(30)
    <2>4. Segment(SOS, data) \in Seq(Octet) /\ Len(Segment(SOS, data)) = 5
      BY <2>1, <2>3
    <2> QED BY <2>4 DEF ScanHeader, data
  <1>6. FrameHeader(p.sof) \in Seq(Octet) /\ Quantisation(p) \in Seq(Octet)
    BY <1>1, HeaderBytes, QuantisationBytes
  <1> QED BY <1>3, <1>4, <1>5, <1>6

LEMMA Layout ==
  ASSUME NEW p \in Pictures
  PROVE  /\ Whole(p) \in Seq(Octet)
         /\ Holds(Whole(p), 3, Quantisation(p)) /\ Holds(Whole(p), AtFill(p), p.fill)
         /\ Holds(Whole(p), AtHeader(p), FrameHeader(p.sof))
         /\ Holds(Whole(p), AtScanHeader(p), ScanHeader)
         /\ Holds(Whole(p), AtScan(p), p.scan) /\ Holds(Whole(p), AtEnding(p), Ending(p))
         /\ Len(Whole(p)) = AtEnding(p) - 1 + Len(Ending(p))
  <1> DEFINE q == Quantisation(p)
             f == p.fill
             h == FrameHeader(p.sof)
             d == p.scan
             e == Ending(p)
             w2 == Opening \o q
             w3 == w2 \o f
             w4 == w3 \o h
             w5 == w4 \o ScanHeader
             w6 == w5 \o d
             w7 == w6 \o e
  <1>1. /\ Opening \in Seq(Octet) /\ q \in Seq(Octet) /\ f \in Seq(Octet) /\ h \in Seq(Octet)
        /\ ScanHeader \in Seq(Octet) /\ d \in Seq(Octet) /\ e \in Seq(Octet) /\ Len(Opening) = 2
        /\ Len(ScanHeader) = 5
    BY PartsAreBytes
  <1>2. Whole(p) = w7
    BY DEF Whole, Opening, ScanHeader, Ending
  <1>3. /\ AtFill(p) = 3 + Len(q) /\ AtHeader(p) = AtFill(p) + Len(f)
        /\ AtScanHeader(p) = AtHeader(p) + Len(h) /\ AtScan(p) = AtScanHeader(p) + Len(ScanHeader)
        /\ AtEnding(p) = AtScan(p) + Len(d)
    BY DEF AtFill, AtHeader, AtScanHeader, AtScan, AtEnding
  <1> HIDE DEF q, f, h, d, e, w2, w3, w4, w5, w6, w7
  <1>4. /\ Len(q) \in Nat /\ Len(f) \in Nat /\ Len(h) \in Nat /\ Len(d) \in Nat /\ Len(e) \in Nat
    BY <1>1
  <1>12. w2 \in Seq(Octet) /\ Len(w2) = Len(Opening) + Len(q) /\ Holds(w2, Len(Opening) + 1, q)
    BY <1>1, ConcatBytes, Zenon DEF w2
  <1>13. w3 \in Seq(Octet) /\ Len(w3) = Len(w2) + Len(f) /\ Holds(w3, Len(w2) + 1, f)
    BY <1>1, <1>12, ConcatBytes, Zenon DEF w3
  <1>14. w4 \in Seq(Octet) /\ Len(w4) = Len(w3) + Len(h) /\ Holds(w4, Len(w3) + 1, h)
    BY <1>1, <1>13, ConcatBytes, Zenon DEF w4
  <1>15. w5 \in Seq(Octet) /\ Len(w5) = Len(w4) + Len(ScanHeader) /\ Holds(w5, Len(w4) + 1, ScanHeader)
    BY <1>1, <1>14, ConcatBytes, Zenon DEF w5
  <1>16. w6 \in Seq(Octet) /\ Len(w6) = Len(w5) + Len(d) /\ Holds(w6, Len(w5) + 1, d)
    BY <1>1, <1>15, ConcatBytes, Zenon DEF w6
  <1>17. w7 \in Seq(Octet) /\ Len(w7) = Len(w6) + Len(e) /\ Holds(w7, Len(w6) + 1, e)
    BY <1>1, <1>16, ConcatBytes, Zenon DEF w7
  <1>20. /\ Len(Opening) + 1 = 3 /\ Len(w2) + 1 = AtFill(p) /\ Len(w3) + 1 = AtHeader(p)
         /\ Len(w4) + 1 = AtScanHeader(p) /\ Len(w5) + 1 = AtScan(p) /\ Len(w6) + 1 = AtEnding(p)
         /\ Len(w7) = AtEnding(p) - 1 + Len(e)
    BY <1>1, <1>3, <1>4, <1>12, <1>13, <1>14, <1>15, <1>16, <1>17
  (* What stands in a part stands in all longer ones. *)
  <1>30. ASSUME NEW at, NEW s \in Seq(Octet)
         PROVE  /\ Holds(w6, at, s) => Holds(w7, at, s)
                /\ Holds(w5, at, s) => Holds(w7, at, s)
                /\ Holds(w4, at, s) => Holds(w7, at, s)
                /\ Holds(w3, at, s) => Holds(w7, at, s)
                /\ Holds(w2, at, s) => Holds(w7, at, s)
    <2>1. Holds(w6, at, s) => Holds(w7, at, s)
      BY <1>1, <1>16, HoldsLeft, Zenon DEF w7
    <2>2. Holds(w5, at, s) => Holds(w6, at, s)
      BY <1>1, <1>15, HoldsLeft, Zenon DEF w6
    <2>3. Holds(w4, at, s) => Holds(w5, at, s)
      BY <1>1, <1>14, HoldsLeft, Zenon DEF w5
    <2>4. Holds(w3, at, s) => Holds(w4, at, s)
      BY <1>1, <1>13, HoldsLeft, Zenon DEF w4
    <2>5. Holds(w2, at, s) => Holds(w3, at, s)
      BY <1>1, <1>12, HoldsLeft, Zenon DEF w3
    <2> QED BY <2>1, <2>2, <2>3, <2>4, <2>5, Zenon
  <1>31. /\ Holds(w2, 3, q) /\ Holds(w3, AtFill(p), f) /\ Holds(w4, AtHeader(p), h)
         /\ Holds(w5, AtScanHeader(p), ScanHeader) /\ Holds(w6, AtScan(p), d) /\ Holds(w7, AtEnding(p), e)
    BY <1>12, <1>13, <1>14, <1>15, <1>16, <1>17, <1>20, Zenon
  <1>32. /\ Holds(w7, 3, q) /\ Holds(w7, AtFill(p), f) /\ Holds(w7, AtHeader(p), h)
         /\ Holds(w7, AtScanHeader(p), ScanHeader) /\ Holds(w7, AtScan(p), d)
    BY <1>1, <1>30, <1>31, Zenon
  <1> QED BY <1>2, <1>17, <1>20, <1>31, <1>32, Zenon DEF q, f, h, d, e

LEMMA EncodedBytes ==
  ASSUME NEW p \in Pictures
  PROVE  Encoded(p) \in Seq(Octet) /\ (p.cut = 0 => Encoded(p) = Whole(p))
  <1>1. Whole(p) \in Seq(Octet) /\ p.cut \in Nat
    BY Layout, PictureParts, RtpAssumption
  <1> DEFINE w == Whole(p)
  <1>2. Len(w) \in Nat /\ Len(w) - p.cut \in Int /\ 1 \in Int /\ Len(w) - p.cut <= Len(w)
    BY <1>1
  <1> HIDE DEF w
  <1>3. SubSeq(w, 1, Len(w) - p.cut) \in Seq(Octet)
    BY <1>1, <1>2 DEF w
  <1>4. p.cut = 0 => SubSeq(w, 1, Len(w) - p.cut) = w
    BY <1>1, <1>2, SubSeqFull DEF w
  <1> QED BY <1>3, <1>4 DEF Encoded, w

(* Reading the frame. *)
Info == [width : Nat, height : Nat, type : Nat, tables : Seq(Octet), scan : Nat \X Nat]
Shown == info.scan[1] >= 1 /\ info.scan[1] <= info.scan[2] /\ info.scan[2] <= Size

LEMMA OctetIsNat == \A x \in Octet : x \in Nat
  BY DEF Octet

LEMMA ByteIs ==
  ASSUME jpeg \in Seq(Octet), NEW i \in Int
  PROVE  Byte(i) \in Octet /\ Byte(i) \in Nat /\ (i \in 1 .. Size => Byte(i) = jpeg[i])
  <1>1. 0 \in Octet
    BY DEF Octet
  <1>2. i \in 1 .. Size => jpeg[i] \in Octet
    BY DEF Size
  <1> QED BY <1>1, <1>2, OctetIsNat DEF Byte

LEMMA LengthIs ==
  ASSUME jpeg \in Seq(Octet), NEW at \in Nat
  PROVE  SegmentLength(at) \in Nat
  <1>1. Byte(at) \in Nat /\ Byte(at + 1) \in Nat
    <2>1. at \in Int /\ at + 1 \in Int
      OBVIOUS
    <2> QED BY <2>1, ByteIs, Zenon
  <1> QED BY <1>1 DEF SegmentLength

LEMMA SizeIs ==
  ASSUME jpeg \in Seq(Octet)
  PROVE  Size \in Nat
  BY DEF Size

LEMMA TableBytesAre ==
  ASSUME jpeg \in Seq(Octet), NEW at \in Nat, NEW length \in Nat
  PROVE  TableBytes(at, length) \in Seq(Octet)
  <1> DEFINE k == length \div (TableSize + 1)
             s == [t \in 1 .. k |-> [i \in 1 .. TableSize |-> Byte(at + (t - 1) * (TableSize + 1) + i)]]
  <1>1. TableSize \in Nat /\ TableSize + 1 \in Nat \ {0}
    BY TableLengths
  <1>2. k \in Nat
    BY <1>1
  <1>3. TableBytes(at, length) = FlattenSeq(s)
    BY DEF TableBytes
  <1> HIDE DEF k
  <1>4. ASSUME NEW t \in 1 .. k PROVE s[t] \in Seq(Octet)
    <2>1. ASSUME NEW i \in 1 .. TableSize PROVE Byte(at + (t - 1) * (TableSize + 1) + i) \in Octet
      <3>1. (t - 1) * (TableSize + 1) \in Int
        BY <1>1, <1>2
      <3>2. at + (t - 1) * (TableSize + 1) + i \in Int
        BY <1>1, <3>1
      <3> QED BY <3>2, ByteIs
    <2>2. s[t] = [i \in 1 .. TableSize |-> Byte(at + (t - 1) * (TableSize + 1) + i)]
      OBVIOUS
    <2> HIDE DEF s
    <2> QED BY <1>1, <2>1, <2>2
  <1>5. Len(s) = k /\ (k = 0 => s = <<>>)
    BY <1>2
  <1> HIDE DEF s
  <1> QED BY <1>2, <1>3, <1>4, <1>5, FlattenType

LEMMA ScanEndIs ==
  ASSUME jpeg \in Seq(Octet), NEW from \in Nat, from >= 1
  PROVE  /\ ScanEnd(from) \in Nat /\ ScanEnd(from) <= Size
         /\ Searched(from) \in Nat /\ Searched(from) <= Size
  <1> DEFINE S == EndMarkers(from)
  <1>1. Size \in Nat
    BY SizeIs
  <1>2. S \subseteq Nat /\ (\A x \in S : x >= 1 /\ x <= Size - 1)
    BY <1>1 DEF EndMarkers
  <1>3. ScanEnd(from) = First(S) - 1
    BY DEF ScanEnd
  <1>4. Searched(from) = IF S # {} THEN ScanEnd(from) + 2 ELSE IF from < Size THEN Size ELSE 0
    BY DEF Searched
  <1> HIDE DEF S
  <1>5. First(S) \in S \cup {Size + 1} /\ First(S) \in Nat /\ First(S) <= Size + 1
    BY <1>1, <1>2, FirstIs
  <1>6. First(S) >= 1
    BY <1>1, <1>2, <1>5
  <1>7. S # {} => First(S) <= Size - 1
    <2> SUFFICES ASSUME NEW x \in S PROVE First(S) <= Size - 1
      OBVIOUS
    <2>1. First(S) <= x
      BY <1>1, <1>2, FirstIs
    <2>2. x \in Nat /\ x <= Size - 1
      BY <1>2
    <2> QED BY <1>1, <1>5, <2>1, <2>2
  <1> QED BY <1>1, <1>3, <1>4, <1>5, <1>6, <1>7

(* What is read next is within the frame. *)
LEMMA ReadsOn ==
  ASSUME NEW m \in Nat, m <= Size, Size \in Nat, touched \in Nat, touched <= Size,
         touched' = Max({touched, m})
  PROVE  touched' \in Nat /\ touched' <= Size
  <1>1. Max({touched, m}) = IF touched >= m THEN touched ELSE m
    <2>1. touched \in Int /\ m \in Int
      OBVIOUS
    <2> QED BY <2>1, GreaterIs, Zenon
  <1> QED BY <1>1

RtpTyped ==
    /\ RtpTypeOK /\ info \in Info /\ ReadsInFrame
    /\ jpegPhase = "parse" => jpegPos >= 1
    /\ jpegPhase = "idle" => info = NewInfo
    /\ jpegPhase # "idle" => picture \in Pictures /\ jpeg = Encoded(picture)
    /\ jpegPhase \in {"idle", "parse", "rejected"} => packets = <<>> /\ sentScan = 0
    /\ jpegPhase \in {"send", "sent", "failed"} => Shown

LEMMA NewFrameTyped ==
  ASSUME RtpTyped, NEW p \in Pictures, NEW seq \in {0, SeqModulus - 1}, NewFrame(p, seq)
  PROVE  RtpTyped'
  <1>1. /\ jpegPhase = "idle" /\ picture' = p /\ jpeg' = Encoded(p) /\ rtpSeq' = seq
        /\ jpegPos' = 3 /\ touched' = IF Len(Encoded(p)) < 16 THEN 0 ELSE 2
        /\ jpegPhase' \in {"rejected", "parse"}
        /\ info' = info /\ sentScan' = sentScan /\ packets' = packets
    BY DEF NewFrame
  <1>2. jpeg' \in Seq(Octet) /\ Size' \in Nat /\ Size' = Len(Encoded(p))
    BY <1>1, EncodedBytes DEF Size
  <1>3. touched' \in Nat /\ touched' <= Size'
    BY <1>1, <1>2
  <1>4. rtpSeq' \in 0 .. SeqModulus - 1
    BY <1>1, RtpAssumption
  <1> QED BY <1>1, <1>2, <1>3, <1>4 DEF RtpTyped, RtpTypeOK, ReadsInFrame

LEMMA SegmentTyped ==
  ASSUME RtpTyped, jpegPhase = "parse", NEW marker, NEW at \in Nat, at >= 1, at <= Size + 1, ParseSegment(marker, at),
         UNCHANGED <<picture, jpeg, rtpSeq, sentScan, packets>>
  PROVE  RtpTyped'
  <1> DEFINE next == at + SegmentLength(at)
             data == at + 2
             length == SegmentLength(at) - 2
             search == Max({at + 1, Searched(next)})
             reads == IF ~HasLength(at) THEN at - 1
                      ELSE IF Fits(at) /\ marker \in {DQT, SOF0} /\ length > 0 THEN next - 1
                      ELSE IF Fits(at) /\ marker = SOS THEN search
                      ELSE at + 1
  <1>1. /\ jpeg \in Seq(Octet) /\ Size \in Nat /\ touched \in Nat /\ touched <= Size /\ info \in Info
        /\ jpegPos \in Nat /\ jpegPos >= 1
    BY SizeIs DEF RtpTyped, RtpTypeOK, ReadsInFrame
  <1>2. SegmentLength(at) \in Nat
    BY <1>1, LengthIs
  <1>3. Fits(at) => SegmentLength(at) >= 2 /\ next - 1 <= Size
    BY <1>1, <1>2 DEF Fits, HasLength
  <1>4. touched' = Max({touched, reads})
    BY DEF ParseSegment
  <1>5. touched' \in Nat /\ touched' <= Size
    <2>1. next \in Nat /\ next >= 1 /\ at + 1 \in Nat /\ at - 1 \in Nat /\ at - 1 <= Size
      BY <1>1, <1>2
    <2>2. HasLength(at) => at + 1 <= Size
      BY DEF HasLength
    <2>3. Searched(next) \in Nat /\ Searched(next) <= Size
      BY <1>1, <2>1, ScanEndIs
    <2>4. search = IF at + 1 >= Searched(next) THEN at + 1 ELSE Searched(next)
      <3>1. at + 1 \in Int /\ Searched(next) \in Int
        BY <2>1, <2>3
      <3> HIDE DEF next
      <3> QED BY <3>1, GreaterIs, Zenon
    <2> HIDE DEF next, search, length
    <2>5. HasLength(at) => search \in Nat /\ search <= Size
      BY <1>1, <2>1, <2>2, <2>3, <2>4
    <2>6. Fits(at) => next - 1 \in Nat /\ next - 1 <= Size
      BY <1>3, <2>1
    <2>7. reads \in Nat /\ reads <= Size
      BY <2>1, <2>2, <2>5, <2>6
    <2> HIDE DEF reads
    <2> QED BY <1>1, <1>4, <2>7, ReadsOn
  <1>6. \/ jpegPhase' = "rejected" /\ info' = info /\ jpegPos' = jpegPos
        \/ /\ Fits(at) /\ jpegPhase' = "parse" /\ jpegPos' = next
           /\ info' \in {info, [info EXCEPT !.tables = @ \o TableBytes(data, length)], WithFrameHeader(data, length)}
        \/ Fits(at) /\ ParseEnds(<<next, ScanEnd(next)>>)
    BY DEF ParseSegment
  <1>7. next \in Nat /\ next >= 1 /\ data \in Nat /\ (Fits(at) => length \in Nat)
    BY <1>2, <1>3
  <1> HIDE DEF next, data, length
  <1>8. Size' = Size /\ jpeg' = jpeg
    BY DEF Size
  <1>9. ASSUME jpegPhase' \in {"rejected", "parse"}, jpegPos' \in Nat, jpegPos' >= 1, info' \in Info
        PROVE  RtpTyped'
    BY <1>1, <1>5, <1>8, <1>9 DEF RtpTyped, RtpTypeOK, ReadsInFrame
  <1>10. CASE jpegPhase' = "rejected" /\ info' = info /\ jpegPos' = jpegPos
    BY <1>1, <1>9, <1>10
  <1>11. CASE /\ Fits(at) /\ jpegPhase' = "parse" /\ jpegPos' = next
              /\ info' \in {info, [info EXCEPT !.tables = @ \o TableBytes(data, length)], WithFrameHeader(data, length)}
    <2>1. [info EXCEPT !.tables = @ \o TableBytes(data, length)] \in Info
      <3>1. TableBytes(data, length) \in Seq(Octet)
        BY <1>1, <1>7, <1>11, TableBytesAre
      <3>2. info.tables \o TableBytes(data, length) \in Seq(Octet)
        BY <1>1, <3>1, ConcatProperties DEF Info
      <3> QED BY <1>1, <3>2 DEF Info
    <2>2. WithFrameHeader(data, length) \in Info
      <3>1. /\ data + 1 \in Int /\ data + 2 \in Int /\ data + 3 \in Int /\ data + 4 \in Int
        BY <1>7
      <3>2. /\ Byte(data + 1) \in Nat /\ Byte(data + 2) \in Nat /\ Byte(data + 3) \in Nat /\ Byte(data + 4) \in Nat
        BY <1>1, <3>1, ByteIs, Zenon
      <3>3. /\ 256 * Byte(data + 1) + Byte(data + 2) \in Nat /\ 256 * Byte(data + 3) + Byte(data + 4) \in Nat
        BY <3>2
      <3> DEFINE height == 256 * Byte(data + 1) + Byte(data + 2)
                 width == 256 * Byte(data + 3) + Byte(data + 4)
                 type == IF Byte(data + 5) >= 3 /\ length >= 15
                           THEN IF Byte(data + 7) = 34 THEN 0 ELSE 1
                           ELSE info.type
      <3>4. type \in Nat
        BY <1>1 DEF Info
      <3>5. WithFrameHeader(data, length)
              = [info EXCEPT !.height = height, !.width = width, !.type = type]
        BY DEF WithFrameHeader
      <3> HIDE DEF height, width, type
      <3>6. height \in Nat /\ width \in Nat
        BY <3>3 DEF height, width
      <3> QED BY <1>1, <3>4, <3>5, <3>6 DEF Info
    <2> QED BY <1>1, <1>7, <1>9, <1>11, <2>1, <2>2
  <1>12. CASE Fits(at) /\ ParseEnds(<<next, ScanEnd(next)>>)
    <2> DEFINE scan == <<next, ScanEnd(next)>>
    <2>1. ScanEnd(next) \in Nat /\ ScanEnd(next) <= Size
      BY <1>1, <1>7, ScanEndIs
    <2>2. scan \in Nat \X Nat /\ scan[1] = next /\ scan[2] = ScanEnd(next)
      BY <1>7, <2>1
    <2>3. info' = [info EXCEPT !.scan = scan] /\ jpegPos' = jpegPos
          /\ jpegPhase' = IF GoodScan(scan) THEN "send" ELSE "rejected"
      BY <1>12 DEF ParseEnds
    <2> HIDE DEF scan
    <2>4. info' \in Info /\ info'.scan = scan
      BY <1>1, <2>2, <2>3 DEF Info
    <2>5. CASE GoodScan(scan)
      <3>1. Shown'
        BY <1>7, <1>8, <2>1, <2>2, <2>4, <2>5 DEF Shown, GoodScan
      <3> QED BY <1>1, <1>5, <1>8, <2>3, <2>4, <2>5, <3>1 DEF RtpTyped, RtpTypeOK, ReadsInFrame
    <2>6. CASE ~GoodScan(scan)
      BY <1>1, <1>9, <2>3, <2>4, <2>6
    <2> QED BY <2>5, <2>6
  <1> QED BY <1>6, <1>10, <1>11, <1>12

LEMMA ParseTyped ==
  ASSUME RtpTyped, Parse
  PROVE  RtpTyped'
  <1> DEFINE S == {i \in jpegPos .. Size : Byte(i) # Mark}
             at == First(S)
  <1>1. /\ jpeg \in Seq(Octet) /\ Size \in Nat /\ touched \in Nat /\ touched <= Size /\ info \in Info
        /\ jpegPos \in Nat /\ jpegPos >= 1 /\ jpegPhase = "parse"
    BY SizeIs DEF RtpTyped, RtpTypeOK, ReadsInFrame, Parse
  <1>2. S \subseteq Nat /\ (\A x \in S : x >= 1)
    BY <1>1
  <1>3. UNCHANGED <<picture, jpeg, rtpSeq, sentScan, packets>> /\ Size' = Size
    BY DEF Parse, Size
  <1>4. \/ ParseEnds(<<0, 0>>) /\ touched' = touched
        \/ /\ jpegPos + 3 <= Size /\ jpegPos' = jpegPos + 1 /\ touched' = Max({touched, jpegPos})
           /\ info' = info /\ jpegPhase' = jpegPhase
        \/ at > Size /\ ParseEnds(<<0, 0>>) /\ touched' = Max({touched, at - 1})
        \/ at <= Size /\ ParseEnds(<<0, 0>>) /\ touched' = Max({touched, at})
        \/ /\ at <= Size /\ jpegPos' = at + 1 /\ touched' = Max({touched, at})
           /\ info' = info /\ jpegPhase' = jpegPhase
        \/ at <= Size /\ ParseSegment(Byte(at), at + 1)
    BY DEF Parse
  <1> HIDE DEF S
  <1>5. at \in Nat /\ at >= 1 /\ at <= Size + 1
    <2>1. at \in S \cup {Size + 1} /\ at \in Nat /\ at <= Size + 1
      BY <1>1, <1>2, FirstIs
    <2> HIDE DEF at
    <2> QED BY <1>1, <1>2, <2>1
  <1> HIDE DEF at
  <1>6. ASSUME jpegPhase' \in {"rejected", "parse"}, jpegPos' \in Nat, jpegPos' >= 1, info' \in Info,
               touched' \in Nat, touched' <= Size
        PROVE  RtpTyped'
    BY <1>1, <1>3, <1>6 DEF RtpTyped, RtpTypeOK, ReadsInFrame
  <1>7. ASSUME NEW m \in Nat, m <= Size, touched' = Max({touched, m})
        PROVE  touched' \in Nat /\ touched' <= Size
    <2>1. Max({touched, m}) = IF touched >= m THEN touched ELSE m
      <3>1. touched \in Int /\ m \in Int
        BY <1>1
      <3> QED BY <3>1, GreaterIs, Zenon
    <2> QED BY <1>1, <1>7, <2>1
  <1>8. ASSUME ParseEnds(<<0, 0>>)
        PROVE  jpegPhase' = "rejected" /\ jpegPos' = jpegPos /\ info' \in Info
    <2> DEFINE scan == <<0, 0>>
    <2>1. scan \in Nat \X Nat /\ scan[1] = 0
      OBVIOUS
    <2>2. /\ info' = [info EXCEPT !.scan = scan] /\ jpegPos' = jpegPos
          /\ jpegPhase' = IF GoodScan(scan) THEN "send" ELSE "rejected"
      BY <1>8 DEF ParseEnds
    <2> HIDE DEF scan
    <2>3. ~GoodScan(scan)
      BY <2>1 DEF GoodScan
    <2> QED BY <1>1, <2>1, <2>2, <2>3 DEF Info
  <1>9. CASE ParseEnds(<<0, 0>>) /\ touched' = touched
    BY <1>1, <1>6, <1>8, <1>9
  <1>10. CASE /\ jpegPos + 3 <= Size /\ jpegPos' = jpegPos + 1 /\ touched' = Max({touched, jpegPos})
              /\ info' = info /\ jpegPhase' = jpegPhase
    <2>1. jpegPos <= Size
      <3>1. jpegPos + 3 <= Size
        BY <1>10
      <3> QED BY <1>1, <3>1
    <2>2. touched' \in Nat /\ touched' <= Size
      <3>1. touched' = Max({touched, jpegPos})
        BY <1>10
      <3> QED BY <1>1, <1>7, <2>1, <3>1
    <2>3. jpegPos' = jpegPos + 1 /\ info' = info /\ jpegPhase' = jpegPhase
      BY <1>10
    <2>4. jpegPos' \in Nat /\ jpegPos' >= 1
      BY <1>1, <2>3
    <2> QED BY <1>1, <1>6, <2>2, <2>3, <2>4
  <1>11. CASE \/ at > Size /\ ParseEnds(<<0, 0>>) /\ touched' = Max({touched, at - 1})
              \/ at <= Size /\ ParseEnds(<<0, 0>>) /\ touched' = Max({touched, at})
    <2>1. at - 1 \in Nat /\ at - 1 <= Size
      BY <1>1, <1>5
    <2>2. touched' \in Nat /\ touched' <= Size
      BY <1>5, <1>7, <1>11, <2>1
    <2> QED BY <1>1, <1>6, <1>8, <1>11, <2>2
  <1>12. CASE /\ at <= Size /\ jpegPos' = at + 1 /\ touched' = Max({touched, at})
              /\ info' = info /\ jpegPhase' = jpegPhase
    <2>1. touched' \in Nat /\ touched' <= Size
      BY <1>5, <1>7, <1>12
    <2> QED BY <1>1, <1>5, <1>6, <1>12, <2>1
  <1>13. CASE at <= Size /\ ParseSegment(Byte(at), at + 1)
    <2>1. at + 1 \in Nat /\ at + 1 >= 1 /\ at + 1 <= Size + 1
      BY <1>1, <1>5, <1>13
    <2> QED BY <1>1, <1>3, <1>13, <2>1, SegmentTyped
  <1> QED BY <1>4, <1>9, <1>10, <1>11, <1>12, <1>13

(* The packets sent so far carry the scan from its beginning. *)
Packet == [seq : Nat, marker : BOOLEAN, offset : Nat, type : Nat, q : {75, 128},
           width : Nat, height : Nat, tables : Seq(Octet), size : Int, data : Seq(Octet)]
HeaderRight(k) ==
    /\ k.q = 128 <=> k.tables # <<>>
    /\ k.type = info.type
    /\ k.width = (info.width \div 8) % 256 /\ k.height = (info.height \div 8) % 256
DataOf(P) == [k \in 1 .. Len(P) |-> P[k].data]
SentUpTo == SubSeq(jpeg, info.scan[1], info.scan[1] + sentScan - 1)

PacketsRight ==
    /\ packets \in Seq(Packet)
    /\ \A k \in 1 .. Len(packets) :
         /\ packets[k].size <= MaxPacket /\ packets[k].data # <<>>
         /\ packets[k].offset = Len(FlattenSeq(Pieces(k - 1))) % OffsetModulus
         /\ packets[k].marker <=> (jpegPhase = "sent" /\ k = Len(packets))
         /\ k > 1 => packets[k].seq = (packets[k - 1].seq + 1) % SeqModulus
         /\ HeaderRight(packets[k])
    /\ packets # <<>> => /\ rtpSeq = (packets[Len(packets)].seq + 1) % SeqModulus
                         /\ packets[1].tables = info.tables
    /\ jpegPhase \in {"send", "sent", "failed"} =>
         FlattenSeq(DataOf(packets)) = SentUpTo /\ Len(SentUpTo) = sentScan
    /\ jpegPhase = "send" => sentScan < ScanSize
    /\ jpegPhase = "sent" => sentScan = ScanSize /\ packets # <<>>

LEMMA PacketsRightGives ==
  ASSUME PacketsRight, RtpTyped
  PROVE  PacketsCarryScan
  <1>1. ASSUME NEW k \in 1 .. Len(packets)
        PROVE  /\ packets[k].q >= 128 <=> packets[k].tables # <<>>
               /\ <<packets[k].type, packets[k].width, packets[k].height>>
                    = <<packets[1].type, packets[1].width, packets[1].height>>
    <2>1. packets[k] \in Packet /\ HeaderRight(packets[k])
      BY DEF PacketsRight
    <2>2. 1 \in 1 .. Len(packets)
      <3>1. Len(packets) \in Nat
        BY DEF PacketsRight
      <3> QED BY <3>1
    <2>3. HeaderRight(packets[1])
      BY <2>2 DEF PacketsRight
    <2>4. packets[k].q >= 128 <=> packets[k].q = 128
      BY <2>1 DEF Packet
    <2> QED BY <2>1, <2>3, <2>4 DEF HeaderRight
  <1>2. ASSUME jpegPhase = "sent"
        PROVE  /\ FlattenSeq(Pieces(Len(packets))) = SubSeq(jpeg, info.scan[1], info.scan[2])
               /\ packets[1].tables = info.tables
    <2>1. /\ FlattenSeq(DataOf(packets)) = SentUpTo /\ sentScan = ScanSize /\ packets # <<>>
          /\ packets[1].tables = info.tables
      BY <1>2 DEF PacketsRight
    <2>2. info.scan[1] \in Nat /\ info.scan[2] \in Nat
      BY DEF RtpTyped, Info
    <2>3. info.scan[1] + sentScan - 1 = info.scan[2]
      BY <2>1, <2>2 DEF ScanSize
    <2>4. FlattenSeq(DataOf(packets)) = SubSeq(jpeg, info.scan[1], info.scan[2])
      BY <2>1, <2>3 DEF SentUpTo
    <2>5. Pieces(Len(packets)) = DataOf(packets)
      BY DEF Pieces, DataOf
    <2> QED BY <2>1, <2>4, <2>5
  <1>3. \A k \in 1 .. Len(packets) :
          /\ packets[k].size <= MaxPacket /\ packets[k].data # <<>>
          /\ packets[k].offset = Len(FlattenSeq(Pieces(k - 1))) % OffsetModulus
          /\ packets[k].marker <=> (jpegPhase = "sent" /\ k = Len(packets))
          /\ k > 1 => packets[k].seq = (packets[k - 1].seq + 1) % SeqModulus
    BY DEF PacketsRight
  <1> QED BY <1>1, <1>2, <1>3 DEF PacketsCarryScan

LEMMA FlattenAppend ==
  ASSUME NEW P \in Seq(Packet), NEW k \in Packet
  PROVE  /\ FlattenSeq(DataOf(Append(P, k))) = FlattenSeq(DataOf(P)) \o k.data
         /\ FlattenSeq(DataOf(P)) \in Seq(Octet)
  <1> DEFINE n == Len(P)
             s == DataOf(P)
             t == DataOf(Append(P, k))
  <1>1. /\ n \in Nat /\ Len(Append(P, k)) = n + 1 /\ Append(P, k)[n + 1] = k
        /\ \A i \in 1 .. n : Append(P, k)[i] = P[i] /\ P[i] \in Packet
    BY AppendProperties
  <1>2. Len(s) = n /\ \A i \in 1 .. n : s[i] = P[i].data
    BY <1>1 DEF DataOf
  <1>3. Len(t) = n + 1 /\ t[n + 1] = k.data /\ \A i \in 1 .. n : s[i] = t[i]
    <2>1. n + 1 \in 1 .. n + 1 /\ \A i \in 1 .. n : i \in 1 .. n + 1
      BY <1>1
    <2> QED BY <1>1, <1>2, <2>1 DEF DataOf
  <1>4. n = 0 => s = <<>>
    BY <1>1 DEF DataOf
  <1>5. k.data \in Seq(Octet) /\ \A i \in 1 .. n : s[i] \in Seq(Octet)
    BY <1>1, <1>2 DEF Packet
  <1> HIDE DEF n, s, t
  <1>6. FlattenSeq(s) \in Seq(Octet)
    BY <1>1, <1>2, <1>4, <1>5, FlattenType
  <1>7. CASE n = 0
    <2>1. Len(t) = 1 /\ t[1] = k.data
      BY <1>3, <1>7
    <2>2. FlattenSeq(t) = k.data
      BY <2>1, FlattenOne
    <2>3. FlattenSeq(s) = <<>>
      BY <1>2, <1>4, <1>7, FlattenNone
    <2> QED BY <1>5, <1>6, <2>2, <2>3, ConcatEmptySeq DEF s, t
  <1>8. CASE n # 0
    <2>1. FlattenSeq(t) = FlattenSeq(s) \o t[n + 1]
      <3>1. n \in Nat /\ n # 0 /\ Len(s) = n /\ Len(t) = n + 1 /\ \A i \in 1 .. n : s[i] = t[i]
        BY <1>1, <1>2, <1>3, <1>8
      <3> QED BY <3>1, FlattenMore
    <2> QED BY <1>3, <1>6, <2>1 DEF s, t
  <1> QED BY <1>7, <1>8

LEMMA NewFramePackets ==
  ASSUME RtpTyped, PacketsRight, NEW p \in Pictures, NEW seq \in {0, SeqModulus - 1}, NewFrame(p, seq)
  PROVE  PacketsRight'
  <1>1. jpegPhase = "idle" /\ jpegPhase' \in {"rejected", "parse"} /\ packets' = packets
    BY DEF NewFrame
  <1>2. packets = <<>>
    BY <1>1 DEF RtpTyped
  <1>3. packets' = <<>> /\ Len(packets') = 0
    BY <1>1, <1>2
  <1> QED BY <1>1, <1>3 DEF PacketsRight

LEMMA ParsePackets ==
  ASSUME RtpTyped, PacketsRight, Parse, RtpTyped'
  PROVE  PacketsRight'
  <1>1. jpegPhase = "parse" /\ packets' = packets /\ sentScan' = sentScan
    BY DEF Parse
  <1>2. jpegPhase' \in {"parse", "rejected", "send"}
    BY DEF Parse, ParseSegment, ParseEnds
  <1>3. packets' = <<>> /\ sentScan' = 0 /\ Len(packets') = 0
    BY <1>1 DEF RtpTyped
  <1>4. ASSUME jpegPhase' = "send"
        PROVE  /\ FlattenSeq(DataOf(packets')) = SentUpTo' /\ Len(SentUpTo') = sentScan'
               /\ sentScan' < ScanSize'
    <2>1. Shown' /\ info' \in Info
      BY <1>4 DEF RtpTyped
    <2>2. info'.scan[1] \in Nat /\ info'.scan[2] \in Nat /\ info'.scan[1] <= info'.scan[2]
      BY <2>1 DEF Shown, Info
    <2>3. SentUpTo' = <<>>
      <3> DEFINE a == info'.scan[1]
      <3>1. SentUpTo' = SubSeq(jpeg', a, a + 0 - 1)
        BY <1>3 DEF SentUpTo
      <3>2. a \in Int /\ a + 0 - 1 \in Int /\ a + 0 - 1 < a
        BY <2>2
      <3> HIDE DEF a
      <3> QED BY <3>1, <3>2, SubSeqEmpty
    <2>4. DataOf(packets') = <<>>
      BY <1>3 DEF DataOf
    <2>5. FlattenSeq(DataOf(packets')) = <<>>
      <3>1. Len(DataOf(packets')) = 0
        BY <2>4
      <3> QED BY <2>4, <3>1, FlattenNone
    <2>6. sentScan' < ScanSize'
      BY <1>3, <2>2 DEF ScanSize
    <2> QED BY <1>3, <2>3, <2>5, <2>6
  <1> QED BY <1>2, <1>3, <1>4 DEF PacketsRight

LEMMA ChunkIs ==
  ASSUME RtpTyped, PacketsRight, jpegPhase = "send", HeaderLen < MaxPacket
  PROVE  /\ Chunk \in Nat /\ Chunk >= 1 /\ Chunk <= ScanSize - sentScan /\ Chunk <= MaxPacket - HeaderLen
         /\ HeaderLen \in Nat /\ MaxPacket \in Nat /\ ScanSize \in Nat
  <1>1. /\ info \in Info /\ sentScan \in Nat /\ sentScan < ScanSize /\ MaxPacket \in Nat
    BY RtpAssumption DEF RtpTyped, RtpTypeOK, PacketsRight
  <1>2. info.scan[1] \in Nat /\ info.scan[2] \in Nat /\ info.tables \in Seq(Octet)
    BY <1>1 DEF Info
  <1>3. ScanSize \in Int
    BY <1>2 DEF ScanSize
  <1>4. HeaderLen \in Nat
    <2>1. Len(info.tables) \in Nat
      BY <1>2
    <2> QED BY <2>1 DEF HeaderLen
  <1>5. Chunk = IF ScanSize - sentScan <= MaxPacket - HeaderLen THEN ScanSize - sentScan ELSE MaxPacket - HeaderLen
    <2>1. ScanSize - sentScan \in Int /\ MaxPacket - HeaderLen \in Int
      BY <1>1, <1>3, <1>4
    <2> QED BY <2>1, LesserIs, Zenon DEF Chunk
  <1> QED BY <1>1, <1>3, <1>4, <1>5

LEMMA SendTyped ==
  ASSUME RtpTyped, PacketsRight, SendPacket
  PROVE  RtpTyped'
  <1> DEFINE last == info.scan[1] + sentScan + Chunk - 1
  <1>1. /\ jpegPhase = "send" /\ UNCHANGED <<picture, jpeg, jpegPos, info>>
        /\ \/ /\ HeaderLen >= MaxPacket /\ jpegPhase' = "failed" /\ touched' = touched
              /\ UNCHANGED <<rtpSeq, sentScan, packets>>
           \/ /\ ~(HeaderLen >= MaxPacket) /\ rtpSeq' = (rtpSeq + 1) % SeqModulus /\ sentScan' = sentScan + Chunk
              /\ jpegPhase' \in {"sent", "send"} /\ touched' = Max({touched, last})
    BY DEF SendPacket
  <1>2. Shown' /\ Size' = Size
    <2>1. Shown
      BY <1>1 DEF RtpTyped
    <2> QED BY <1>1, <2>1 DEF Shown, Size
  <1>3. rtpSeq' \in 0 .. SeqModulus - 1 /\ sentScan' \in Nat /\ touched' \in Nat /\ touched' <= Size
    <2>1. /\ sentScan \in Nat /\ rtpSeq \in 0 .. SeqModulus - 1 /\ SeqModulus \in Nat \ {0}
          /\ Size \in Nat /\ touched \in Nat /\ touched <= Size
      BY SizeIs, RtpAssumption DEF RtpTyped, RtpTypeOK, ReadsInFrame
    <2>2. (rtpSeq + 1) % SeqModulus \in 0 .. SeqModulus - 1
      BY <2>1
    <2>3. CASE HeaderLen >= MaxPacket /\ touched' = touched /\ UNCHANGED <<rtpSeq, sentScan, packets>>
      BY <2>1, <2>3
    <2>4. CASE /\ ~(HeaderLen >= MaxPacket) /\ rtpSeq' = (rtpSeq + 1) % SeqModulus
               /\ sentScan' = sentScan + Chunk /\ touched' = Max({touched, last})
      <3>1. MaxPacket \in Nat /\ HeaderLen \in Nat
        <4>1. Len(info.tables) \in Nat
          BY DEF RtpTyped, Info
        <4> QED BY <4>1, RtpAssumption DEF HeaderLen
      <3>2. HeaderLen < MaxPacket
        BY <2>4, <3>1
      <3>3. Chunk \in Nat /\ Chunk >= 1 /\ Chunk <= ScanSize - sentScan
        BY <1>1, <3>2, ChunkIs
      <3>4. last \in Nat /\ last <= Size
        <4>1. /\ info.scan[1] \in Nat /\ info.scan[2] \in Nat
              /\ info.scan[1] >= 1 /\ info.scan[2] <= Size
          BY <1>1 DEF RtpTyped, Info, Shown
        <4> QED BY <2>1, <3>3, <4>1 DEF ScanSize
      <3> HIDE DEF last
      <3>5. touched' \in Nat /\ touched' <= Size
        BY <2>1, <2>4, <3>4, ReadsOn
      <3> QED BY <2>1, <2>2, <2>4, <3>3, <3>5
    <2> QED BY <1>1, <2>3, <2>4
  <1>4. jpegPhase' \in {"failed", "sent", "send"}
    BY <1>1
  <1> QED BY <1>1, <1>2, <1>3, <1>4 DEF RtpTyped, RtpTypeOK, ReadsInFrame

(* The next piece of the scan, from `a' to `b', lies within it. *)
PieceIn(a, b, s, c, size, all) ==
    /\ a + s \in Int /\ a + s + c - 1 \in Int /\ 1 <= a + s /\ a + s <= a + s + c - 1
    /\ a + s + c - 1 <= size /\ (a + s + c - 1) - (a + s) + 1 = c
    /\ a \in 1 .. size + 1 /\ a + s - 1 \in a - 1 .. size /\ a + s + c - 1 \in a + s - 1 .. size
    /\ a + s - 1 + 1 = a + s /\ a + s + c - 1 = a + (s + c) - 1
    /\ s + c >= all <=> s + c = all
    /\ ~(s + c >= all) => s + c < all

LEMMA PieceLies ==
  ASSUME NEW a \in Nat, NEW b \in Nat, NEW s \in Nat, NEW c \in Nat, NEW size \in Nat, NEW all \in Nat,
         a >= 1, b <= size, c >= 1, all = b - a + 1, c <= all - s
  PROVE  PieceIn(a, b, s, c, size, all)
  BY DEF PieceIn

(* One packet more. *)
LEMMA SendPackets ==
  ASSUME RtpTyped, PacketsRight, SendPacket
  PROVE  PacketsRight'
  <1> DEFINE a == info.scan[1]
             piece == SubSeq(jpeg, a + sentScan, a + sentScan + Chunk - 1)
             offset == sentScan % OffsetModulus
             width == (info.width \div 8) % 256
             height == (info.height \div 8) % 256
             q == IF HasTables THEN 128 ELSE 75
             tables == IF HasTables THEN info.tables ELSE <<>>
             k == [seq |-> rtpSeq, marker |-> IsLast, offset |-> offset, type |-> info.type, q |-> q,
                   width |-> width, height |-> height, tables |-> tables,
                   size |-> HeaderLen + Chunk, data |-> piece]
             n == Len(packets)
  <1>1. /\ jpegPhase = "send" /\ UNCHANGED <<picture, jpeg, jpegPos, info>>
        /\ packets \in Seq(Packet) /\ n \in Nat /\ sentScan < ScanSize
        /\ FlattenSeq(DataOf(packets)) = SentUpTo /\ Len(SentUpTo) = sentScan
    BY DEF SendPacket, PacketsRight
  <1>2. CASE HeaderLen >= MaxPacket
    <2>1. jpegPhase' = "failed" /\ packets' = packets /\ sentScan' = sentScan /\ rtpSeq' = rtpSeq
      BY <1>2 DEF SendPacket
    <2>2. SentUpTo' = SentUpTo
      BY <1>1, <2>1 DEF SentUpTo
    <2>3. \A i \in Nat : Pieces(i)' = Pieces(i)
      BY <2>1 DEF Pieces
    <2>4. \A i \in 1 .. Len(packets) : Pieces(i - 1)' = Pieces(i - 1)
      BY <2>3
    <2> QED BY <1>1, <2>1, <2>2, <2>4 DEF PacketsRight, HeaderRight
  <1>3. CASE HeaderLen < MaxPacket
    <2>1. /\ packets' = Append(packets, k) /\ rtpSeq' = (rtpSeq + 1) % SeqModulus
          /\ sentScan' = sentScan + Chunk /\ jpegPhase' = IF IsLast THEN "sent" ELSE "send"
      <3>1. HeaderLen \in Nat /\ MaxPacket \in Nat
        BY <1>1, <1>3, ChunkIs
      <3>2. ~(HeaderLen >= MaxPacket)
        BY <1>3, <3>1
      <3> QED BY <3>2 DEF SendPacket
    <2>2. /\ Chunk \in Nat /\ Chunk >= 1 /\ Chunk <= ScanSize - sentScan /\ Chunk <= MaxPacket - HeaderLen
          /\ HeaderLen \in Nat /\ MaxPacket \in Nat /\ ScanSize \in Nat
      BY <1>1, <1>3, ChunkIs
    <2>3. /\ a \in Nat /\ a >= 1 /\ info.scan[2] \in Nat /\ info.scan[2] <= Size /\ ScanSize = info.scan[2] - a + 1
          /\ info.tables \in Seq(Octet) /\ sentScan \in Nat /\ rtpSeq \in Nat /\ jpeg \in Seq(Octet)
          /\ Size \in Nat /\ Size = Len(jpeg)
      <3>1. Shown /\ info \in Info /\ sentScan \in Nat /\ rtpSeq \in 0 .. SeqModulus - 1 /\ jpeg \in Seq(Octet)
        BY <1>1 DEF RtpTyped, RtpTypeOK
      <3>2. a \in Nat /\ info.scan[2] \in Nat /\ info.tables \in Seq(Octet)
        BY <3>1 DEF Info
      <3>3. rtpSeq \in Nat
        BY <3>1, RtpAssumption
      <3> QED BY <3>1, <3>2, <3>3, SizeIs DEF Shown, ScanSize, Size
    <2> HIDE DEF a
    <2>20. PieceIn(a, info.scan[2], sentScan, Chunk, Size, ScanSize)
      BY <2>2, <2>3, PieceLies, Zenon
    <2>4. piece \in Seq(Octet) /\ Len(piece) = Chunk /\ piece # <<>>
      <3> DEFINE l == a + sentScan
                 h == a + sentScan + Chunk - 1
      <3>1. l \in Int /\ h \in Int /\ l <= h /\ h - l + 1 = Chunk /\ 1 <= l /\ h <= Len(jpeg)
        BY <2>3, <2>20 DEF PieceIn
      <3> HIDE DEF l, h
      <3>2. \A i \in l .. h : jpeg[i] \in Octet
        BY <2>3, <3>1
      <3>3. SubSeq(jpeg, l, h) \in Seq(Octet) /\ Len(SubSeq(jpeg, l, h)) = IF l <= h THEN h - l + 1 ELSE 0
        BY <3>1, <3>2, SubSeqProperties, ZenonT(30)
      <3>4. piece \in Seq(Octet) /\ Len(piece) = Chunk
        BY <3>1, <3>3 DEF l, h
      <3> HIDE DEF piece
      <3>5. Len(piece) # 0
        BY <2>2, <3>4
      <3> QED BY <3>4, <3>5
    <2>5. SubSeq(jpeg, a, a + sentScan - 1) \o piece = SubSeq(jpeg, a, a + (sentScan + Chunk) - 1)
      <3> DEFINE m == a + sentScan - 1
                 h == a + sentScan + Chunk - 1
      <3>1. /\ a \in 1 .. Len(jpeg) + 1 /\ m \in a - 1 .. Len(jpeg) /\ h \in m .. Len(jpeg)
            /\ m + 1 = a + sentScan /\ h = a + (sentScan + Chunk) - 1
        BY <2>3, <2>20 DEF PieceIn
      <3> HIDE DEF m, h
      <3>2. SubSeq(jpeg, a, m) \o SubSeq(jpeg, m + 1, h) = SubSeq(jpeg, a, h)
        BY <2>3, <3>1, ConcatAdjacentSubSeq, Zenon
      <3> QED BY <3>1, <3>2 DEF m, h
    <2>6. IsLast \in BOOLEAN /\ (IsLast <=> sentScan + Chunk = ScanSize) /\ (~IsLast => sentScan + Chunk < ScanSize)
      <3>1. IsLast <=> sentScan + Chunk >= ScanSize
        BY DEF IsLast
      <3>2. /\ sentScan + Chunk >= ScanSize <=> sentScan + Chunk = ScanSize
            /\ ~(sentScan + Chunk >= ScanSize) => sentScan + Chunk < ScanSize
        BY <2>20 DEF PieceIn
      <3>3. IsLast \in BOOLEAN
        BY DEF IsLast
      <3> QED BY <3>1, <3>2, <3>3, Zenon
    <2> HIDE DEF piece
    <2>30. /\ offset \in Nat /\ width \in Nat /\ height \in Nat /\ q \in {75, 128}
           /\ tables \in Seq(Octet) /\ info.type \in Nat /\ HeaderLen + Chunk \in Int
      <3>1. info.width \in Nat /\ info.height \in Nat /\ info.type \in Nat
        BY DEF RtpTyped, Info
      <3>2. OffsetModulus \in Nat \ {0} /\ sentScan \in Nat
        BY <2>3, RtpAssumption
      <3>3. \A x \in Nat : (x \div 8) % 256 \in Nat
        OBVIOUS
      <3>4. offset \in Nat
        BY <3>2
      <3>5. width \in Nat /\ height \in Nat
        BY <3>1, <3>3
      <3>6. q \in {75, 128} /\ tables \in Seq(Octet)
        BY <2>3
      <3>7. HeaderLen + Chunk \in Int
        BY <2>2
      <3> QED BY <3>1, <3>4, <3>5, <3>6, <3>7
    <2>31. (q = 128 <=> tables # <<>>) /\ (packets = <<>> => tables = info.tables)
      BY DEF HasTables
    <2> HIDE DEF offset, width, height, q, tables
    <2>7. k \in Packet
      BY <2>3, <2>4, <2>6, <2>30 DEF Packet
    <2>8. /\ k.seq = rtpSeq /\ k.offset = offset /\ (k.marker <=> IsLast) /\ k.data = piece
          /\ k.tables = tables /\ k.q = q /\ k.type = info.type /\ k.width = width
          /\ k.height = height /\ k.size <= MaxPacket
      BY <2>2, <2>6
    <2>32. HeaderRight(k)
      BY <2>8, <2>31 DEF HeaderRight, width, height
    <2> HIDE DEF k, n
    <2>9. /\ packets' \in Seq(Packet) /\ packets' # <<>> /\ Len(packets') = n + 1 /\ packets'[n + 1] = k
          /\ \A i \in 1 .. n : packets'[i] = packets[i]
      BY <1>1, <2>1, <2>7, AppendProperties DEF n
    <2>10. FlattenSeq(DataOf(packets')) = SentUpTo' /\ Len(SentUpTo') = sentScan'
      <3>1. FlattenSeq(DataOf(Append(packets, k))) = FlattenSeq(DataOf(packets)) \o k.data
        BY <1>1, <2>7, FlattenAppend, Zenon
      <3>2. SentUpTo' = SubSeq(jpeg, a, a + (sentScan + Chunk) - 1)
        BY <1>1, <2>1 DEF SentUpTo, a
      <3>3. SentUpTo = SubSeq(jpeg, a, a + sentScan - 1)
        BY DEF SentUpTo, a
      <3>4. FlattenSeq(DataOf(packets')) = SentUpTo'
        BY <1>1, <2>1, <2>5, <2>8, <3>1, <3>2, <3>3
      <3>5. SentUpTo \in Seq(Octet)
        <4>1. FlattenSeq(DataOf(packets)) \in Seq(Octet)
          BY <1>1, <2>7, FlattenAppend, Zenon
        <4> QED BY <1>1, <4>1
      <3>6. Len(SentUpTo \o piece) = Len(SentUpTo) + Len(piece)
        BY <2>4, <3>5, ConcatProperties, Zenon
      <3> QED BY <1>1, <2>1, <2>4, <2>5, <3>2, <3>3, <3>4, <3>6
    <2>11. ASSUME NEW i \in 1 .. n + 1
           PROVE  Pieces(i - 1)' = Pieces(i - 1)
      <3>1. \A j \in 1 .. i - 1 : packets'[j] = packets[j]
        BY <1>1, <2>9 DEF n
      <3> QED BY <3>1 DEF Pieces
    <2>12. ASSUME NEW i \in 1 .. Len(packets')
           PROVE  /\ packets'[i].size <= MaxPacket /\ packets'[i].data # <<>>
                  /\ packets'[i].offset = Len(FlattenSeq(Pieces(i - 1)')) % OffsetModulus
                  /\ packets'[i].marker <=> (jpegPhase' = "sent" /\ i = Len(packets'))
                  /\ i > 1 => packets'[i].seq = (packets'[i - 1].seq + 1) % SeqModulus
                  /\ HeaderRight(packets'[i])
      <3>1. i \in 1 .. n + 1 /\ n \in Nat
        BY <1>1, <2>9 DEF n
      <3>2. CASE i \in 1 .. n
        <4>1. /\ packets[i].size <= MaxPacket /\ packets[i].data # <<>>
              /\ packets[i].offset = Len(FlattenSeq(Pieces(i - 1))) % OffsetModulus
              /\ ~packets[i].marker
              /\ i > 1 => packets[i].seq = (packets[i - 1].seq + 1) % SeqModulus
              /\ HeaderRight(packets[i])
          BY <1>1, <3>2 DEF PacketsRight, n
        <4>2. packets'[i] = packets[i] /\ (i > 1 => packets'[i - 1] = packets[i - 1]) /\ i # n + 1
          BY <2>9, <3>1, <3>2
        <4>3. Pieces(i - 1)' = Pieces(i - 1)
          BY <2>11, <3>1
        <4> QED BY <2>9, <4>1, <4>2, <4>3
      <3>3. CASE i = n + 1
        <4>1. packets'[i] = k /\ i = Len(packets') /\ i - 1 = n /\ (i > 1 => packets # <<>> /\ n \in 1 .. n)
          BY <1>1, <2>9, <3>1, <3>3 DEF n
        <4>2. i > 1 => packets'[i - 1] = packets[n] /\ rtpSeq = (packets[n].seq + 1) % SeqModulus
          BY <2>9, <4>1 DEF PacketsRight, n
        <4>3. Pieces(i - 1)' = DataOf(packets)
          <5>1. Pieces(i - 1)' = Pieces(i - 1)
            BY <2>11, <3>1
          <5> QED BY <4>1, <5>1 DEF DataOf, Pieces, n
        <4>4. Len(FlattenSeq(Pieces(i - 1)')) % OffsetModulus = offset
          BY <1>1, <4>3 DEF offset
        <4>5. k.marker <=> jpegPhase' = "sent"
          BY <2>1, <2>8
        <4> QED BY <2>4, <2>8, <2>32, <4>1, <4>2, <4>4, <4>5
      <3> QED BY <3>1, <3>2, <3>3
    <2>13. rtpSeq' = (packets'[Len(packets')].seq + 1) % SeqModulus
      BY <2>1, <2>8, <2>9
    <2>14. packets'[1].tables = info'.tables
      <3>1. CASE packets = <<>>
        <4>1. n = 0
          BY <3>1 DEF n
        <4> QED BY <1>1, <2>8, <2>9, <2>31, <3>1, <4>1
      <3>2. CASE packets # <<>>
        <4>1. 1 \in 1 .. n /\ packets[1].tables = info.tables
          BY <1>1, <3>2 DEF n, PacketsRight
        <4> QED BY <1>1, <2>9, <4>1
      <3> QED BY <3>1, <3>2
    <2>15. /\ jpegPhase' = "send" => sentScan' < ScanSize'
           /\ jpegPhase' = "sent" => sentScan' = ScanSize'
      <3>1. ScanSize' = ScanSize
        BY <1>1 DEF ScanSize
      <3> QED BY <2>1, <2>6, <3>1
    <2>16. \A i \in 1 .. Len(packets') : HeaderRight(packets[i])' <=> HeaderRight(packets'[i])
      BY <1>1 DEF HeaderRight
    <2> QED BY <2>9, <2>10, <2>12, <2>13, <2>14, <2>15, <2>16 DEF PacketsRight
  <1>4. HeaderLen \in Int /\ MaxPacket \in Int
    <2>1. Len(info.tables) \in Nat
      BY DEF RtpTyped, Info
    <2> QED BY <2>1, RtpAssumption DEF HeaderLen
  <1> QED BY <1>2, <1>3, <1>4

(* What the parser makes of a complete baseline picture. *)
LEMMA BytesOf ==
  ASSUME jpeg \in Seq(Octet), NEW at, NEW s \in Seq(Octet), Holds(jpeg, at, s)
  PROVE  /\ at \in Nat /\ at >= 1 /\ Len(s) \in Nat /\ Size \in Nat /\ at + Len(s) - 1 <= Size
         /\ \A i \in 1 .. Len(s) : Byte(at - 1 + i) = s[i]
  <1>1. at \in Nat \ {0} /\ Len(s) \in Nat /\ Size \in Nat /\ at + Len(s) - 1 <= Size
    BY SizeIs DEF Holds, Size
  <1>2. ASSUME NEW i \in 1 .. Len(s) PROVE Byte(at - 1 + i) = s[i]
    <2>1. at - 1 + i \in 1 .. Size /\ at - 1 + i \in Int
      BY <1>1
    <2>2. Byte(at - 1 + i) = jpeg[at - 1 + i]
      BY <2>1, ByteIs
    <2> QED BY <2>2 DEF Holds
  <1> QED BY <1>1, <1>2

LEMMA FirstByte ==
  ASSUME jpeg \in Seq(Octet), NEW marker \in Octet, NEW data \in Seq(Octet), Len(data) \in Lengths, NEW h,
         Holds(jpeg, h, Segment(marker, data))
  PROVE  h \in Nat /\ h >= 1 /\ Byte(h) = Mark
  <1> DEFINE s == Segment(marker, data)
  <1>1. s \in Seq(Octet) /\ s[1] = Mark /\ Len(s) = Len(data) + 4
    BY SegmentIs
  <1>2. Len(data) \in Nat
    OBVIOUS
  <1> HIDE DEF s
  <1>3. Holds(jpeg, h, s)
    BY DEF s
  <1>4. h \in Nat /\ h >= 1 /\ \A i \in 1 .. Len(s) : Byte(h - 1 + i) = s[i]
    BY <1>1, <1>3, BytesOf
  <1>5. 1 \in 1 .. Len(s) /\ h - 1 + 1 = h
    BY <1>1, <1>2, <1>4
  <1>6. Byte(h - 1 + 1) = s[1]
    BY <1>4, <1>5
  <1> QED BY <1>1, <1>4, <1>5, <1>6

LEMMA FirstAt ==
  ASSUME jpeg \in Seq(Octet), NEW from \in Nat, NEW m \in Nat, from <= m, m <= Size,
         Byte(m) # Mark, \A i \in from .. m - 1 : Byte(i) = Mark
  PROVE  First({i \in from .. Size : Byte(i) # Mark}) = m
  <1> DEFINE S == {i \in from .. Size : Byte(i) # Mark}
  <1>1. Size \in Nat
    BY SizeIs
  <1>2. S \subseteq Nat /\ m \in S /\ \A i \in S : i >= m
    BY <1>1
  <1> HIDE DEF S
  <1>3. First(S) \in S \cup {Size + 1} /\ First(S) \in Nat /\ First(S) <= m
    BY <1>1, <1>2, FirstIs
  <1>4. First(S) \in S
    BY <1>1, <1>3
  <1>5. First(S) = m
    BY <1>2, <1>3, <1>4
  <1> QED BY <1>5 DEF S

(* A segment at h, that the parser reaches over marks alone. *)
LEMMA TakesSegment ==
  ASSUME RtpTyped, Parse, NEW marker \in Octet, marker \notin Standalone \cup {EOI, Mark},
         NEW data \in Seq(Octet), Len(data) \in Lengths, NEW h, Holds(jpeg, h, Segment(marker, data)),
         jpegPos <= h, jpegPos + 3 <= Size, \A i \in jpegPos .. h : Byte(i) = Mark
  PROVE  /\ ParseSegment(marker, h + 2) /\ Fits(h + 2) /\ SegmentLength(h + 2) = Len(data) + 2
         /\ Holds(jpeg, h + 4, data) /\ h \in Nat /\ h >= 1
  <1> DEFINE s == Segment(marker, data)
  <1>1. /\ s \in Seq(Octet) /\ Len(s) = Len(data) + 4 /\ s[1] = Mark /\ s[2] = marker
        /\ 256 * s[3] + s[4] = Len(data) + 2 /\ Holds(s, 5, data)
    BY SegmentIs
  <1>2. jpeg \in Seq(Octet) /\ Len(jpeg) \in Nat /\ Len(data) \in Nat /\ Len(s) \in Nat /\ jpegPos \in Nat
        /\ jpegPos >= 1 /\ jpegPhase = "parse"
    <2>1. jpegPhase = "parse"
      BY DEF Parse
    <2>2. jpeg \in Seq(Octet) /\ jpegPos \in Nat /\ jpegPos >= 1
      BY <2>1 DEF RtpTyped, RtpTypeOK
    <2> HIDE DEF s
    <2> QED BY <1>1, <2>1, <2>2
  <1> HIDE DEF s
  <1>3. Holds(jpeg, h, s)
    BY DEF s
  <1>4. /\ h \in Nat /\ h >= 1 /\ h + Len(s) - 1 <= Size /\ Size \in Nat
        /\ \A i \in 1 .. Len(s) : Byte(h - 1 + i) = s[i]
    BY <1>1, <1>2, <1>3, BytesOf
  <1>5. Byte(h + 1) = marker /\ Byte(h + 2) = s[3] /\ Byte(h + 3) = s[4]
    <2>1. 1 \in 1 .. Len(s) /\ 2 \in 1 .. Len(s) /\ 3 \in 1 .. Len(s) /\ 4 \in 1 .. Len(s)
      BY <1>1, <1>2
    <2>2. h - 1 + 2 = h + 1 /\ h - 1 + 3 = h + 2 /\ h - 1 + 4 = h + 3
      BY <1>4
    <2>3. Byte(h - 1 + 2) = s[2] /\ Byte(h - 1 + 3) = s[3] /\ Byte(h - 1 + 4) = s[4]
      BY <1>4, <2>1
    <2> QED BY <1>1, <2>2, <2>3
  <1>6. SegmentLength(h + 2) = Len(data) + 2
    <2>1. h + 2 + 1 = h + 3
      BY <1>4
    <2> QED BY <1>1, <1>5, <2>1 DEF SegmentLength
  <1>7. Fits(h + 2)
    BY <1>1, <1>2, <1>4, <1>6, SMTT(30) DEF Fits, HasLength
  <1>8. Holds(jpeg, h + 4, data)
    <2>1. Holds(jpeg, h + 5 - 1, data)
      BY <1>1, <1>2, <1>3, HoldsWithin, Zenon
    <2>2. h + 5 - 1 = h + 4
      BY <1>4
    <2> QED BY <2>1, <2>2
  <1>9. First({i \in jpegPos .. Size : Byte(i) # Mark}) = h + 1
    <2>1. h + 1 \in Nat /\ jpegPos <= h + 1 /\ h + 1 <= Size /\ (h + 1) - 1 = h
      <3>1. h \in Nat /\ Len(s) = Len(data) + 4 /\ h + Len(s) - 1 <= Size /\ Size \in Nat
        BY <1>1, <1>4
      <3>2. Len(data) \in Nat /\ jpegPos \in Nat
        BY <1>2
      <3> QED BY <3>1, <3>2
    <2>2. Byte(h + 1) # Mark
      BY <1>5
    <2>3. \A i \in jpegPos .. (h + 1) - 1 : Byte(i) = Mark
      BY <2>1, Zenon
    <2> DEFINE m == h + 1
    <2>4. /\ jpegPos \in Nat /\ m \in Nat /\ jpegPos <= m /\ m <= Size /\ Byte(m) # Mark
          /\ jpeg \in Seq(Octet)
      BY <1>2, <2>1, <2>2
    <2>6. \A i \in jpegPos .. m - 1 : Byte(i) = Mark
      BY <2>3, Zenon
    <2> HIDE DEF m
    <2>5. First({i \in jpegPos .. Size : Byte(i) # Mark}) = m
      BY <2>4, <2>6, FirstAt
    <2> QED BY <2>5 DEF m
  <1>10. ParseSegment(marker, h + 2)
    <2> DEFINE at == First({i \in jpegPos .. Size : Byte(i) # Mark})
    <2>1. Byte(jpegPos) = Mark
      BY <1>2, <1>4
    <2>2. Byte(at) = marker /\ at <= Size /\ at + 1 = h + 2 /\ at \in Nat
      BY <1>1, <1>2, <1>4, <1>5, <1>9
    <2>3. ~(at > Size) /\ ~(jpegPos + 3 > Size)
      BY <1>2, <1>4, <2>2
    <2>4. Byte(at) # EOI /\ Byte(at) \notin Standalone
      BY <2>2
    <2>5. ParseSegment(Byte(at), at + 1)
      <3> HIDE DEF at
      <3> QED BY <2>1, <2>3, <2>4 DEF Parse, at
    <2> QED BY <2>2, <2>5
  <1> QED BY <1>4, <1>6, <1>7, <1>8, <1>10

(* One and two tables in a segment. *)
LEMMA Portions ==
  ASSUME NEW n \in Nat, n >= 1
  PROVE  /\ 0 % n = 0 /\ 0 \div n = 0 /\ n % n = 0 /\ n \div n = 1
         /\ (n + n) % n = 0 /\ (n + n) \div n = 2
         /\ {t \in 0 .. 0 : t * n < 0} = {} /\ {t \in 0 .. n : t * n < n} \subseteq {0}
         /\ {t \in 0 .. n + n : t * n < n + n} \subseteq {0, 1}
  <1>1. ASSUME NEW k \in Nat, NEW l \in Nat, l = k * n
        PROVE  l % n = 0 /\ l \div n = k
    <2> DEFINE q == l \div n
               r == l % n
    <2>1. q \in Int /\ r \in Int /\ l = n * q + r /\ 0 <= r /\ r < n
      BY <1>1
    <2> HIDE DEF q, r
    <2>2. ASSUME q < k PROVE FALSE
      <3>1. k - q >= 1 /\ k - q \in Nat
        BY <2>1, <2>2
      <3>2. (k - q) * n >= n
        BY <3>1
      <3>3. (k - q) * n = k * n - n * q
        BY <2>1
      <3> QED BY <1>1, <2>1, <3>2, <3>3
    <2>3. ASSUME q > k PROVE FALSE
      <3>1. q - k >= 1 /\ q - k \in Nat
        BY <2>1, <2>3
      <3>2. (q - k) * n >= n
        BY <3>1
      <3>3. (q - k) * n = n * q - k * n
        BY <2>1
      <3> QED BY <1>1, <2>1, <3>2, <3>3
    <2>4. q = k
      BY <2>1, <2>2, <2>3
    <2>5. r = 0
      BY <1>1, <2>1, <2>4
    <2> QED BY <2>4, <2>5 DEF q, r
  <1>2. /\ 0 \in Nat /\ 1 \in Nat /\ 2 \in Nat /\ n + n \in Nat
        /\ 0 = 0 * n /\ n = 1 * n /\ n + n = 2 * n
    OBVIOUS
  <1>3. /\ 0 % n = 0 /\ 0 \div n = 0
    BY <1>1, <1>2
  <1>4. n % n = 0 /\ n \div n = 1
    BY <1>1, <1>2
  <1>5. (n + n) % n = 0 /\ (n + n) \div n = 2
    BY <1>1, <1>2
  <1>6. ASSUME NEW t \in Nat, NEW k \in Nat, t * n < k * n
        PROVE  t < k
    <2>1. CASE t >= k
      <3>1. t - k \in Nat
        BY <2>1
      <3>2. (t - k) * n >= 0 /\ (t - k) * n = t * n - k * n
        BY <3>1
      <3> QED BY <1>6, <3>2
    <2> QED BY <2>1
  <1>7. {t \in 0 .. 0 : t * n < 0} = {}
    OBVIOUS
  <1>8. {t \in 0 .. n : t * n < n} \subseteq {0}
    <2>1. ASSUME NEW t \in 0 .. n, t * n < n PROVE t = 0
      <3>1. t \in Nat /\ t * n < 1 * n
        BY <1>2, <2>1
      <3>2. t < 1
        BY <1>2, <1>6, <3>1
      <3> QED BY <3>1, <3>2
    <2> QED BY <2>1
  <1>9. {t \in 0 .. n + n : t * n < n + n} \subseteq {0, 1}
    <2>1. ASSUME NEW t \in 0 .. n + n, t * n < n + n PROVE t \in {0, 1}
      <3>1. t \in Nat /\ t * n < 2 * n
        BY <1>2, <2>1
      <3>2. t < 2
        BY <1>2, <1>6, <3>1
      <3> QED BY <3>1, <3>2
    <2> QED BY <2>1
  <1> QED BY <1>3, <1>4, <1>5, <1>7, <1>8, <1>9

LEMMA NoTable ==
  ASSUME NEW at
  PROVE  GoodTables(at, 0) /\ TableBytes(at, 0) = <<>>
  <1> DEFINE n == TableSize + 1
  <1>1. n \in Nat /\ n >= 1
    BY TableLengths
  <1>2. 0 % n = 0 /\ 0 \div n = 0 /\ {t \in 0 .. 0 : t * n < 0} = {}
    BY <1>1, Portions, Zenon
  <1>3. GoodTables(at, 0)
    BY <1>2 DEF GoodTables, TablesOf
  <1>4. ASSUME NEW f, f = [i \in 1 .. 0 |-> f[i]] PROVE FlattenSeq(f) = <<>>
    <2>1. f = <<>> /\ Len(f) = 0
      BY <1>4
    <2> QED BY <2>1, FlattenNone
  <1>5. TableBytes(at, 0) = <<>>
    BY <1>2, <1>4 DEF TableBytes
  <1> QED BY <1>3, <1>5

(* Table t of a segment whose tables begin at `at'. *)
LEMMA TableRead ==
  ASSUME jpeg \in Seq(Octet), NEW v \in Octet, NEW at \in Nat, NEW gap \in Nat,
         Holds(jpeg, at + gap, Table(0, v))
  PROVE  Byte(at + gap) \div 16 = 0 /\ [i \in 1 .. TableSize |-> Byte(at + gap + i)] = Values(v)
  <1> DEFINE s == Table(0, v)
  <1>1. /\ s \in Seq(Octet) /\ Len(s) = TableSize + 1 /\ s[1] = 0 * 16
        /\ \A i \in 1 .. TableSize : s[i + 1] = v
    <2>1. 0 \in 0 .. 1
      OBVIOUS
    <2> QED BY <2>1, TableIs, Zenon
  <1> HIDE DEF s
  <1>2. TableSize \in Nat
    BY TableLengths
  <1>3. Holds(jpeg, at + gap, s)
    BY DEF s
  <1>4. \A i \in 1 .. Len(s) : Byte(at + gap - 1 + i) = s[i]
    <2> DEFINE h == at + gap
    <2> HIDE DEF h
    <2>1. Holds(jpeg, h, s)
      BY <1>3 DEF h
    <2>2. h \in Nat /\ \A i \in 1 .. Len(s) : Byte(h - 1 + i) = s[i]
      BY <1>1, <2>1, BytesOf
    <2>3. \A i \in 1 .. Len(s) : h - 1 + i = at + gap - 1 + i
      BY <1>1, <1>2, <2>2 DEF h
    <2> QED BY <2>2, <2>3
  <1>5. Byte(at + gap) = 0
    <2>1. 1 \in 1 .. Len(s) /\ at + gap - 1 + 1 = at + gap
      BY <1>1, <1>2
    <2> QED BY <1>1, <1>4, <2>1
  <1>6. ASSUME NEW i \in 1 .. TableSize PROVE Byte(at + gap + i) = v
    <2>1. i + 1 \in 1 .. Len(s) /\ at + gap - 1 + (i + 1) = at + gap + i
      BY <1>1, <1>2
    <2> QED BY <1>1, <1>4, <2>1
  <1> QED BY <1>5, <1>6 DEF Values

LEMMA OneTable ==
  ASSUME jpeg \in Seq(Octet), NEW v \in Octet, NEW at \in Nat, Holds(jpeg, at, Table(0, v))
  PROVE  GoodTables(at, TableSize + 1) /\ TableBytes(at, TableSize + 1) = Values(v)
  <1> DEFINE n == TableSize + 1
  <1>1. n \in Nat /\ n >= 1 /\ TableSize \in Nat
    BY TableLengths
  <1>2. n % n = 0 /\ n \div n = 1 /\ {t \in 0 .. n : t * n < n} \subseteq {0}
    BY <1>1, Portions, Zenon
  <1>3. 0 \in Nat /\ at + 0 = at /\ 0 * n = 0 /\ at + 0 * n = at
    BY <1>1
  <1>4. Byte(at) \div 16 = 0 /\ [i \in 1 .. TableSize |-> Byte(at + i)] = Values(v)
    <2>1. Holds(jpeg, at + 0, Table(0, v))
      BY <1>3
    <2>2. Byte(at + 0) \div 16 = 0 /\ [i \in 1 .. TableSize |-> Byte(at + 0 + i)] = Values(v)
      BY <1>3, <2>1, TableRead, Zenon
    <2> QED BY <1>3, <2>2
  <1>5. GoodTables(at, n)
    <2>1. \A t \in TablesOf(at, n) : t = 0
      BY <1>2 DEF TablesOf
    <2>2. \A t \in TablesOf(at, n) : at + t * n = at
      BY <1>3, <2>1
    <2> QED BY <1>2, <1>4, <2>2 DEF GoodTables
  <1>6. TableBytes(at, n) = Values(v)
    <2> DEFINE s == [t \in 1 .. n \div n |-> [i \in 1 .. TableSize |-> Byte(at + (t - 1) * n + i)]]
    <2>1. Len(s) = 1 /\ s[1] = [i \in 1 .. TableSize |-> Byte(at + (1 - 1) * n + i)]
      <3>1. 1 \in 1 .. n \div n /\ n \div n \in Nat
        BY <1>2
      <3> HIDE DEF n
      <3> QED BY <1>2, <3>1
    <2>2. \A i \in 1 .. TableSize : at + (1 - 1) * n + i = at + i
      BY <1>1
    <2>3. s[1] = Values(v)
      BY <1>4, <2>1, <2>2
    <2>4. TableBytes(at, n) = FlattenSeq(s)
      BY DEF TableBytes
    <2> HIDE DEF s
    <2> QED BY <2>1, <2>3, <2>4, FlattenOne
  <1> QED BY <1>5, <1>6

LEMMA TwoTables ==
  ASSUME jpeg \in Seq(Octet), NEW v \in Octet, NEW w \in Octet, NEW at \in Nat,
         Holds(jpeg, at, Table(0, v) \o Table(0, w))
  PROVE  /\ GoodTables(at, (TableSize + 1) + (TableSize + 1))
         /\ TableBytes(at, (TableSize + 1) + (TableSize + 1)) = Values(v) \o Values(w)
  <1> DEFINE n == TableSize + 1
             l == n + n
  <1>1. n \in Nat /\ n >= 1 /\ TableSize \in Nat
    BY TableLengths
  <1>2. (n + n) % n = 0 /\ (n + n) \div n = 2 /\ {t \in 0 .. n + n : t * n < n + n} \subseteq {0, 1}
    BY <1>1, Portions, Zenon
  <1>3. Holds(jpeg, at, Table(0, v)) /\ Holds(jpeg, at + n, Table(0, w))
    <2> DEFINE a == Table(0, v)
               b == Table(0, w)
    <2>1. a \in Seq(Octet) /\ Len(a) = n /\ b \in Seq(Octet) /\ Len(b) = n
      <3>1. 0 \in 0 .. 1
        OBVIOUS
      <3> QED BY <3>1, TableIs, Zenon
    <2> HIDE DEF a, b, n
    <2>2. Holds(jpeg, at, a \o b)
      BY DEF a, b
    <2>3. Holds(jpeg, at, a) /\ Holds(jpeg, at + Len(a), b)
      BY <2>1, <2>2, HoldsBoth
    <2> QED BY <2>1, <2>3 DEF a, b
  <1>4. /\ 0 \in Nat /\ n \in Nat /\ 0 * n = 0 /\ 1 * n = n /\ at + 0 = at /\ at + 0 * n = at /\ at + 1 * n = at + n
    BY <1>1
  <1>5. /\ Byte(at) \div 16 = 0 /\ [i \in 1 .. TableSize |-> Byte(at + i)] = Values(v)
        /\ Byte(at + n) \div 16 = 0 /\ [i \in 1 .. TableSize |-> Byte(at + n + i)] = Values(w)
    <2> HIDE DEF n
    <2>1. Holds(jpeg, at + 0, Table(0, v))
      BY <1>3, <1>4
    <2>2. Byte(at + 0) \div 16 = 0 /\ [i \in 1 .. TableSize |-> Byte(at + 0 + i)] = Values(v)
      BY <1>4, <2>1, TableRead, Zenon
    <2>3. Byte(at + n) \div 16 = 0 /\ [i \in 1 .. TableSize |-> Byte(at + n + i)] = Values(w)
      BY <1>3, <1>4, TableRead, Zenon
    <2> QED BY <1>4, <2>2, <2>3
  <1>6. GoodTables(at, l)
    <2>1. \A t \in TablesOf(at, l) : t \in {0, 1}
      BY <1>2 DEF TablesOf
    <2>2. \A t \in TablesOf(at, l) : at + t * n = at \/ at + t * n = at + n
      BY <1>4, <2>1
    <2>3. l % n = 0
      BY <1>2
    <2> QED BY <1>5, <2>2, <2>3 DEF GoodTables
  <1>7. TableBytes(at, l) = Values(v) \o Values(w)
    <2> DEFINE s == [t \in 1 .. l \div n |-> [i \in 1 .. TableSize |-> Byte(at + (t - 1) * n + i)]]
    <2>1. /\ Len(s) = 2 /\ s[1] = [i \in 1 .. TableSize |-> Byte(at + (1 - 1) * n + i)]
          /\ s[2] = [i \in 1 .. TableSize |-> Byte(at + (2 - 1) * n + i)]
      <3>1. 1 \in 1 .. l \div n /\ 2 \in 1 .. l \div n /\ l \div n \in Nat /\ l \div n = 2
        BY <1>2
      <3> HIDE DEF n, l
      <3> QED BY <3>1
    <2>2. \A i \in 1 .. TableSize : at + (1 - 1) * n + i = at + i /\ at + (2 - 1) * n + i = at + n + i
      BY <1>1
    <2>3. s[1] = Values(v) /\ s[2] = Values(w)
      BY <1>5, <2>1, <2>2
    <2>4. TableBytes(at, l) = FlattenSeq(s)
      BY DEF TableBytes
    <2> HIDE DEF s
    <2> QED BY <2>1, <2>3, <2>4, FlattenTwo
  <1> QED BY <1>6, <1>7

(* The stages of parsing a picture. *)
WithTables(bytes) == [NewInfo EXCEPT !.tables = bytes]
RightType(p) == IF p.sof.components = 3 /\ p.sof.sampling = 34 THEN 0 ELSE 1
RightInfo(p) == [NewInfo EXCEPT !.tables = TableValues(p), !.height = p.sof.height,
                                !.width = p.sof.width, !.type = RightType(p)]
TwoSegments(p) == ~p.joined /\ p.tables = << <<0, 7>>, <<0, 255>> >>
InGap(p) == \/ jpegPos = AtFill(p) \/ jpegPos = AtHeader(p)
            \/ p.fill = <<0, Mark>> /\ jpegPos = AtFill(p) + 1

Understood ==
    jpegPhase # "idle" /\ Baseline(picture) =>
        /\ jpegPhase # "rejected"
        /\ jpegPhase = "parse" =>
             \/ jpegPos = 3 /\ info = NewInfo
             \/ /\ TwoSegments(picture)
                /\ jpegPos = TableSize + 8 /\ info = WithTables(Values(7))
             \/ InGap(picture) /\ info = WithTables(TableValues(picture))
             \/ jpegPos = AtScanHeader(picture) /\ info = RightInfo(picture)
        /\ jpegPhase \in {"send", "sent", "failed"} =>
             info = [RightInfo(picture) EXCEPT !.scan = <<AtScan(picture), AtEnding(picture) - 1>>]

(* The bytes of a complete baseline picture. *)
LEMMA BaselineIs ==
  ASSUME NEW p \in Pictures, Baseline(p)
  PROVE  /\ Encoded(p) = Whole(p) /\ p.sof \in Sofs /\ p.scan \in Scans /\ p.scan # <<>>
         /\ p.tables \in {<<>>, << <<0, 7>> >>, << <<0, 7>>, <<0, 255>> >>}
         /\ p.fill \in {<<>>, <<0, Mark>>, <<Mark, 1>>} /\ p.joined \in BOOLEAN /\ p.ended \in BOOLEAN
         /\ FrameHeader(p.sof) = Segment(SOF0, Payload(p.sof)) /\ p.sof.precision = 8
         /\ p.sof.height > 0 /\ p.sof.width > 0
  <1>1. /\ p.fill \in {<<>>, <<0, Mark>>, <<Mark, 1>>} /\ p.tables \in Quantisations
        /\ p.joined \in BOOLEAN /\ p.sof \in Sofs /\ p.scan \in Scans /\ p.ended \in BOOLEAN
    BY PictureParts
  <1>2. /\ p.cut = 0 /\ p.scan # <<>> /\ p.sof.marker = SOF0 /\ p.sof.precision = 8 /\ p.sof.height > 0
        /\ \A i \in 1 .. Len(p.tables) : p.tables[i][1] = 0
    BY DEF Baseline
  <1>3. Encoded(p) = Whole(p)
    BY <1>2, EncodedBytes
  <1>4. p.tables # << <<1, 7>> >>
    <2>1. ASSUME p.tables = << <<1, 7>> >> PROVE FALSE
      <3>1. Len(p.tables) = 1 /\ p.tables[1][1] = 1 /\ 1 \in 1 .. 1
        BY <2>1
      <3> QED BY <1>2, <3>1
    <2> QED BY <2>1
  <1>5. p.tables \in {<<>>, << <<0, 7>> >>, << <<0, 7>>, <<0, 255>> >>}
    BY <1>1, <1>4 DEF Quantisations
  <1>6. FrameHeader(p.sof) = Segment(SOF0, Payload(p.sof))
    BY <1>1, <1>2, HeaderBytes
  <1>7. p.sof.width > 0
    BY <1>1 DEF Sofs, Sof
  <1> QED BY <1>1, <1>2, <1>3, <1>5, <1>6, <1>7

LEMMA Sizes ==
  ASSUME NEW p \in Pictures, Baseline(p), NEW size, size = Len(Encoded(p))
  PROVE  /\ AtFill(p) \in Nat /\ AtFill(p) = 3 + Len(Quantisation(p)) /\ AtFill(p) >= 3
         /\ AtHeader(p) \in Nat /\ AtHeader(p) = AtFill(p) + Len(p.fill) /\ AtHeader(p) >= AtFill(p)
         /\ AtScanHeader(p) \in Nat /\ AtScanHeader(p) = AtHeader(p) + 4 + Len(Payload(p.sof))
         /\ Len(Payload(p.sof)) \in Nat /\ Len(Payload(p.sof)) >= 9
         /\ AtScan(p) \in Nat /\ AtScan(p) = AtScanHeader(p) + 5
         /\ AtEnding(p) \in Nat /\ AtEnding(p) = AtScan(p) + Len(p.scan)
         /\ Len(p.scan) \in Nat /\ Len(p.scan) >= 1
         /\ size = AtEnding(p) - 1 + Len(Ending(p)) /\ size \in Nat /\ Len(Ending(p)) \in Nat
         /\ AtHeader(p) + 3 <= size /\ AtScanHeader(p) + 3 <= size /\ size >= 16
  <1>1. /\ Encoded(p) = Whole(p) /\ p.sof \in Sofs /\ p.scan # <<>>
        /\ FrameHeader(p.sof) = Segment(SOF0, Payload(p.sof))
    BY BaselineIs
  <1>2. Len(Whole(p)) = AtEnding(p) - 1 + Len(Ending(p))
    BY Layout
  <1>3. /\ Quantisation(p) \in Seq(Octet) /\ p.fill \in Seq(Octet) /\ p.scan \in Seq(Octet)
        /\ Ending(p) \in Seq(Octet) /\ Len(ScanHeader) = 5
    BY PartsAreBytes
  <1>4. Payload(p.sof) \in Seq(Octet) /\ Len(Payload(p.sof)) \in Lengths /\ Len(Payload(p.sof)) >= 9
    BY <1>1, PayloadIs
  <1>5. Len(FrameHeader(p.sof)) = Len(Payload(p.sof)) + 4
    <2>1. SOF0 \in Octet
      BY DEF SOF0, Octet
    <2> QED BY <1>1, <1>4, <2>1, SegmentIs
  <1>6. Len(Quantisation(p)) \in Nat /\ Len(p.fill) \in Nat /\ Len(Ending(p)) \in Nat
        /\ Len(Payload(p.sof)) \in Nat
    BY <1>3, <1>4
  <1>7. Len(p.scan) \in Nat /\ Len(p.scan) >= 1
    BY <1>1, <1>3
  <1>8. AtFill(p) \in Nat /\ AtFill(p) = 3 + Len(Quantisation(p)) /\ AtFill(p) >= 3
    BY <1>6 DEF AtFill
  <1>9. AtHeader(p) \in Nat /\ AtHeader(p) = AtFill(p) + Len(p.fill) /\ AtHeader(p) >= AtFill(p)
    <2>1. AtFill(p) \in Nat /\ Len(p.fill) \in Nat
      BY <1>6, <1>8
    <2>2. AtHeader(p) = AtFill(p) + Len(p.fill)
      BY DEF AtHeader
    <2> QED BY <2>1, <2>2
  <1>10. AtScanHeader(p) \in Nat /\ AtScanHeader(p) = AtHeader(p) + 4 + Len(Payload(p.sof))
    BY <1>5, <1>6, <1>9, SMTT(30) DEF AtScanHeader
  <1>11. AtScan(p) \in Nat /\ AtScan(p) = AtScanHeader(p) + 5
    BY <1>3, <1>10 DEF AtScan
  <1>12. AtEnding(p) \in Nat /\ AtEnding(p) = AtScan(p) + Len(p.scan)
    BY <1>7, <1>11 DEF AtEnding
  <1>13. size = AtEnding(p) - 1 + Len(Ending(p)) /\ size \in Nat
    BY <1>1, <1>2, EncodedBytes
  <1>14. AtScan(p) <= size
    <2>1. AtScan(p) \in Nat /\ Len(p.scan) \in Nat /\ Len(p.scan) >= 1 /\ AtEnding(p) = AtScan(p) + Len(p.scan)
      BY <1>7, <1>11, <1>12
    <2>2. size = AtEnding(p) - 1 + Len(Ending(p)) /\ Len(Ending(p)) \in Nat
      BY <1>6, <1>13
    <2> QED BY <2>1, <2>2
  <1>15. AtScanHeader(p) + 5 <= size
    BY <1>11, <1>14
  <1>16. AtHeader(p) + 18 <= size /\ AtHeader(p) >= 3
    <2>1. AtHeader(p) \in Nat /\ Len(Payload(p.sof)) \in Nat /\ Len(Payload(p.sof)) >= 9
          /\ AtScanHeader(p) = AtHeader(p) + 4 + Len(Payload(p.sof)) /\ size \in Nat
      BY <1>4, <1>6, <1>9, <1>10, <1>13
    <2>2. AtHeader(p) >= 3
      <3>1. AtFill(p) \in Nat /\ AtFill(p) >= 3 /\ AtHeader(p) \in Nat /\ AtHeader(p) >= AtFill(p)
        BY <1>8, <1>9
      <3> QED BY <3>1
    <2> QED BY <1>15, <2>1, <2>2
  <1>17. AtHeader(p) + 3 <= size /\ AtScanHeader(p) + 3 <= size /\ size >= 16
    <2>1. AtHeader(p) \in Nat /\ AtScanHeader(p) \in Nat /\ size \in Nat
      BY <1>9, <1>10, <1>13
    <2> QED BY <1>15, <1>16, <2>1
  <1> QED BY <1>4, <1>6, <1>7, <1>8, <1>9, <1>10, <1>11, <1>12, <1>13, <1>17

LEMMA Positions ==
  ASSUME NEW p \in Pictures, Baseline(p), jpeg = Encoded(p), jpeg \in Seq(Octet)
  PROVE  /\ AtFill(p) \in Nat /\ AtFill(p) = 3 + Len(Quantisation(p)) /\ AtFill(p) >= 3
         /\ AtHeader(p) \in Nat /\ AtHeader(p) = AtFill(p) + Len(p.fill) /\ AtHeader(p) >= AtFill(p)
         /\ AtScanHeader(p) \in Nat /\ AtScanHeader(p) = AtHeader(p) + 4 + Len(Payload(p.sof))
         /\ Len(Payload(p.sof)) \in Nat /\ Len(Payload(p.sof)) >= 9
         /\ AtScan(p) \in Nat /\ AtScan(p) = AtScanHeader(p) + 5
         /\ AtEnding(p) \in Nat /\ AtEnding(p) = AtScan(p) + Len(p.scan)
         /\ Len(p.scan) \in Nat /\ Len(p.scan) >= 1
         /\ Size = AtEnding(p) - 1 + Len(Ending(p)) /\ Size \in Nat /\ Len(Ending(p)) \in Nat
         /\ AtHeader(p) + 3 <= Size /\ AtScanHeader(p) + 3 <= Size /\ Size >= 16
  BY Sizes DEF Size

LEMMA MarkersDiffer ==
  /\ DQT \in Octet /\ SOF0 \in Octet /\ SOS \in Octet
  /\ DQT # SOF0 /\ DQT # SOS /\ SOF0 # SOS /\ EOI # Mark /\ 0 # Mark /\ 1 # Mark
  /\ DQT \notin Standalone \cup {EOI, Mark} /\ SOF0 \notin Standalone \cup {EOI, Mark}
  /\ SOS \notin Standalone \cup {EOI, Mark}
  /\ 1 \in Standalone /\ 1 # EOI
  BY DEF DQT, SOF0, SOS, EOI, Mark, Standalone, Octet

(* A segment of tables. *)
LEMMA TableStep ==
  ASSUME RtpTyped, Parse, NEW data \in Seq(Octet), Len(data) \in Lengths,
         Holds(jpeg, jpegPos, Segment(DQT, data)), jpegPos + 3 <= Size,
         GoodTables(jpegPos + 4, Len(data))
  PROVE  /\ jpegPhase' = "parse" /\ jpegPos' = jpegPos + 4 + Len(data)
         /\ info' = [info EXCEPT !.tables = @ \o TableBytes(jpegPos + 4, Len(data))]
  <1> DEFINE h == jpegPos
             at == h + 2
  <1>1. Byte(h) = Mark /\ h \in Nat /\ Len(data) \in Nat
    <2>1. jpeg \in Seq(Octet) /\ DQT \in Octet
      BY MarkersDiffer DEF RtpTyped, RtpTypeOK
    <2>2. Len(data) \in Nat
      OBVIOUS
    <2> QED BY <2>1, <2>2, FirstByte
  <1>2. ParseSegment(DQT, h + 2) /\ Fits(h + 2) /\ SegmentLength(h + 2) = Len(data) + 2
    <2>1. h <= h /\ \A i \in h .. h : Byte(i) = Mark
      BY <1>1
    <2> QED BY <2>1, MarkersDiffer, TakesSegment
  <1>3. jpegPhase = "parse"
    BY DEF Parse
  <1>4. /\ at + 2 = h + 4 /\ SegmentLength(at) - 2 = Len(data) /\ at + SegmentLength(at) = h + 4 + Len(data)
    BY <1>1, <1>2
  <1>5. GoodTables(at + 2, SegmentLength(at) - 2)
    BY <1>4
  <1> HIDE DEF at, h
  <1>6. /\ jpegPos' = at + SegmentLength(at) /\ jpegPhase' = jpegPhase
        /\ info' = [info EXCEPT !.tables = @ \o TableBytes(at + 2, SegmentLength(at) - 2)]
    <2>1. ParseSegment(DQT, at) /\ Fits(at)
      BY <1>2 DEF at
    <2> QED BY <1>5, <2>1, MarkersDiffer DEF ParseSegment
  <1> QED BY <1>3, <1>4, <1>6 DEF h

(* The marker of the frame header. *)
LEMMA HeaderStep ==
  ASSUME RtpTyped, Parse, picture \in Pictures, Baseline(picture), jpeg = Encoded(picture),
         jpegPos = AtHeader(picture)
           \/ (picture.fill = <<0, Mark>> /\ jpegPos = AtFill(picture) + 1),
         info = WithTables(TableValues(picture))
  PROVE  jpegPhase' = "parse" /\ jpegPos' = AtScanHeader(picture) /\ info' = RightInfo(picture)
  <1> DEFINE p == picture
             h == AtHeader(p)
             d == Payload(p.sof)
             at == h + 2
  <1>1. jpeg \in Seq(Octet) /\ jpegPos \in Nat /\ info \in Info /\ jpegPhase = "parse"
    BY DEF RtpTyped, RtpTypeOK, Parse
  <1>2. h \in Nat /\ Len(d) \in Nat /\ Len(d) >= 9 /\ h + 3 <= Size /\ Size \in Nat
    BY <1>1, Positions
  <1>20. AtFill(p) \in Nat /\ h = AtFill(p) + Len(p.fill)
    BY <1>1, Positions
  <1>21. AtScanHeader(p) = h + 4 + Len(d)
    BY <1>1, Positions
  <1>3. /\ Encoded(p) = Whole(p) /\ p.sof \in Sofs /\ FrameHeader(p.sof) = Segment(SOF0, d)
        /\ p.sof.precision = 8
    BY BaselineIs
  <1>4. /\ d \in Seq(Octet) /\ Len(d) \in Lengths
        /\ p.sof.components = 3 => Len(d) = 15 /\ d[8] = p.sof.sampling
        /\ d[1] = p.sof.precision
        /\ 256 * d[2] + d[3] = p.sof.height /\ 256 * d[4] + d[5] = p.sof.width
        /\ d[6] = p.sof.components /\ p.sof.components \in {1, 3}
    BY <1>3, PayloadIs
  <1>5. Holds(jpeg, h, Segment(SOF0, d)) /\ Holds(jpeg, AtFill(p), p.fill)
    BY <1>3, Layout
  <1>6. jpegPos <= h /\ jpegPos + 3 <= Size
    <2>1. h + 3 <= Size /\ h \in Nat /\ Size \in Nat
      BY <1>2
    <2>2. p.fill = <<0, Mark>> => Len(p.fill) = 2
      OBVIOUS
    <2>3. jpegPos <= h
      <3>1. CASE p.fill = <<0, Mark>> /\ jpegPos = AtFill(p) + 1
        BY <1>20, <2>2, <3>1
      <3>2. CASE jpegPos = h
        BY <1>2, <3>2
      <3> QED BY <3>1, <3>2
    <2> HIDE DEF h, p
    <2>4. jpegPos \in Nat
      BY <1>1
    <2> QED BY <2>1, <2>3, <2>4
  <1>7. \A i \in jpegPos .. h : Byte(i) = Mark
    <2>1. Byte(h) = Mark
      <3> HIDE DEF h, d
      <3> QED BY <1>1, <1>4, <1>5, MarkersDiffer, FirstByte
    <2>2. CASE jpegPos = h
      BY <1>2, <2>1, <2>2
    <2>3. CASE p.fill = <<0, Mark>> /\ jpegPos = AtFill(p) + 1
      <3> DEFINE f == p.fill
      <3>1. f \in Seq(Octet) /\ Len(f) = 2 /\ f[2] = Mark
        <4>1. f \in Seq(Octet)
          BY PartsAreBytes
        <4> QED BY <2>3, <4>1
      <3>2. Byte(AtFill(p) - 1 + 2) = f[2]
        <4>1. \A i \in 1 .. Len(f) : Byte(AtFill(p) - 1 + i) = f[i]
          BY <1>1, <1>5, <3>1, BytesOf
        <4> QED BY <3>1, <4>1
      <3>3. Byte(jpegPos) = Mark /\ h = jpegPos + 1
        <4>1. AtFill(p) - 1 + 2 = jpegPos /\ h = jpegPos + 1
          <5>1. AtFill(p) \in Nat /\ h = AtFill(p) + Len(f) /\ Len(f) = 2 /\ jpegPos = AtFill(p) + 1
            BY <1>20, <2>3, <3>1
          <5> HIDE DEF f, h
          <5> QED BY <5>1
        <4> QED BY <3>1, <3>2, <4>1
      <3>4. ASSUME NEW i \in jpegPos .. h PROVE i = jpegPos \/ i = h
        <4> HIDE DEF h
        <4> QED BY <1>1, <3>3
      <3> QED BY <2>1, <3>3, <3>4
    <2> QED BY <2>2, <2>3
  <1>8. /\ ParseSegment(SOF0, h + 2) /\ Fits(h + 2) /\ SegmentLength(h + 2) = Len(d) + 2
        /\ Holds(jpeg, h + 4, d)
    <2> HIDE DEF h, d
    <2> QED BY <1>4, <1>5, <1>6, <1>7, MarkersDiffer, TakesSegment
  <1>9. /\ at + 2 = h + 4 /\ SegmentLength(at) - 2 = Len(d) /\ at + SegmentLength(at) = h + 4 + Len(d)
    <2> HIDE DEF h, d
    <2>1. h \in Nat /\ Len(d) \in Nat /\ SegmentLength(h + 2) = Len(d) + 2
      BY <1>2, <1>8
    <2> QED BY <2>1
  <1>10. /\ Byte(h + 4) = d[1] /\ Byte(h + 4 + 1) = d[2] /\ Byte(h + 4 + 2) = d[3]
         /\ Byte(h + 4 + 3) = d[4] /\ Byte(h + 4 + 4) = d[5] /\ Byte(h + 4 + 5) = d[6]
         /\ p.sof.components = 3 => Byte(h + 4 + 7) = d[8]
    <2> HIDE DEF h, d, p
    <2>1. h + 4 \in Nat /\ \A i \in 1 .. Len(d) : Byte((h + 4) - 1 + i) = d[i]
      BY <1>1, <1>4, <1>8, BytesOf
    <2>2. /\ (h + 4) - 1 + 1 = h + 4 /\ (h + 4) - 1 + 2 = h + 4 + 1 /\ (h + 4) - 1 + 3 = h + 4 + 2
          /\ (h + 4) - 1 + 4 = h + 4 + 3 /\ (h + 4) - 1 + 5 = h + 4 + 4 /\ (h + 4) - 1 + 6 = h + 4 + 5
          /\ (h + 4) - 1 + 8 = h + 4 + 7
      <3>1. h \in Nat
        BY <1>2
      <3> QED BY <3>1
    <2>3. /\ 1 \in 1 .. Len(d) /\ 2 \in 1 .. Len(d) /\ 3 \in 1 .. Len(d) /\ 4 \in 1 .. Len(d)
          /\ 5 \in 1 .. Len(d) /\ 6 \in 1 .. Len(d) /\ (p.sof.components = 3 => 8 \in 1 .. Len(d))
      <3>1. Len(d) \in Nat /\ Len(d) >= 9 /\ (p.sof.components = 3 => Len(d) = 15)
        BY <1>2, <1>4
      <3> QED BY <3>1
    <2>4. /\ Byte((h + 4) - 1 + 1) = d[1] /\ Byte((h + 4) - 1 + 2) = d[2] /\ Byte((h + 4) - 1 + 3) = d[3]
          /\ Byte((h + 4) - 1 + 4) = d[4] /\ Byte((h + 4) - 1 + 5) = d[5] /\ Byte((h + 4) - 1 + 6) = d[6]
          /\ (p.sof.components = 3 => Byte((h + 4) - 1 + 8) = d[8])
      BY <2>1, <2>3
    <2> QED BY <2>2, <2>4
  <1>11. GoodFrameHeader(h + 4, Len(d))
    <2> HIDE DEF h, d
    <2> QED BY <1>2, <1>3, <1>4, <1>10 DEF GoodFrameHeader
  <1>12. WithFrameHeader(h + 4, Len(d)) = RightInfo(p)
    <2> DEFINE b == h + 4
    <2> DEFINE type == IF Byte(b + 5) >= 3 /\ Len(d) >= 15
                         THEN IF Byte(b + 7) = 34 THEN 0 ELSE 1
                         ELSE info.type
    <2>1. 256 * Byte(b + 1) + Byte(b + 2) = p.sof.height /\ 256 * Byte(b + 3) + Byte(b + 4) = p.sof.width
      BY <1>4, <1>10
    <2>2. type = RightType(p)
      <3>1. info.type = 1
        BY DEF WithTables, NewInfo
      <3>2. CASE p.sof.components = 3
        <4>1. Byte(b + 5) >= 3 /\ Len(d) >= 15 /\ Byte(b + 7) = p.sof.sampling
          <5>1. Byte(b + 5) = 3 /\ Len(d) = 15 /\ Byte(b + 7) = p.sof.sampling
            BY <1>4, <1>10, <3>2
          <5> HIDE DEF b, d
          <5> QED BY <5>1
        <4>2. type = IF Byte(b + 7) = 34 THEN 0 ELSE 1
          BY <4>1
        <4> HIDE DEF type, b, d
        <4> QED BY <3>2, <4>1, <4>2 DEF RightType
      <3>3. CASE p.sof.components = 1
        <4>1. ~(Byte(b + 5) >= 3)
          BY <1>4, <1>10, <3>3
        <4>2. type = info.type
          BY <4>1
        <4> HIDE DEF type, b, d
        <4> QED BY <3>1, <3>3, <4>2 DEF RightType
      <3> HIDE DEF type
      <3> QED BY <1>4, <3>2, <3>3
    <2>3. WithFrameHeader(b, Len(d))
            = [info EXCEPT !.height = 256 * Byte(b + 1) + Byte(b + 2),
                           !.width = 256 * Byte(b + 3) + Byte(b + 4), !.type = type]
      BY DEF WithFrameHeader
    <2> HIDE DEF type, b
    <2>4. WithFrameHeader(b, Len(d))
            = [info EXCEPT !.height = p.sof.height, !.width = p.sof.width, !.type = RightType(p)]
      BY <2>1, <2>2, <2>3
    <2>5. WithFrameHeader(b, Len(d)) = RightInfo(p)
      <3> DEFINE T == TableValues(p)
                 R == RightType(p)
                 H == p.sof.height
                 W == p.sof.width
      <3>1. info = WithTables(T) /\ RightInfo(p) = [NewInfo EXCEPT !.tables = T, !.height = H, !.width = W, !.type = R]
        BY DEF RightInfo
      <3>2. WithFrameHeader(b, Len(d)) = [info EXCEPT !.height = H, !.width = W, !.type = R]
        BY <2>4
      <3> HIDE DEF T, R, H, W
      <3> QED BY <3>1, <3>2 DEF WithTables, NewInfo
    <2> QED BY <2>5 DEF b
  <1> HIDE DEF at, h, d
  <1>13. jpegPos' = at + SegmentLength(at) /\ jpegPhase' = jpegPhase
         /\ info' = WithFrameHeader(at + 2, SegmentLength(at) - 2)
    <2>1. ParseSegment(SOF0, at) /\ Fits(at)
      BY <1>8 DEF at
    <2>2. GoodFrameHeader(at + 2, SegmentLength(at) - 2)
      BY <1>9, <1>11
    <2> QED BY <2>1, <2>2, MarkersDiffer DEF ParseSegment
  <1> QED BY <1>1, <1>9, <1>12, <1>13, <1>21

(* What fills the gap before the frame header. *)
LEMMA GapStep ==
  ASSUME RtpTyped, Parse, picture \in Pictures, Baseline(picture), jpeg = Encoded(picture),
         jpegPos = AtFill(picture), picture.fill # <<>>
  PROVE  /\ jpegPhase' = "parse" /\ info' = info
         /\ jpegPos' = AtHeader(picture)
              \/ (picture.fill = <<0, Mark>> /\ jpegPos' = AtFill(picture) + 1)
  <1> DEFINE p == picture
             f == p.fill
             a == AtFill(p)
  <1>1. jpeg \in Seq(Octet) /\ jpegPos \in Nat /\ jpegPhase = "parse"
    BY DEF RtpTyped, RtpTypeOK, Parse
  <1>2. a \in Nat /\ a >= 3 /\ AtHeader(p) = a + Len(f) /\ AtHeader(p) + 3 <= Size /\ Size \in Nat
    BY <1>1, Positions
  <1>3. f \in {<<0, Mark>>, <<Mark, 1>>} /\ f \in Seq(Octet) /\ Encoded(p) = Whole(p)
    BY BaselineIs, PartsAreBytes
  <1>4. Len(f) = 2
    BY <1>3
  <1>5. Byte(a) = f[1] /\ Byte(a + 1) = f[2]
    <2> HIDE DEF f, a
    <2>1. Holds(jpeg, a, f)
      BY <1>3, Layout DEF f, a
    <2>2. \A i \in 1 .. Len(f) : Byte(a - 1 + i) = f[i]
      BY <1>1, <1>3, <2>1, BytesOf
    <2>3. 1 \in 1 .. Len(f) /\ 2 \in 1 .. Len(f) /\ a - 1 + 1 = a /\ a - 1 + 2 = a + 1
      BY <1>2, <1>4
    <2>4. Byte(a - 1 + 1) = f[1] /\ Byte(a - 1 + 2) = f[2]
      BY <2>2, <2>3
    <2> QED BY <2>3, <2>4
  <1>6. jpegPos = a /\ a + 3 <= Size /\ ~(jpegPos + 3 > Size) /\ AtHeader(p) = a + 2
    <2> HIDE DEF f, a
    <2>1. jpegPos = a
      BY DEF a
    <2>2. a \in Nat /\ AtHeader(p) = a + 2 /\ AtHeader(p) + 3 <= Size /\ Size \in Nat
      BY <1>2, <1>4
    <2> QED BY <2>1, <2>2
  <1> HIDE DEF a, f
  <1>7. CASE f = <<0, Mark>>
    <2>1. Byte(jpegPos) # Mark
      BY <1>5, <1>6, <1>7, MarkersDiffer
    <2>2. jpegPos' = jpegPos + 1 /\ info' = info /\ jpegPhase' = jpegPhase
      BY <1>6, <2>1 DEF Parse
    <2> QED BY <1>1, <1>6, <1>7, <2>2 DEF a, f
  <1>8. CASE f = <<Mark, 1>>
    <2>1. Byte(a) = Mark /\ Byte(a + 1) = 1
      BY <1>5, <1>8
    <2> DEFINE m == a + 1
    <2>2. m \in Nat /\ a \in Nat /\ a <= m /\ m <= Size /\ m - 1 = a /\ m + 1 = AtHeader(p)
      BY <1>2, <1>6
    <2>3. Byte(m) = 1 /\ Byte(m) # Mark /\ Byte(m) # EOI /\ Byte(m) \in Standalone
      BY <2>1, MarkersDiffer
    <2> HIDE DEF m
    <2>4. \A i \in a .. m - 1 : Byte(i) = Mark
      <3>1. ASSUME NEW i \in a .. m - 1 PROVE i = a
        BY <2>2
      <3> QED BY <2>1, <3>1
    <2>5. First({i \in a .. Size : Byte(i) # Mark}) = m
      BY <1>1, <2>2, <2>3, <2>4, FirstAt
    <2> DEFINE at == First({i \in jpegPos .. Size : Byte(i) # Mark})
    <2>6. at = m
      BY <1>6, <2>5
    <2> HIDE DEF at
    <2>7. Byte(jpegPos) = Mark /\ ~(at > Size) /\ Byte(at) # EOI /\ Byte(at) \in Standalone /\ at <= Size
      BY <1>2, <1>6, <2>1, <2>2, <2>3, <2>6
    <2>8. jpegPos' = at + 1 /\ info' = info /\ jpegPhase' = jpegPhase
      BY <1>6, <2>7 DEF Parse, at
    <2> QED BY <1>1, <2>2, <2>6, <2>8
  <1> QED BY <1>3, <1>7, <1>8 DEF f

(* No end marker stands in the scan: it goes up to the ending. *)
LEMMA ScanEndsThere ==
  ASSUME jpeg \in Seq(Octet), NEW p \in Pictures, Baseline(p), jpeg = Encoded(p)
  PROVE  ScanEnd(AtScan(p)) = AtEnding(p) - 1
  <1> DEFINE a == AtScan(p)
             e == AtEnding(p)
             d == p.scan
             t == Ending(p)
             S == {i \in a .. Size - 1 : Byte(i) = Mark /\ Byte(i + 1) = EOI}
  <1>1. /\ a \in Nat /\ e \in Nat /\ e = a + Len(d) /\ Len(d) \in Nat /\ Len(d) >= 1
        /\ Size = e - 1 + Len(t) /\ Size \in Nat
    BY Positions
  <1>2. Encoded(p) = Whole(p) /\ d \in Scans /\ p.ended \in BOOLEAN
    BY BaselineIs
  <1>3. d \in Seq(Octet) /\ t \in Seq(Octet) /\ Holds(jpeg, a, d) /\ Holds(jpeg, e, t)
    BY <1>2, PartsAreBytes, Layout
  <1>4. \A i \in 1 .. Len(d) - 1 : d[i] = Mark => d[i + 1] # EOI
    BY <1>2, RtpAssumption
  <1>5. \/ p.ended /\ Len(t) = 2 /\ t[1] = Mark /\ t[2] = EOI
        \/ ~p.ended /\ Len(t) = 0
    BY <1>2 DEF Ending
  <1> HIDE DEF a, e, d, t
  <1>6. a >= 1 /\ \A i \in 1 .. Len(d) : Byte(a - 1 + i) = d[i]
    BY <1>3, BytesOf
  <1>7. \A i \in 1 .. Len(t) : Byte(e - 1 + i) = t[i]
    BY <1>3, BytesOf
  <1>8. Len(t) = 2 => Byte(e) = Mark /\ Byte(e + 1) = EOI
    <2>1. CASE Len(t) = 2
      <3>1. 1 \in 1 .. Len(t) /\ 2 \in 1 .. Len(t) /\ e - 1 + 1 = e /\ e - 1 + 2 = e + 1
        BY <1>1, <2>1
      <3>2. Byte(e - 1 + 1) = t[1] /\ Byte(e - 1 + 2) = t[2]
        BY <1>7, <3>1
      <3> QED BY <1>5, <2>1, <3>1, <3>2
    <2> QED BY <2>1
  <1>9. ASSUME NEW i \in S, i < e PROVE FALSE
    <2>1. i \in Nat /\ i >= a /\ i <= Size - 1 /\ Byte(i) = Mark /\ Byte(i + 1) = EOI
      BY <1>1
    <2> HIDE DEF S
    <2>2. CASE i < e - 1
      <3> DEFINE j == i - a + 1
      <3>1. j \in 1 .. Len(d) - 1 /\ j \in 1 .. Len(d) /\ j + 1 \in 1 .. Len(d)
            /\ a - 1 + j = i /\ a - 1 + (j + 1) = i + 1
        BY <1>1, <2>1, <2>2
      <3> HIDE DEF j
      <3>2. Byte(i) = d[j] /\ Byte(i + 1) = d[j + 1]
        BY <1>6, <3>1
      <3> QED BY <1>4, <2>1, <3>1, <3>2
    <2>3. CASE ~(i < e - 1)
      <3>1. i + 1 = e /\ Len(t) >= 1
        BY <1>1, <1>9, <2>1, <2>3
      <3>2. Len(t) = 2
        BY <1>5, <3>1
      <3>3. Byte(e) = Mark
        BY <1>8, <3>2
      <3> QED BY <2>1, <3>1, <3>3, MarkersDiffer
    <2> QED BY <2>2, <2>3
  <1>10. S \subseteq Nat
    BY <1>1
  <1>11. First(S) \in S \cup {Size + 1} /\ First(S) \in Nat /\ First(S) <= Size + 1
         /\ \A x \in S : First(S) <= x
    BY <1>1, <1>10, FirstIs
  <1>12. First(S) = e
    <2>1. CASE Len(t) = 2
      <3>1. e \in S
        BY <1>1, <1>8, <2>1
      <3> HIDE DEF S
      <3>2. First(S) <= e /\ e <= Size
        BY <1>1, <1>11, <2>1, <3>1
      <3>3. First(S) \in S
        BY <1>1, <1>11, <3>2
      <3>4. ~(First(S) < e)
        BY <1>9, <3>3
      <3> QED BY <1>1, <1>11, <3>2, <3>4
    <2>2. CASE Len(t) = 0
      <3>1. Size = e - 1
        BY <1>1, <2>2
      <3>2. \A i \in S : i < e
        BY <1>1, <3>1
      <3>3. S = {}
        BY <1>9, <3>2
      <3> HIDE DEF S
      <3> QED BY <1>1, <1>11, <3>1, <3>3
    <2> QED BY <1>5, <2>1, <2>2
  <1> QED BY <1>12 DEF ScanEnd, EndMarkers, a, e

LEMMA ScanStep ==
  ASSUME RtpTyped, Parse, picture \in Pictures, Baseline(picture), jpeg = Encoded(picture),
         jpegPos = AtScanHeader(picture), info = RightInfo(picture)
  PROVE  /\ jpegPhase' = "send"
         /\ info' = [RightInfo(picture) EXCEPT !.scan = <<AtScan(picture), AtEnding(picture) - 1>>]
  <1> DEFINE p == picture
             h == AtScanHeader(p)
             data == <<0>>
             at == h + 2
  <1>1. jpeg \in Seq(Octet) /\ jpegPos \in Nat /\ jpegPhase = "parse"
    BY DEF RtpTyped, RtpTypeOK, Parse
  <1>2. h \in Nat /\ AtScan(p) = h + 5 /\ h + 3 <= Size /\ Size \in Nat
    BY <1>1, Positions
  <1>3. /\ AtEnding(p) = AtScan(p) + Len(p.scan) /\ Len(p.scan) \in Nat /\ Len(p.scan) >= 1
        /\ Size = AtEnding(p) - 1 + Len(Ending(p)) /\ Len(Ending(p)) \in Nat
    BY <1>1, Positions
  <1>4. Encoded(p) = Whole(p) /\ p.sof.height > 0 /\ p.sof.width > 0
    BY BaselineIs
  <1>5. data \in Seq(Octet) /\ Len(data) = 1 /\ Len(data) \in Lengths
    <2>1. 0 \in Octet /\ 1 \in Lengths
      BY DEF Octet, Lengths
    <2> QED BY <2>1
  <1>6. ScanHeader = Segment(SOS, data)
    BY DEF ScanHeader
  <1> HIDE DEF data, h
  <1>7. Holds(jpeg, h, Segment(SOS, data))
    BY <1>4, <1>6, Layout DEF h
  <1>8. \A i \in h .. h : Byte(i) = Mark
    <2>1. SOS \in Octet
      BY MarkersDiffer
    <2>2. Byte(h) = Mark
      BY <1>1, <1>5, <1>7, <2>1, FirstByte, Zenon
    <2> QED BY <1>2, <2>2
  <1>9. ParseSegment(SOS, h + 2) /\ Fits(h + 2) /\ SegmentLength(h + 2) = Len(data) + 2
    <2>1. jpegPos = h /\ jpegPos <= h /\ jpegPos + 3 <= Size
      BY <1>1, <1>2 DEF h
    <2>2. \A i \in jpegPos .. h : Byte(i) = Mark
      BY <1>8, <2>1
    <2> QED BY <1>5, <1>7, <2>1, <2>2, MarkersDiffer, TakesSegment
  <1>10. at + SegmentLength(at) = AtScan(p)
    BY <1>2, <1>5, <1>9
  <1> DEFINE scan == <<AtScan(p), AtEnding(p) - 1>>
  <1>11. ParseEnds(scan)
    <2>1. ScanEnd(AtScan(p)) = AtEnding(p) - 1
      BY <1>1, ScanEndsThere
    <2> HIDE DEF at, p
    <2>2. ParseSegment(SOS, at) /\ Fits(at)
      BY <1>9 DEF at
    <2>3. ParseEnds(<<at + SegmentLength(at), ScanEnd(at + SegmentLength(at))>>)
      BY <2>2, MarkersDiffer DEF ParseSegment
    <2> QED BY <1>10, <2>1, <2>3
  <1>12. GoodScan(scan)
    <2>1. scan[1] = AtScan(p) /\ scan[2] = AtEnding(p) - 1
      OBVIOUS
    <2>2. info.width = p.sof.width /\ info.height = p.sof.height
      BY DEF RightInfo, NewInfo
    <2>3. AtScan(p) > 0 /\ AtScan(p) <= Size /\ AtEnding(p) - 1 >= AtScan(p)
      <3>1. AtScan(p) \in Nat /\ AtScan(p) >= 5
        BY <1>2
      <3> HIDE DEF p
      <3> QED BY <1>3, <3>1
    <2> HIDE DEF scan, p
    <2> QED BY <1>4, <2>1, <2>2, <2>3 DEF GoodScan
  <1> HIDE DEF scan
  <1>13. info' = [info EXCEPT !.scan = scan] /\ jpegPhase' = "send"
    BY <1>11, <1>12 DEF ParseEnds
  <1> QED BY <1>13 DEF scan

LEMMA TablesGrow ==
  ASSUME NEW r, NEW before, NEW after, r = WithTables(before)
  PROVE  r.tables = before /\ [r EXCEPT !.tables = after] = WithTables(after)
  <1>1. \A b : WithTables(b) = [width |-> 800, height |-> 600, type |-> 1, tables |-> b, scan |-> <<0, 0>>]
    BY DEF WithTables, NewInfo
  <1> DEFINE none == <<0, 0>>
  <1> HIDE DEF none
  <1>2. r = [width |-> 800, height |-> 600, type |-> 1, tables |-> before, scan |-> none]
    BY <1>1 DEF none
  <1>3. WithTables(after) = [width |-> 800, height |-> 600, type |-> 1, tables |-> after, scan |-> none]
    BY <1>1 DEF none
  <1> QED BY <1>2, <1>3

(* The tables of a picture are read one segment after the other. *)
LEMMA OneSegment ==
  ASSUME RtpTyped, Parse, jpegPos + 3 <= Size, NEW data \in Seq(Octet), Len(data) \in Lengths,
         Holds(jpeg, jpegPos, Segment(DQT, data)), NEW before \in Seq(Octet), info = WithTables(before),
         NEW bytes, GoodTables(jpegPos + 4, Len(data)), TableBytes(jpegPos + 4, Len(data)) = bytes
  PROVE  /\ jpegPhase' = "parse" /\ jpegPos' = jpegPos + Len(Segment(DQT, data))
         /\ info' = WithTables(before \o bytes)
  <1>1. /\ jpegPhase' = "parse" /\ jpegPos' = jpegPos + 4 + Len(data)
        /\ info' = [info EXCEPT !.tables = @ \o bytes]
    BY TableStep
  <1>2. jpegPos + Len(Segment(DQT, data)) = jpegPos + 4 + Len(data)
    <2>1. Len(Segment(DQT, data)) = Len(data) + 4
      BY MarkersDiffer, SegmentIs
    <2>2. jpegPos \in Nat /\ Len(data) \in Nat
      BY DEF RtpTyped, RtpTypeOK
    <2> QED BY <2>1, <2>2
  <1>3. info' = WithTables(before \o bytes)
    <2>1. info.tables = before
      BY TablesGrow
    <2>2. info' = [info EXCEPT !.tables = before \o bytes]
      BY <1>1, <2>1
    <2> QED BY <2>2, TablesGrow
  <1> QED BY <1>1, <1>2, <1>3

(* The first segment of tables, and the second one. *)
LEMMA FirstTables ==
  ASSUME RtpTyped, Parse, picture \in Pictures, Baseline(picture), jpeg = Encoded(picture),
         jpegPos = 3, info = NewInfo, picture.joined \/ picture.tables # <<>>
  PROVE  /\ jpegPhase' = "parse"
         /\ \/ TwoSegments(picture) /\ jpegPos' = TableSize + 8 /\ info' = WithTables(Values(7))
            \/ jpegPos' = AtFill(picture) /\ info' = WithTables(TableValues(picture))
  <1> DEFINE p == picture
             q == Quantisation(p)
             n == TableSize + 1
  <1>1. jpeg \in Seq(Octet)
    BY DEF RtpTyped, RtpTypeOK
  <1>2. jpegPos + 3 <= Size
    <2>1. Size >= 16 /\ Size \in Nat
      BY <1>1, Positions
    <2> QED BY <2>1
  <1>3. /\ Encoded(p) = Whole(p) /\ p.tables \in {<<>>, << <<0, 7>> >>, << <<0, 7>>, <<0, 255>> >>}
        /\ p.joined \in BOOLEAN
    BY BaselineIs
  <1>4. q \in Seq(Octet) /\ Holds(jpeg, 3, q)
    BY <1>3, PartsAreBytes, Layout
  <1>5. AtFill(p) = 3 + Len(q)
    BY DEF AtFill
  <1>6. /\ 7 \in Octet /\ 255 \in Octet /\ <<>> \in Seq(Octet) /\ Len(<<>>) = 0 /\ info = WithTables(<<>>)
        /\ 0 \in Lengths /\ n \in Lengths /\ n + n \in Lengths /\ jpegPos + 4 = 7 /\ 0 \in 0 .. 1
    BY TableLengths DEF Octet, WithTables, NewInfo
  <1>7. ASSUME NEW v \in Octet
        PROVE  /\ Table(0, v) \in Seq(Octet) /\ Len(Table(0, v)) = n /\ Values(v) \in Seq(Octet)
               /\ Segment(DQT, Table(0, v)) \in Seq(Octet) /\ Len(Segment(DQT, Table(0, v))) = n + 4
               /\ Holds(Segment(DQT, Table(0, v)), 5, Table(0, v))
    <2>1. Table(0, v) \in Seq(Octet) /\ Len(Table(0, v)) = n /\ Values(v) \in Seq(Octet)
      BY <1>6, TableIs, Zenon
    <2>2. Len(Table(0, v)) \in Lengths /\ DQT \in Octet
      BY <1>6, <2>1, MarkersDiffer
    <2>3. /\ Segment(DQT, Table(0, v)) \in Seq(Octet) /\ Len(Segment(DQT, Table(0, v))) = Len(Table(0, v)) + 4
          /\ Holds(Segment(DQT, Table(0, v)), 5, Table(0, v))
      BY <2>1, <2>2, SegmentIs, ZenonT(30)
    <2> HIDE DEF n
    <2> QED BY <2>1, <2>3
  <1> HIDE DEF n
  (* A segment whose tables are the given ones. *)
  <1>8. ASSUME NEW data \in Seq(Octet), Len(data) \in Lengths, NEW bytes \in Seq(Octet),
               Holds(jpeg, 3, Segment(DQT, data)),
               GoodTables(7, Len(data)), TableBytes(7, Len(data)) = bytes
        PROVE  /\ jpegPhase' = "parse" /\ jpegPos' = 3 + Len(Segment(DQT, data))
               /\ info' = WithTables(bytes)
    <2>1. /\ Holds(jpeg, jpegPos, Segment(DQT, data)) /\ GoodTables(jpegPos + 4, Len(data))
          /\ TableBytes(jpegPos + 4, Len(data)) = bytes
      BY <1>6, <1>8
    <2>2. /\ jpegPhase' = "parse" /\ jpegPos' = jpegPos + Len(Segment(DQT, data))
          /\ info' = WithTables(<<>> \o bytes)
      BY <1>2, <1>6, <1>8, <2>1, OneSegment, Zenon
    <2>3. <<>> \o bytes = bytes
      BY ConcatEmptySeq
    <2> QED BY <2>2, <2>3
  (* Where the segment is, its tables are. *)
  <1>9. ASSUME NEW data \in Seq(Octet), Len(data) \in Lengths, Holds(jpeg, 3, Segment(DQT, data))
        PROVE  Holds(jpeg, 7, data)
    <2> DEFINE s == Segment(DQT, data)
    <2>1. s \in Seq(Octet) /\ Holds(s, 5, data) /\ DQT \in Octet
      <3>1. DQT \in Octet
        BY MarkersDiffer
      <3> QED BY <1>9, <3>1, SegmentIs, Zenon
    <2> HIDE DEF s
    <2>2. Len(jpeg) \in Nat /\ Len(s) \in Nat /\ Len(data) \in Nat /\ Holds(jpeg, 3, s)
      BY <1>1, <1>9, <2>1 DEF s
    <2>3. Holds(jpeg, 3 + 5 - 1, data)
      BY <2>1, <2>2, HoldsWithin, Zenon
    <2>4. 3 + 5 - 1 = 7
      OBVIOUS
    <2> QED BY <2>3, <2>4
  <1>10. CASE p.tables = <<>>
    <2>1. q = Segment(DQT, <<>>) /\ TableValues(p) = <<>>
      BY <1>10, QuantisationNone DEF TableValues
    <2>2. GoodTables(7, 0) /\ TableBytes(7, 0) = <<>>
      BY NoTable
    <2> HIDE DEF q
    <2>3. Holds(jpeg, 3, Segment(DQT, <<>>))
      BY <1>4, <2>1
    <2> DEFINE none == <<>>
    <2>4. none \in Seq(Octet) /\ Len(none) = 0 /\ Len(none) \in Lengths
      BY <1>6
    <2>5. /\ Holds(jpeg, 3, Segment(DQT, none)) /\ GoodTables(7, Len(none)) /\ TableBytes(7, Len(none)) = none
      BY <2>2, <2>3, <2>4
    <2> HIDE DEF none
    <2>6. jpegPhase' = "parse" /\ jpegPos' = 3 + Len(Segment(DQT, none)) /\ info' = WithTables(none)
      BY <1>8, <2>4, <2>5
    <2> QED BY <1>5, <2>1, <2>6 DEF none
  <1>11. CASE p.tables = << <<0, 7>> >>
    <2> DEFINE t == Table(0, 7)
    <2>1. q = Segment(DQT, t) /\ TableValues(p) = Values(7)
      <3>1. ASSUME NEW v \in Octet, p.tables = << <<0, v>> >>
            PROVE  q = Segment(DQT, Table(0, v)) /\ TableValues(p) = Values(v)
        BY <1>6, <3>1, QuantisationOne, ZenonT(30) DEF TableValues
      <3> QED BY <1>6, <1>11, <3>1
    <2>2. t \in Seq(Octet) /\ Len(t) = n /\ Len(t) \in Lengths /\ Values(7) \in Seq(Octet)
      BY <1>6, <1>7
    <2> HIDE DEF t, q
    <2>3. Holds(jpeg, 3, Segment(DQT, t))
      BY <1>4, <2>1
    <2>4. Holds(jpeg, 7, t)
      BY <1>9, <2>2, <2>3
    <2>5. GoodTables(7, n) /\ TableBytes(7, n) = Values(7)
      <3>1. 7 \in Nat
        OBVIOUS
      <3> QED BY <1>1, <1>6, <2>4, <3>1, OneTable DEF n, t
    <2>6. jpegPhase' = "parse" /\ jpegPos' = 3 + Len(Segment(DQT, t)) /\ info' = WithTables(Values(7))
      BY <1>8, <2>2, <2>3, <2>5
    <2> QED BY <1>5, <2>1, <2>6
  <1>12. CASE p.tables = << <<0, 7>>, <<0, 255>> >>
    <2> DEFINE t == Table(0, 7)
               u == Table(0, 255)
    <2>1. /\ q = IF p.joined THEN Segment(DQT, t \o u) ELSE Segment(DQT, t) \o Segment(DQT, u)
          /\ TableValues(p) = Values(7) \o Values(255)
      <3>1. ASSUME NEW v \in Octet, NEW w \in Octet, p.tables = << <<0, v>>, <<0, w>> >>
            PROVE  /\ q = IF p.joined THEN Segment(DQT, Table(0, v) \o Table(0, w))
                                      ELSE Segment(DQT, Table(0, v)) \o Segment(DQT, Table(0, w))
                   /\ TableValues(p) = Values(v) \o Values(w)
        BY <3>1, QuantisationTwo, Zenon DEF TableValues
      <3> QED BY <1>6, <1>12, <3>1
    <2>2. /\ t \in Seq(Octet) /\ Len(t) = n /\ Values(7) \in Seq(Octet) /\ Len(t) \in Lengths
          /\ u \in Seq(Octet) /\ Len(u) = n /\ Values(255) \in Seq(Octet)
          /\ Segment(DQT, t) \in Seq(Octet) /\ Len(Segment(DQT, t)) = n + 4
          /\ Segment(DQT, u) \in Seq(Octet)
      BY <1>6, <1>7
    <2>3. CASE p.joined
      <3>1. /\ t \o u \in Seq(Octet) /\ Len(t \o u) = n + n /\ Values(7) \o Values(255) \in Seq(Octet)
        <4> HIDE DEF t, u
        <4>1. t \o u \in Seq(Octet) /\ Len(t \o u) = Len(t) + Len(u)
          BY <2>2, ConcatBytes, Zenon
        <4>2. Values(7) \o Values(255) \in Seq(Octet)
          BY <2>2, ConcatBytes, ZenonT(30)
        <4> QED BY <2>2, <4>1, <4>2
      <3>2. q = Segment(DQT, t \o u)
        BY <2>1, <2>3
      <3> HIDE DEF q
      <3>3. Holds(jpeg, 3, Segment(DQT, t \o u))
        BY <1>4, <3>2
      <3>4. Holds(jpeg, 7, t \o u)
        BY <1>6, <1>9, <3>1, <3>3
      <3>5. GoodTables(7, n + n) /\ TableBytes(7, n + n) = Values(7) \o Values(255)
        <4>1. 7 \in Nat
          OBVIOUS
        <4> QED BY <1>1, <1>6, <3>4, <4>1, TwoTables DEF n
      <3>6. /\ jpegPhase' = "parse" /\ jpegPos' = 3 + Len(Segment(DQT, t \o u))
            /\ info' = WithTables(Values(7) \o Values(255))
        <4> DEFINE data == t \o u
                   bytes == Values(7) \o Values(255)
        <4>1. /\ data \in Seq(Octet) /\ Len(data) \in Lengths /\ bytes \in Seq(Octet)
              /\ Holds(jpeg, 3, Segment(DQT, data)) /\ GoodTables(7, Len(data)) /\ TableBytes(7, Len(data)) = bytes
          BY <1>6, <3>1, <3>3, <3>5
        <4> HIDE DEF data, bytes
        <4>2. jpegPhase' = "parse" /\ jpegPos' = 3 + Len(Segment(DQT, data)) /\ info' = WithTables(bytes)
          BY <1>8, <4>1
        <4> QED BY <4>2 DEF data, bytes
      <3> QED BY <1>5, <2>1, <3>2, <3>6
    <2>4. CASE ~p.joined
      <3>1. q = Segment(DQT, t) \o Segment(DQT, u)
        BY <2>1, <2>4
      <3> HIDE DEF q, t, u
      <3>2. Holds(jpeg, 3, Segment(DQT, t))
        <4> DEFINE a == Segment(DQT, t)
                   b == Segment(DQT, u)
        <4>1. a \in Seq(Octet) /\ b \in Seq(Octet) /\ Holds(jpeg, 3, a \o b) /\ 3 \in Nat
          BY <1>4, <2>2, <3>1
        <4> HIDE DEF a, b
        <4>2. Holds(jpeg, 3, a)
          BY <1>1, <4>1, HoldsBoth
        <4> QED BY <4>2 DEF a
      <3>3. Holds(jpeg, 7, t)
        BY <1>9, <2>2, <3>2
      <3>4. GoodTables(7, n) /\ TableBytes(7, n) = Values(7)
        <4>1. 7 \in Nat
          OBVIOUS
        <4> QED BY <1>1, <1>6, <3>3, <4>1, OneTable DEF n, t
      <3>5. jpegPhase' = "parse" /\ jpegPos' = 3 + Len(Segment(DQT, t)) /\ info' = WithTables(Values(7))
        BY <1>8, <2>2, <3>2, <3>4
      <3>6. 3 + (n + 4) = TableSize + 8
        BY TableLengths DEF n
      <3> QED BY <1>12, <2>2, <2>4, <3>5, <3>6 DEF TwoSegments
    <2> QED BY <1>3, <2>3, <2>4
  <1> QED BY <1>3, <1>10, <1>11, <1>12

LEMMA SecondTables ==
  ASSUME RtpTyped, Parse, picture \in Pictures, Baseline(picture), jpeg = Encoded(picture),
         TwoSegments(picture), jpegPos = TableSize + 8, info = WithTables(Values(7))
  PROVE  jpegPhase' = "parse" /\ jpegPos' = AtFill(picture) /\ info' = WithTables(TableValues(picture))
  <1> DEFINE p == picture
             q == Quantisation(p)
             n == TableSize + 1
             t == Table(0, 7)
             u == Table(0, 255)
             first == Segment(DQT, t)
             second == Segment(DQT, u)
  <1>1. jpeg \in Seq(Octet) /\ jpegPos \in Nat
    BY DEF RtpTyped, RtpTypeOK
  <1>2. Encoded(p) = Whole(p)
    BY BaselineIs
  <1>3. q \in Seq(Octet) /\ Holds(jpeg, 3, q)
    BY <1>2, PartsAreBytes, Layout
  <1>4. 7 \in Octet /\ 255 \in Octet /\ n \in Lengths /\ 0 \in 0 .. 1 /\ TableSize \in Nat /\ DQT \in Octet
    BY TableLengths, MarkersDiffer DEF Octet
  <1>5. q = first \o second /\ TableValues(p) = Values(7) \o Values(255)
    <2>1. ASSUME NEW v \in Octet, NEW w \in Octet, p.tables = << <<0, v>>, <<0, w>> >>
          PROVE  /\ q = IF p.joined THEN Segment(DQT, Table(0, v) \o Table(0, w))
                                    ELSE Segment(DQT, Table(0, v)) \o Segment(DQT, Table(0, w))
                 /\ TableValues(p) = Values(v) \o Values(w)
      BY <2>1, QuantisationTwo, Zenon DEF TableValues
    <2>2. p.tables = << <<0, 7>>, <<0, 255>> >> /\ ~p.joined
      BY DEF TwoSegments
    <2> QED BY <1>4, <2>1, <2>2
  <1>6. ASSUME NEW v \in Octet
        PROVE  /\ Table(0, v) \in Seq(Octet) /\ Len(Table(0, v)) = n /\ Values(v) \in Seq(Octet)
               /\ Segment(DQT, Table(0, v)) \in Seq(Octet) /\ Len(Segment(DQT, Table(0, v))) = n + 4
    <2>1. Table(0, v) \in Seq(Octet) /\ Len(Table(0, v)) = n /\ Values(v) \in Seq(Octet)
      BY <1>4, TableIs, Zenon
    <2>2. Len(Table(0, v)) \in Lengths
      BY <1>4, <2>1
    <2>3. Segment(DQT, Table(0, v)) \in Seq(Octet) /\ Len(Segment(DQT, Table(0, v))) = Len(Table(0, v)) + 4
      BY <1>4, <2>1, <2>2, SegmentIs, ZenonT(30)
    <2> HIDE DEF n
    <2> QED BY <2>1, <2>3
  <1>7. /\ first \in Seq(Octet) /\ second \in Seq(Octet) /\ Len(first) = n + 4 /\ Len(second) = n + 4
        /\ u \in Seq(Octet) /\ Len(u) = n /\ Values(7) \in Seq(Octet) /\ Values(255) \in Seq(Octet)
    BY <1>4, <1>6
  <1>8. 3 + (n + 4) = jpegPos /\ n \in Nat
    BY <1>4
  <1>9. AtFill(p) = 3 + Len(q) /\ AtFill(p) <= AtHeader(p) /\ AtHeader(p) + 3 <= Size /\ Size \in Nat
        /\ AtFill(p) \in Nat /\ AtHeader(p) \in Nat
    BY <1>1, Positions
  <1> HIDE DEF q, t, u, first, second, n
  <1>10. Len(q) = Len(first) + Len(second)
    <2>1. Len(first \o second) = Len(first) + Len(second)
      BY <1>7, ConcatBytes, Zenon
    <2> QED BY <1>5, <2>1
  <1>11. AtFill(p) = jpegPos + Len(second) /\ jpegPos + 3 <= Size
    <2>1. AtFill(p) = 3 + ((n + 4) + (n + 4)) /\ Len(second) = n + 4
      BY <1>7, <1>9, <1>10
    <2>2. AtFill(p) = jpegPos + Len(second)
      BY <1>8, <2>1
    <2>3. jpegPos <= AtFill(p)
      BY <1>1, <1>8, <2>1
    <2>4. AtFill(p) <= AtHeader(p) /\ AtHeader(p) + 3 <= Size /\ AtFill(p) \in Nat /\ AtHeader(p) \in Nat
          /\ Size \in Nat /\ jpegPos \in Nat
      BY <1>1, <1>9
    <2> HIDE DEF p
    <2>5. jpegPos + 3 <= Size
      BY <2>3, <2>4
    <2> QED BY <2>2, <2>5
  <1>12. Holds(jpeg, jpegPos, second)
    <2>1. 3 \in Nat /\ Holds(jpeg, 3, first \o second)
      BY <1>3, <1>5
    <2>2. Holds(jpeg, 3 + Len(first), second)
      BY <1>1, <1>7, <2>1, HoldsBoth
    <2> QED BY <1>7, <1>8, <2>2
  <1>13. Holds(jpeg, jpegPos + 4, u)
    <2>1. Holds(second, 5, u)
      <3>1. Len(u) \in Lengths
        BY <1>4, <1>7
      <3> QED BY <1>4, <1>7, <3>1, SegmentIs, Zenon DEF second
    <2>2. Len(jpeg) \in Nat /\ Len(second) \in Nat /\ Len(u) \in Nat
      BY <1>1, <1>7
    <2>3. Holds(jpeg, jpegPos + 5 - 1, u)
      BY <1>12, <2>1, <2>2, HoldsWithin, Zenon
    <2>4. jpegPos + 5 - 1 = jpegPos + 4
      BY <1>1
    <2> QED BY <2>3, <2>4
  <1>14. GoodTables(jpegPos + 4, n) /\ TableBytes(jpegPos + 4, n) = Values(255)
    <2> DEFINE at == jpegPos + 4
    <2>1. at \in Nat
      BY <1>1
    <2> HIDE DEF at
    <2>2. Holds(jpeg, at, Table(0, 255))
      BY <1>13 DEF at, u
    <2>3. GoodTables(at, n) /\ TableBytes(at, n) = Values(255)
      BY <1>1, <1>4, <2>1, <2>2, OneTable DEF n
    <2> QED BY <2>3 DEF at
  <1>15. /\ jpegPhase' = "parse" /\ jpegPos' = jpegPos + Len(second)
         /\ info' = WithTables(Values(7) \o Values(255))
    <2>1. GoodTables(jpegPos + 4, Len(u)) /\ TableBytes(jpegPos + 4, Len(u)) = Values(255)
          /\ Len(u) \in Lengths /\ Holds(jpeg, jpegPos, Segment(DQT, u))
      BY <1>4, <1>7, <1>12, <1>14 DEF second
    <2>2. /\ jpegPhase' = "parse" /\ jpegPos' = jpegPos + Len(Segment(DQT, u))
          /\ info' = WithTables(Values(7) \o Values(255))
      BY <1>7, <1>11, <2>1, OneSegment, SMTT(30)
    <2> QED BY <2>2 DEF second
  <1> QED BY <1>5, <1>11, <1>15

LEMMA NewFrameUnderstood ==
  ASSUME RtpTyped, NEW p \in Pictures, NEW seq \in {0, SeqModulus - 1}, NewFrame(p, seq)
  PROVE  Understood'
  <1>1. /\ jpegPhase = "idle" /\ picture' = p /\ jpeg' = Encoded(p) /\ jpegPos' = 3 /\ info' = info
        /\ jpegPhase' = IF Len(Encoded(p)) < 16 THEN "rejected" ELSE "parse"
    BY DEF NewFrame
  <1>2. info' = NewInfo
    BY <1>1 DEF RtpTyped
  <1>3. Baseline(p) => jpegPhase' = "parse"
    <2> SUFFICES ASSUME Baseline(p) PROVE ~(Len(Encoded(p)) < 16)
      BY <1>1
    <2> DEFINE size == Len(Encoded(p))
    <2>1. size >= 16 /\ size \in Nat
      BY Sizes
    <2> HIDE DEF size
    <2>2. ~(size < 16)
      BY <2>1
    <2> QED BY <2>2 DEF size
  <1> QED BY <1>1, <1>2, <1>3 DEF Understood

LEMMA ParseUnderstood ==
  ASSUME RtpTyped, Understood, Parse
  PROVE  Understood'
  <1> DEFINE p == picture
  <1>1. jpegPhase = "parse" /\ picture' = picture /\ picture \in Pictures /\ jpeg = Encoded(picture)
        /\ jpeg \in Seq(Octet)
    BY DEF Parse, RtpTyped, RtpTypeOK
  <1> SUFFICES ASSUME Baseline(p)
               PROVE  \/ /\ jpegPhase' = "parse"
                         /\ \/ /\ TwoSegments(p) /\ jpegPos' = TableSize + 8
                               /\ info' = WithTables(Values(7))
                            \/ InGap(p)' /\ info' = WithTables(TableValues(p))
                            \/ jpegPos' = AtScanHeader(p) /\ info' = RightInfo(p)
                      \/ /\ jpegPhase' = "send"
                         /\ info' = [RightInfo(p) EXCEPT !.scan = <<AtScan(p), AtEnding(p) - 1>>]
    BY <1>1 DEF Understood
  <1>2. ASSUME jpegPos = AtHeader(p) \/ (p.fill = <<0, Mark>> /\ jpegPos = AtFill(p) + 1),
               info = WithTables(TableValues(p))
        PROVE  jpegPhase' = "parse" /\ jpegPos' = AtScanHeader(p) /\ info' = RightInfo(p)
    BY <1>1, <1>2, HeaderStep
  <1>3. ASSUME jpegPos = AtFill(p), info = WithTables(TableValues(p))
        PROVE  /\ jpegPhase' = "parse"
               /\ \/ InGap(p)' /\ info' = WithTables(TableValues(p))
                  \/ jpegPos' = AtScanHeader(p) /\ info' = RightInfo(p)
    <2>1. CASE p.fill = <<>>
      <3>1. AtHeader(p) = AtFill(p)
        <4>1. AtFill(p) \in Nat /\ Len(p.fill) = 0
          BY <1>1, <2>1, Positions
        <4> QED BY <4>1 DEF AtHeader
      <3> QED BY <1>2, <1>3, <3>1
    <2>2. CASE p.fill # <<>>
      <3>1. /\ jpegPhase' = "parse" /\ info' = info
            /\ jpegPos' = AtHeader(p) \/ (p.fill = <<0, Mark>> /\ jpegPos' = AtFill(p) + 1)
        BY <1>1, <1>3, <2>2, GapStep
      <3>2. InGap(p)'
        BY <1>1, <3>1 DEF InGap
      <3> QED BY <1>3, <3>1, <3>2
    <2> QED BY <2>1, <2>2
  <1>4. CASE jpegPos = 3 /\ info = NewInfo
    <2>1. CASE p.joined \/ p.tables # <<>>
      <3>1. /\ jpegPhase' = "parse"
            /\ \/ TwoSegments(p) /\ jpegPos' = TableSize + 8 /\ info' = WithTables(Values(7))
               \/ jpegPos' = AtFill(p) /\ info' = WithTables(TableValues(p))
        BY <1>1, <1>4, <2>1, FirstTables
      <3> QED BY <1>1, <3>1 DEF InGap
    <2>2. CASE ~(p.joined \/ p.tables # <<>>)
      <3>1. Quantisation(p) = <<>> /\ TableValues(p) = <<>>
        BY <2>2, QuantisationNone DEF TableValues
      <3>2. AtFill(p) = 3
        <4>1. Len(Quantisation(p)) = 0
          BY <3>1
        <4> QED BY <4>1 DEF AtFill
      <3>3. info = WithTables(<<>>)
        BY <1>4 DEF WithTables, NewInfo
      <3> QED BY <1>3, <1>4, <3>1, <3>2, <3>3
    <2> QED BY <2>1, <2>2
  <1>5. CASE TwoSegments(p) /\ jpegPos = TableSize + 8 /\ info = WithTables(Values(7))
    <2>1. jpegPhase' = "parse" /\ jpegPos' = AtFill(p) /\ info' = WithTables(TableValues(p))
      BY <1>1, <1>5, SecondTables
    <2> QED BY <1>1, <2>1 DEF InGap
  <1>6. CASE InGap(p) /\ info = WithTables(TableValues(p))
    BY <1>2, <1>3, <1>6 DEF InGap
  <1>7. CASE jpegPos = AtScanHeader(p) /\ info = RightInfo(p)
    BY <1>1, <1>7, ScanStep
  <1> QED BY <1>1, <1>4, <1>5, <1>6, <1>7 DEF Understood

LEMMA UnderstoodGives ==
  ASSUME RtpTyped, Understood
  PROVE  PictureUnderstood
  <1> DEFINE p == picture
             a == AtScan(p)
             e == AtEnding(p)
             d == p.scan
  <1> SUFFICES ASSUME jpegPhase \notin {"idle", "parse"}, Baseline(p)
               PROVE  /\ jpegPhase # "rejected" /\ info.tables = TableValues(p)
                      /\ info.width = p.sof.width /\ info.height = p.sof.height
                      /\ SubSeq(jpeg, info.scan[1], info.scan[2]) = d
    BY DEF PictureUnderstood
  <1>1. p \in Pictures /\ jpeg = Encoded(p) /\ jpeg \in Seq(Octet)
    BY DEF RtpTyped, RtpTypeOK
  <1>2. /\ jpegPhase \in {"send", "sent", "failed"}
        /\ info = [RightInfo(p) EXCEPT !.scan = <<a, e - 1>>]
    BY DEF Understood, RtpTyped, RtpTypeOK
  <1>3. /\ info.tables = TableValues(p) /\ info.width = p.sof.width /\ info.height = p.sof.height
        /\ info.scan = <<a, e - 1>>
    <2> DEFINE scan == <<a, e - 1>>
    <2> HIDE DEF scan
    <2>1. info = [RightInfo(p) EXCEPT !.scan = scan]
      BY <1>2 DEF scan
    <2>2. /\ info.tables = TableValues(p) /\ info.width = p.sof.width /\ info.height = p.sof.height
          /\ info.scan = scan
      BY <2>1 DEF RightInfo, NewInfo
    <2> QED BY <2>2 DEF scan
  <1>4. SubSeq(jpeg, a, e - 1) = d
    <2>1. a \in Nat /\ e \in Nat /\ e = a + Len(d) /\ Len(d) \in Nat /\ Len(d) >= 1
      BY <1>1, Positions
    <2>2. d \in Seq(Octet) /\ Holds(jpeg, a, d)
      BY <1>1, BaselineIs, PartsAreBytes, Layout
    <2> HIDE DEF a, d, e, p
    <2>3. a \in Nat /\ a >= 1 /\ a + Len(d) - 1 <= Len(jpeg) /\ \A i \in 1 .. Len(d) : jpeg[a - 1 + i] = d[i]
      BY <2>1, <2>2 DEF Holds
    <2>4. a \in Int /\ e - 1 \in Int /\ a <= e - 1 /\ e - 1 - a + 1 = Len(d) /\ e - 1 <= Len(jpeg)
      BY <2>1, <2>3
    <2>5. \A i \in a .. e - 1 : jpeg[i] \in Octet
      <3>1. \A i \in a .. e - 1 : i \in 1 .. Len(jpeg)
        BY <2>3, <2>4
      <3> QED BY <1>1, <3>1
    <2>6. /\ SubSeq(jpeg, a, e - 1) \in Seq(Octet)
          /\ Len(SubSeq(jpeg, a, e - 1)) = IF a <= e - 1 THEN e - 1 - a + 1 ELSE 0
          /\ \A i \in 1 .. e - 1 - a + 1 : SubSeq(jpeg, a, e - 1)[i] = jpeg[a + i - 1]
      BY <2>4, <2>5, SubSeqProperties
    <2>7. Len(SubSeq(jpeg, a, e - 1)) = Len(d)
      BY <2>4, <2>6
    <2>8. \A i \in 1 .. Len(d) : a + i - 1 = a - 1 + i
      BY <2>1
    <2>9. \A i \in 1 .. Len(d) : SubSeq(jpeg, a, e - 1)[i] = d[i]
      BY <2>3, <2>4, <2>6, <2>8
    <2> QED BY <2>2, <2>6, <2>7, <2>9, SeqEqual
  <1>5. info.scan[1] = a /\ info.scan[2] = e - 1
    BY <1>3
  <1> QED BY <1>2, <1>3, <1>4, <1>5

(* A number of pixels, as a byte holds its whole blocks. *)
InBlocks(w) == w % 8 = 0 /\ w < 2048 => 8 * ((w \div 8) % 256) = w
LEMMA Blocks ==
  ASSUME NEW w \in Nat
  PROVE  InBlocks(w)
  <1> SUFFICES ASSUME w % 8 = 0, w < 2048 PROVE 8 * ((w \div 8) % 256) = w
    BY DEF InBlocks
  <1>1. w \div 8 \in 0 .. 255 /\ 8 * (w \div 8) = w
    OBVIOUS
  <1> QED BY <1>1

LEMMA Carried ==
  ASSUME RtpTyped, PacketsRight, Understood
  PROVE  PictureCarried
  <1> SUFFICES ASSUME jpegPhase = "sent", Baseline(picture)
               PROVE  /\ FlattenSeq(Pieces(Len(packets))) = picture.scan
                      /\ packets[1].tables = TableValues(picture)
                      /\ \A k \in 1 .. Len(packets), side \in {"width", "height"} :
                            picture.sof[side] % 8 = 0 /\ picture.sof[side] < 2048
                              => 8 * packets[k][side] = picture.sof[side]
    BY DEF PictureCarried
  <1>1. /\ info.tables = TableValues(picture)
        /\ info.width = picture.sof.width /\ info.height = picture.sof.height
        /\ SubSeq(jpeg, info.scan[1], info.scan[2]) = picture.scan
    BY UnderstoodGives DEF PictureUnderstood
  <1>2. /\ FlattenSeq(Pieces(Len(packets))) = SubSeq(jpeg, info.scan[1], info.scan[2])
        /\ packets[1].tables = info.tables
    BY PacketsRightGives DEF PacketsCarryScan
  <1>3. ASSUME NEW k \in 1 .. Len(packets)
        PROVE  /\ info.width % 8 = 0 /\ info.width < 2048 => 8 * packets[k].width = info.width
               /\ info.height % 8 = 0 /\ info.height < 2048 => 8 * packets[k].height = info.height
    <2>1. /\ packets[k].width = (info.width \div 8) % 256
          /\ packets[k].height = (info.height \div 8) % 256
      BY DEF PacketsRight, HeaderRight
    <2>2. info.width \in Nat /\ info.height \in Nat
      BY DEF RtpTyped, Info
    <2>3. InBlocks(info.width) /\ InBlocks(info.height)
      BY <2>2, Blocks
    <2>4. ASSUME NEW w, NEW b, b = (w \div 8) % 256, InBlocks(w)
          PROVE  w % 8 = 0 /\ w < 2048 => 8 * b = w
      BY <2>4 DEF InBlocks
    <2> QED BY <2>1, <2>3, <2>4
  <1> QED BY <1>1, <1>2, <1>3

(* Every picture a camera may send, cut off anywhere (parseJpegForRtp and  *)
(* sendMjpegRtpFrame): no byte outside the frame is read; what is sent is  *)
(* the whole scan, in packets of whatever size, that agree on their header *)
(* and say where the tables are; and the scan, tables and whole-block size *)
(* below 2048 of a complete baseline picture come out as they went in.     *)
(* Nothing is said of what a receiver makes of the type and of Q.          *)
THEOREM PacketsCarryPicture == RtpSpec => []RtpSafe
  <1> DEFINE Inv == RtpTyped /\ PacketsRight /\ Understood
  <1>1. RtpInit => Inv
    <2> SUFFICES ASSUME RtpInit PROVE Inv
      OBVIOUS
    <2>1. /\ picture = <<>> /\ jpeg = <<>> /\ jpegPhase = "idle" /\ jpegPos = 0
          /\ info = NewInfo /\ touched = 0 /\ rtpSeq = 0 /\ sentScan = 0 /\ packets = <<>>
      BY DEF RtpInit
    <2>2. NewInfo \in Info
      BY DEF NewInfo, Info
    <2>3. Size = 0 /\ jpeg \in Seq(Octet) /\ 0 \in 0 .. SeqModulus - 1
      BY <2>1, RtpAssumption DEF Size
    <2>4. RtpTyped
      BY <2>1, <2>2, <2>3 DEF RtpTyped, RtpTypeOK, ReadsInFrame
    <2>5. PacketsRight
      BY <2>1 DEF PacketsRight
    <2>6. Understood
      BY <2>1 DEF Understood
    <2> QED BY <2>4, <2>5, <2>6
  <1>2. Inv /\ [RtpNext]_rtpVars => Inv'
    <2> SUFFICES ASSUME Inv, [RtpNext]_rtpVars PROVE Inv'
      OBVIOUS
    <2>1. ASSUME NEW p \in Pictures, NEW seq \in {0, SeqModulus - 1}, NewFrame(p, seq)
          PROVE  Inv'
      BY <2>1, NewFrameTyped, NewFramePackets, NewFrameUnderstood
    <2>2. CASE Parse
      <3>1. RtpTyped'
        BY <2>2, ParseTyped
      <3> QED BY <2>2, <3>1, ParsePackets, ParseUnderstood
    <2>3. CASE SendPacket
      <3>1. Understood'
        <4>1. /\ jpegPhase = "send" /\ jpegPhase' \in {"failed", "sent", "send"}
              /\ UNCHANGED <<picture, jpeg, jpegPos, info>>
          BY <2>3 DEF SendPacket
        <4> QED BY <4>1 DEF Understood, InGap
      <3> QED BY <2>3, <3>1, SendTyped, SendPackets
    <2>4. CASE UNCHANGED rtpVars
      <3>1. RtpTyped'
        BY <2>4 DEF RtpTyped, RtpTypeOK, ReadsInFrame, Shown, Size, rtpVars
      <3>2. PacketsRight'
        <4>1. UNCHANGED <<jpeg, jpegPhase, info, rtpSeq, sentScan, packets>>
          BY <2>4 DEF rtpVars
        <4>2. \A i \in 1 .. Len(packets) : Pieces(i - 1)' = Pieces(i - 1)
          BY <4>1 DEF Pieces
        <4>3. \A i \in 1 .. Len(packets) : HeaderRight(packets[i])' <=> HeaderRight(packets[i])
          BY <4>1 DEF HeaderRight
        <4>4. SentUpTo' = SentUpTo /\ ScanSize' = ScanSize /\ DataOf(packets)' = DataOf(packets)
          BY <4>1 DEF SentUpTo, ScanSize, DataOf
        <4> QED BY <4>1, <4>2, <4>3, <4>4 DEF PacketsRight
      <3>3. Understood'
        BY <2>4 DEF Understood, InGap, rtpVars
      <3> QED BY <3>1, <3>2, <3>3
    <2> QED BY <2>1, <2>2, <2>3, <2>4 DEF RtpNext
  <1>3. Inv => RtpSafe
    BY PacketsRightGives, UnderstoodGives, Carried DEF RtpSafe, RtpTyped
  <1> QED BY <1>1, <1>2, <1>3, PTL DEF RtpSpec
=============================================================================
