---------------------------- MODULE FrameBuffers ----------------------------
(***************************************************************************)
(* media/frame: FrameQueue, a bounded queue between a thread that captures *)
(* and one that consumes, and FrameSync, which pairs the frames of the two *)
(* cameras by their time.  A frame is its time in milliseconds; each       *)
(* camera's frames come in the order of their times.                       *)
(***************************************************************************)
EXTENDS Integers, Sequences

CONSTANTS Capacity,     \* frames the queue, and each side of the pairing, holds
          MaxDelta,     \* how far apart a pair may be
          MaxTime,      \* bound: the last time of a frame
          MaxFrames     \* bound: frames pushed into the queue

ASSUME FrameAssumption ==
    /\ Capacity \in Nat \ {0} /\ MaxDelta \in Nat /\ MaxTime \in Nat /\ MaxFrames \in Nat

VARIABLES
    queue,       (* queue_ of FrameQueue: frames are numbered              *)
    queueClosed, (* closed_                                                *)
    counts,      (* pushed, dropped (dropped_), popped and cleared frames  *)
    popping,     (* the consumer is in pop(): "no", or its kind of wait    *)
    asleep,      (* it sleeps on notEmpty_ and was not notified since      *)
    lastPopped,  (* history: the last frame popped                         *)
    visible,     (* visible_ of FrameSync                                  *)
    composite,   (* composite_                                             *)
    clocks,      (* the times of the cameras' last frames                  *)
    group        (* the answer of the last trySync()                       *)

queueVars == <<queue, queueClosed, counts, popping, asleep, lastPopped>>
syncVars == <<visible, composite, clocks, group>>

NoGroup == [visible |-> -1, composite |-> -1]
FrameInit ==
    /\ queue = <<>> /\ queueClosed = FALSE /\ popping = "no" /\ asleep = FALSE
    /\ lastPopped = 0
    /\ counts = [pushed |-> 0, dropped |-> 0, popped |-> 0, cleared |-> 0]
    /\ visible = <<>> /\ composite = <<>>
    /\ clocks = [visible |-> 0, composite |-> 0]
    /\ group = NoGroup

----------------------------------------------------------------------------
(* FrameQueue *)
IsFullMutant == Len(queue) > Capacity
IsFull == Len(queue) >= Capacity
Pushed == counts.pushed + 1
QueuePush ==
    /\ ~queueClosed
    /\ counts.pushed < MaxFrames
    /\ queue' = Append(IF IsFull THEN Tail(queue) ELSE queue, Pushed)
    /\ counts' = [counts EXCEPT !.pushed = @ + 1, !.dropped = IF IsFull THEN @ + 1 ELSE @]
    /\ asleep' = FALSE
    /\ UNCHANGED <<queueClosed, popping, lastPopped>>

(* The condition of the wait is looked at under the mutex, before the      *)
(* consumer sleeps and whenever it wakes; a timeout wakes it too.          *)
NothingToPop == queue = <<>> /\ ~queueClosed
Awake == ~asleep \/ popping = "timeout"

PopBegins(wait) ==
    /\ popping = "no"
    /\ popping' = wait /\ asleep' = NothingToPop
    /\ UNCHANGED <<queue, queueClosed, counts, lastPopped>>

(* Notified, but the frame was cleared before it had the mutex.            *)
PopSleepsAgain ==
    /\ popping # "no" /\ ~asleep /\ NothingToPop
    /\ asleep' = TRUE
    /\ UNCHANGED <<queue, queueClosed, counts, popping, lastPopped>>

(* A frame that is left in a closed queue is still handed out. *)
PopGets ==
    /\ popping # "no" /\ Awake /\ queue # <<>>
    /\ lastPopped' = Head(queue) /\ queue' = Tail(queue)
    /\ counts' = [counts EXCEPT !.popped = @ + 1]
    /\ popping' = "no" /\ asleep' = FALSE
    /\ UNCHANGED <<queueClosed>>

PopGetsNothing ==
    /\ popping # "no" /\ queue = <<>>
    /\ popping = "timeout" \/ (~asleep /\ queueClosed)
    /\ popping' = "no" /\ asleep' = FALSE
    /\ UNCHANGED <<queue, queueClosed, counts, lastPopped>>

QueueClose ==
    /\ queueClosed' = TRUE /\ asleep' = FALSE
    /\ UNCHANGED <<queue, counts, popping, lastPopped>>

QueueClear ==
    /\ queue' = <<>>
    /\ counts' = [counts EXCEPT !.cleared = @ + Len(queue)]
    /\ UNCHANGED <<queueClosed, popping, asleep, lastPopped>>

----------------------------------------------------------------------------
(* FrameSync *)
Trimmed(q) == SubSeq(q, Len(q) - Capacity + 1, Len(q))
Added(q, time) == IF Len(q) = Capacity THEN Trimmed(Append(q, time)) ELSE Append(q, time)

PushVisible(time) ==
    /\ visible' = Added(visible, time)
    /\ clocks' = [clocks EXCEPT !.visible = time]
    /\ group' = NoGroup
    /\ UNCHANGED composite
PushComposite(time) ==
    /\ composite' = Added(composite, time)
    /\ clocks' = [clocks EXCEPT !.composite = time]
    /\ group' = NoGroup
    /\ UNCHANGED visible

Distance(s, t) == IF s < t THEN t - s ELSE s - t

(* The first of the composite frames that are closest to the first visible *)
(* frame.                                                                  *)
Closest ==
    CHOOSE i \in 1 .. Len(composite) :
        /\ \A j \in 1 .. Len(composite) :
             Distance(visible[1], composite[i]) <= Distance(visible[1], composite[j])
        /\ \A j \in 1 .. i - 1 :
             Distance(visible[1], composite[i]) < Distance(visible[1], composite[j])

DropsVisibleMutant == visible[1] >= composite[1]
DropsVisible == visible[1] < composite[1]

UsedComposite == Closest

TrySync ==
    /\ visible # <<>> /\ composite # <<>>
    /\ IF Distance(visible[1], composite[Closest]) > MaxDelta
         THEN /\ group' = NoGroup
              /\ IF DropsVisible
                   THEN visible' = Tail(visible) /\ UNCHANGED composite
                   ELSE composite' = Tail(composite) /\ UNCHANGED visible
         ELSE /\ group' = [visible |-> visible[1], composite |-> composite[Closest]]
              /\ visible' = Tail(visible)
              /\ composite' = SubSeq(composite, UsedComposite + 1, Len(composite))
    /\ UNCHANGED clocks

SyncClear ==
    /\ visible' = <<>> /\ composite' = <<>> /\ group' = NoGroup
    /\ UNCHANGED clocks

----------------------------------------------------------------------------
QueueNext ==
    \/ QueuePush \/ PopSleepsAgain \/ PopGets \/ PopGetsNothing \/ QueueClose \/ QueueClear
    \/ \E wait \in {"timeout", "forever"} : PopBegins(wait)
SyncNext ==
    \/ \E time \in clocks.visible .. MaxTime : PushVisible(time)
    \/ \E time \in clocks.composite .. MaxTime : PushComposite(time)
    \/ TrySync \/ SyncClear

----------------------------------------------------------------------------
FrameTypeOK ==
    /\ queue \in Seq(1 .. MaxFrames) /\ lastPopped \in 0 .. MaxFrames
    /\ queueClosed \in BOOLEAN /\ popping \in {"no", "timeout", "forever"} /\ asleep \in BOOLEAN
    /\ counts \in [{"pushed", "dropped", "popped", "cleared"} -> 0 .. MaxFrames]
    /\ visible \in Seq(0 .. MaxTime) /\ composite \in Seq(0 .. MaxTime)
    /\ Len(visible) <= Capacity /\ Len(composite) <= Capacity
    /\ clocks \in [{"visible", "composite"} -> 0 .. MaxTime]

(* The queue never holds more than its capacity, every frame that was      *)
(* accepted is accounted for, and a full queue loses its oldest frames.    *)
NewestFramesQueued ==
    /\ Len(queue) <= Capacity
    /\ counts.pushed = Len(queue) + counts.dropped + counts.popped + counts.cleared
    /\ \A i \in 1 .. Len(queue) : queue[i] = counts.pushed - Len(queue) + i
    /\ queue # <<>> => lastPopped < queue[1]

(* No wake-up is lost: a consumer sleeps only while there is nothing to    *)
(* hand out and the queue is open, so a frame or close() ends its wait.    *)
SleepsOnlyWhileEmpty == asleep => popping # "no" /\ NothingToPop

(* A frame that trySync() drops had no partner: no frame it could be       *)
(* paired with is queued, nor can one still come.                          *)
Partners(time, other) == {i \in 1 .. Len(other) : Distance(time, other[i]) <= MaxDelta}
DroppedHasNoPartner ==
    [][TrySync /\ group' = NoGroup =>
         /\ visible' # visible => /\ Partners(visible[1], composite) = {}
                                  /\ clocks.composite > visible[1] + MaxDelta
         /\ composite' # composite => /\ Partners(composite[1], visible) = {}
                                      /\ clocks.visible > composite[1] + MaxDelta]_syncVars

(* A group is the closest pair its visible frame can make, and no frame    *)
(* goes into two groups: the frame that was used and all before it leave   *)
(* the queue, and no other.                                                *)
GroupIsClosest ==
    [][TrySync /\ group' # NoGroup =>
         /\ Distance(group'.visible, group'.composite) <= MaxDelta
         /\ \A i \in 1 .. Len(composite) :
              Distance(visible[1], composite[i]) >= Distance(visible[1], group'.composite)
         /\ \E used \in 1 .. Len(composite) :
              /\ composite[used] = group'.composite
              /\ composite' = SubSeq(composite, used + 1, Len(composite))
              /\ \A i \in 1 .. used - 1 : composite[i] # group'.composite
      ]_syncVars

(* Together, for the two classes: the queue, and the pairing.              *)
QueueSafe == FrameTypeOK /\ NewestFramesQueued /\ SleepsOnlyWhileEmpty
PairsRight == []FrameTypeOK /\ DroppedHasNoPartner /\ GroupIsClosest
=============================================================================
