---------------------------- MODULE UdpPublisher ----------------------------
(***************************************************************************)
(* protocol/udp/UdpMpegTsPublisher: a sender thread that takes frames from *)
(* the stream service and writes them into the pipe of an ffmpeg child.    *)
(* The control thread starts and stops it; sender and control thread share *)
(* running_, childPid_ and writeFd_ without a lock, and rely on the order  *)
(* of start() and stop() instead.                                          *)
(*                                                                         *)
(* A frame is written in pieces, because write() takes as much as fits     *)
(* into the pipe.  A pipe is the sequence of pieces its child has not read *)
(* yet; a piece is the frame's number and the place in it.                 *)
(***************************************************************************)
EXTENDS Naturals, Sequences

CONSTANTS Ffmpegs,     (* bound: children, numbered from 1                 *)
          PieceCount,  (* pieces of a frame                                *)
          PipeSize,    (* pieces a pipe holds                              *)
          MaxPulled    (* bound: frames taken from the stream service      *)

ASSUME PublisherAssumption ==
    /\ Ffmpegs \in Nat /\ MaxPulled \in Nat
    /\ PieceCount \in Nat \ {0} /\ PipeSize \in Nat \ {0}

VARIABLES
    pubRunning,   (* running_                                              *)
    service,      (* streamService_ is set                                 *)
    childPid,     (* childPid_: a child, or 0                              *)
    writeFd,      (* writeFd_: the child whose pipe it writes, or 0        *)
    sender,       (* senderThread_: "none" if it is not joinable, or where *)
                  (* the thread is                                         *)
    frame,        (* the frame the sender writes and its pieces written    *)
    control,      (* where the control thread is                           *)
    ffmpeg        (* the children: their state, their pipe and the last    *)
                  (* piece they have read                                  *)

pubVars == <<pubRunning, service, childPid, writeFd, sender, frame, control, ffmpeg>>

Processes == 1 .. Ffmpegs
Piece == (0 .. MaxPulled) \X (0 .. PieceCount)
Unborn == [state |-> "unborn", pipe |-> <<>>, last |-> <<0, PieceCount>>]

PubInit ==
    /\ pubRunning = FALSE /\ service = FALSE
    /\ childPid = 0 /\ writeFd = 0
    /\ sender = "none" /\ frame = <<0, PieceCount>>
    /\ control = "stopped"
    /\ ffmpeg = [c \in Processes |-> Unborn]

Is(state) == {c \in Processes : ffmpeg[c].state = state}

(* A child reads its end of file when nobody holds the pipe's write end:   *)
(* the child itself closes its copy before exec.                           *)
EndOfInput(c) == writeFd # c /\ ffmpeg[c].pipe = <<>>

(* waitChildIfExited: reap the child if it has ended, and forget its pipe. *)
ReapChild ==
    IF childPid \in Is("zombie")
      THEN /\ ffmpeg' = [ffmpeg EXCEPT ![childPid].state = "reaped"]
           /\ childPid' = 0 /\ writeFd' = 0
      ELSE UNCHANGED <<childPid, writeFd, ffmpeg>>

----------------------------------------------------------------------------
(* start() by a caller that has stopped the publisher before. *)

(* startFfmpeg: neither the pipe nor the child, or both. *)
PubStart ==
    /\ control = "stopped"
    /\ service' = TRUE
    /\ \/ UNCHANGED <<childPid, writeFd, ffmpeg, control>>
       \/ \E c \in Is("unborn") :
            /\ \A d \in Processes : d < c => ffmpeg[d].state # "unborn"
            /\ childPid' = c /\ writeFd' = c
            /\ ffmpeg' = [ffmpeg EXCEPT ![c].state = "running"]
            /\ control' = "check"
    /\ UNCHANGED <<pubRunning, sender, frame>>

(* After 100 ms: a child that has ended already is an error; otherwise the *)
(* sender thread is created.                                               *)
PubCheck ==
    /\ control = "check"
    /\ ReapChild
    /\ IF childPid \in Is("zombie")
         THEN control' = "stopped" /\ UNCHANGED <<pubRunning, sender>>
         ELSE control' = "started" /\ pubRunning' = TRUE /\ sender' = "loop"
    /\ UNCHANGED <<service, frame>>

(* stop() clears running_, joins the sender if there is one, closes the    *)
(* pipe and reaps a child that has ended; it does not wait for the child.  *)
PubStop ==
    /\ control = "started"
    /\ pubRunning' = FALSE
    /\ control' = "join"
    /\ UNCHANGED <<service, childPid, writeFd, sender, frame, ffmpeg>>

SenderJoined == sender \in {"none", "ended"}
PubJoin ==
    /\ control = "join"
    /\ SenderJoined
    /\ sender' = IF sender = "ended" THEN "none" ELSE sender
    /\ service' = FALSE
    /\ writeFd' = 0
    /\ IF childPid \in Is("zombie")
         THEN childPid' = 0 /\ ffmpeg' = [ffmpeg EXCEPT ![childPid].state = "reaped"]
         ELSE UNCHANGED <<childPid, ffmpeg>>
    /\ control' = "stopped"
    /\ UNCHANGED <<pubRunning, frame>>

----------------------------------------------------------------------------
(* The sender thread. *)

SenderEnds == sender' = "ended" /\ pubRunning' = FALSE

(* The head of the loop: is it still running, is the child still there? *)
MaySendMutant == service
MaySend == pubRunning /\ service
SenderLoop ==
    /\ sender = "loop"
    /\ \/ /\ ~MaySend
          /\ SenderEnds
          /\ UNCHANGED <<childPid, writeFd, ffmpeg>>
       \/ /\ MaySend
          /\ ReapChild
          /\ IF childPid' = 0 THEN SenderEnds
             ELSE sender' = "pull" /\ UNCHANGED pubRunning
    /\ UNCHANGED <<service, frame, control>>

(* waitFrame: a frame, or a timeout (or an empty frame). *)
SenderPull ==
    /\ sender = "pull"
    /\ \/ /\ frame[1] < MaxPulled
          /\ frame' = <<frame[1] + 1, 0>>
          /\ sender' = "write"
       \/ UNCHANGED frame /\ sender' = "loop"
    /\ UNCHANGED <<pubRunning, service, childPid, writeFd, control, ffmpeg>>

(* writeAll: one write() takes some of what is left, blocks while the pipe *)
(* is full, and fails if the child has ended.                              *)
WrittenMutant(taken) == PieceCount
Written(taken) == frame[2] + taken
WriteSome ==
    /\ writeFd \in Is("running")
    /\ \E taken \in 1 .. PieceCount - frame[2] :
         /\ Len(ffmpeg[writeFd].pipe) + taken <= PipeSize
         /\ ffmpeg' = [ffmpeg EXCEPT ![writeFd].pipe =
                         @ \o [i \in 1 .. taken |-> <<frame[1], frame[2] + i>>]]
         /\ frame' = <<frame[1], Written(taken)>>
         /\ sender' = IF Written(taken) = PieceCount THEN "loop" ELSE "write"
    /\ UNCHANGED pubRunning
SenderWrite ==
    /\ sender = "write"
    /\ \/ WriteSome
       \/ writeFd \notin Is("running") /\ SenderEnds /\ UNCHANGED <<frame, ffmpeg>>
    /\ UNCHANGED <<service, childPid, writeFd, control>>

----------------------------------------------------------------------------
(* The children (external). *)
FfmpegReads(c) ==
    /\ ffmpeg[c].state = "running" /\ ffmpeg[c].pipe # <<>>
    /\ ffmpeg' = [ffmpeg EXCEPT ![c].last = Head(ffmpeg[c].pipe), ![c].pipe = Tail(ffmpeg[c].pipe)]
    /\ UNCHANGED <<pubRunning, service, childPid, writeFd, sender, frame, control>>
FfmpegEnds(c) ==
    /\ ffmpeg[c].state = "running"
    /\ ffmpeg' = [ffmpeg EXCEPT ![c].state = "zombie", ![c].pipe = <<>>]
    /\ UNCHANGED <<pubRunning, service, childPid, writeFd, sender, frame, control>>

SenderStep == SenderLoop \/ SenderPull \/ SenderWrite
ControlStep == PubStart \/ PubCheck \/ PubStop \/ PubJoin
FfmpegStep == \E c \in Processes : FfmpegReads(c) \/ FfmpegEnds(c)
PubNext == ControlStep \/ SenderStep \/ FfmpegStep

(* The threads run, and an ffmpeg reads its input up to the end of file    *)
(* and ends then: a child that stopped reading would block the sender.     *)
PubFairness ==
    /\ WF_pubVars(SenderStep) /\ WF_pubVars(PubCheck \/ PubJoin)
    /\ \A c \in Processes : /\ WF_pubVars(FfmpegReads(c))
                            /\ WF_pubVars(EndOfInput(c) /\ FfmpegEnds(c))

----------------------------------------------------------------------------
PubTypeOK ==
    /\ pubRunning \in BOOLEAN /\ service \in BOOLEAN
    /\ {childPid, writeFd} \subseteq 0 .. Ffmpegs
    /\ sender \in {"none", "loop", "pull", "write", "ended"}
    /\ frame \in Piece
    /\ control \in {"stopped", "check", "started", "join"}
    /\ ffmpeg \in [Processes -> [state : {"unborn", "running", "zombie", "reaped"},
                                 pipe : Seq(Piece), last : Piece]]

(* What an ffmpeg reads are whole frames, one after the other: neither a   *)
(* partial write() nor a second sender tears a hole into the stream.       *)
WholeFrames ==
    \A c \in Is("running") :
        LET input == <<ffmpeg[c].last>> \o ffmpeg[c].pipe IN
        \A i \in 1 .. Len(input) - 1 :
            \/ input[i + 1] = <<input[i][1], input[i][2] + 1>>
            \/ input[i][2] = PieceCount /\ input[i + 1][2] = 1

(* No descriptor outlives its use: the pipe that is open is the current    *)
(* child's, and the control thread never opens one over another.           *)
PipeOfChild ==
    /\ writeFd # 0 => writeFd = childPid
    /\ control = "stopped" => writeFd = 0

(* A sender thread uses the stream service only between start() and the    *)
(* end of stop(), and start() never assigns a thread over a joinable one.  *)
SenderConfined ==
    /\ sender \in {"loop", "pull", "write"} => service /\ control \in {"started", "join"}
    /\ control \in {"stopped", "check"} => sender = "none"

(* stop() returns: the sender gives up at the latest after the frame it    *)
(* writes.                                                                 *)
PubStopReturns == control = "join" ~> control # "join"

(* An ffmpeg that dies is noticed: the publisher does not go on running    *)
(* without one.                                                            *)
DeadFfmpegNoticed ==
    pubRunning /\ childPid \in Is("zombie") ~> ~pubRunning

(* No ffmpeg is left behind: once its pipe is closed it ends.              *)
FfmpegNotLeft ==
    \A c \in Processes : ffmpeg[c].state = "running" /\ writeFd # c ~> ffmpeg[c].state # "running"

(* Together: whatever ends first, ffmpeg, the stream or the program, the   *)
(* frames, the pipe and the sender thread stay in order ...                *)
PublisherSafe == PubTypeOK /\ WholeFrames /\ PipeOfChild /\ SenderConfined

(* ... and nobody waits for ever: not stop() for the sender, nor the       *)
(* sender for a dead ffmpeg, nor ffmpeg for its end of file.               *)
PublisherEnds == PubStopReturns /\ DeadFfmpegNoticed /\ FfmpegNotLeft
=============================================================================
