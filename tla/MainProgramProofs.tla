------------------------- MODULE MainProgramProofs ---------------------------
(***************************************************************************)
(* Proofs about the main program and the UDP publisher it drives, for any  *)
(* configured camera formats, any number of ffmpeg children, any size of   *)
(* frames and pipes, and an ffmpeg that may die at any time.               *)
(***************************************************************************)
EXTENDS MainProgram, SequenceTheorems, TLAPS

----------------------------------------------------------------------------
(* The publisher (UdpPublisher) *)

(* What child c has read last and has still to read.                       *)
Input(c) == <<ffmpeg[c].last>> \o ffmpeg[c].pipe
Follows(a, b) == b = <<a[1], a[2] + 1>> \/ (a[2] = PieceCount /\ b[2] = 1)
Whole(c) == \A i \in 1 .. Len(Input(c)) - 1 : Follows(Input(c)[i], Input(c)[i + 1])
LastPiece(c) == Input(c)[Len(Input(c))]

(* Where the sender has come to with its child: in the middle of a frame   *)
(* only inside writeAll().                                                 *)
InStep ==
    writeFd \in Is("running") =>
        IF sender = "write" /\ frame[2] > 0 THEN LastPiece(writeFd) = frame
                                            ELSE LastPiece(writeFd)[2] = PieceCount

PubInv ==
    /\ PublisherSafe
    /\ control # "stopped" => service
    /\ \A c \in Is("unborn") : ffmpeg[c] = Unborn
    /\ sender = "write" => frame[2] < PieceCount
    /\ InStep

PubSpec == PubInit /\ [][PubNext]_pubVars

----------------------------------------------------------------------------
LEMMA InputFacts ==
  ASSUME PubTypeOK, NEW c \in Processes
  PROVE  /\ Input(c) \in Seq(Piece) /\ Len(Input(c)) = Len(ffmpeg[c].pipe) + 1
         /\ Input(c)[1] = ffmpeg[c].last
         /\ \A i \in 1 .. Len(ffmpeg[c].pipe) : Input(c)[i + 1] = ffmpeg[c].pipe[i]
  <1>1. ffmpeg[c].pipe \in Seq(Piece) /\ ffmpeg[c].last \in Piece
    BY DEF PubTypeOK
  <1> QED BY <1>1 DEF Input

LEMMA PubInitInv == PubInit => PubInv
  <1> SUFFICES ASSUME PubInit PROVE PubInv
    OBVIOUS
  <1>1. PubTypeOK
    <2>1. <<0, PieceCount>> \in Piece /\ 0 \in 0 .. Ffmpegs
      BY PublisherAssumption DEF Piece
    <2>2. <<>> \in Seq(Piece)
      OBVIOUS
    <2>3. Unborn \in [state : {"unborn", "running", "zombie", "reaped"}, pipe : Seq(Piece), last : Piece]
      BY <2>1, <2>2 DEF Unborn
    <2> QED BY <2>1, <2>3 DEF PubInit, PubTypeOK
  <1>2. Is("running") = {}
    BY DEF PubInit, Is, Unborn
  <1>3. \A c \in Is("unborn") : ffmpeg[c] = Unborn
    BY DEF PubInit, Is
  <1> QED BY <1>1, <1>2, <1>3
          DEF PubInit, PubInv, PublisherSafe, WholeFrames, PipeOfChild, SenderConfined, InStep

----------------------------------------------------------------------------
(* Children *)
Child == [state : {"unborn", "running", "zombie", "reaped"}, pipe : Seq(Piece), last : Piece]

LEMMA ReapFacts ==
  ASSUME PubInv, ReapChild
  PROVE  /\ ffmpeg' \in [Processes -> Child] /\ childPid' \in 0 .. Ffmpegs /\ writeFd' \in 0 .. Ffmpegs
         /\ writeFd' # 0 => writeFd' = writeFd /\ writeFd' = childPid'
         /\ childPid \in Is("zombie") => writeFd' = 0 /\ childPid' = 0
         /\ writeFd = 0 => writeFd' = 0
         /\ \A c \in Processes :
              /\ ffmpeg'[c].state \in {"running", "unborn"} => ffmpeg'[c] = ffmpeg[c]
              /\ ffmpeg[c].state = "unborn" => ffmpeg'[c] = ffmpeg[c]
  <1>1. /\ ffmpeg \in [Processes -> Child] /\ childPid \in 0 .. Ffmpegs /\ writeFd \in 0 .. Ffmpegs
        /\ writeFd # 0 => writeFd = childPid
    BY DEF PubInv, PublisherSafe, PubTypeOK, PipeOfChild, Child
  <1>2. CASE childPid \notin Is("zombie")
    BY <1>1, <1>2 DEF ReapChild
  <1>3. CASE childPid \in Is("zombie")
    <2>1. childPid \in Processes /\ ffmpeg[childPid].state = "zombie"
      BY <1>3 DEF Is
    <2>2. /\ ffmpeg' = [ffmpeg EXCEPT ![childPid].state = "reaped"]
          /\ childPid' = 0 /\ writeFd' = 0
      BY <1>3 DEF ReapChild
    <2>3. \A c \in Processes : c # childPid => ffmpeg'[c] = ffmpeg[c]
      BY <1>1, <2>2
    <2>4. ffmpeg'[childPid].state = "reaped" /\ ffmpeg' \in [Processes -> Child]
      <3>1. ffmpeg[childPid] \in Child
        BY <1>1, <2>1
      <3>2. [ffmpeg[childPid] EXCEPT !.state = "reaped"] \in Child
        BY <3>1 DEF Child
      <3> QED BY <1>1, <2>1, <2>2, <3>1, <3>2 DEF Child
    <2>5. \A c \in Processes :
            /\ ffmpeg'[c].state \in {"running", "unborn"} => ffmpeg'[c] = ffmpeg[c]
            /\ ffmpeg[c].state = "unborn" => ffmpeg'[c] = ffmpeg[c]
      BY <2>1, <2>3, <2>4
    <2> QED BY <1>1, <2>2, <2>4, <2>5, PublisherAssumption
  <1> QED BY <1>2, <1>3

(* Steps after which the children that run are among those that ran, with  *)
(* the same input, keep the streams whole.                                 *)
LEMMA InputKept ==
  ASSUME PubInv, ffmpeg' \in [Processes -> Child],
         \A c \in Processes : ffmpeg'[c].state \in {"running", "unborn"} => ffmpeg'[c] = ffmpeg[c]
  PROVE  /\ WholeFrames'
         /\ \A c \in Is("unborn")' : ffmpeg'[c] = Unborn
         /\ \A c \in Is("running")' : c \in Is("running") /\ LastPiece(c)' = LastPiece(c)
  <1>1. \A c \in Is("running")' : c \in Is("running") /\ ffmpeg'[c] = ffmpeg[c]
    BY DEF Is
  <1>2. WholeFrames'
    <2>1. \A c \in Is("running")' : Whole(c)'
      <3>1. \A c \in Is("running") : Whole(c)
        BY DEF PubInv, PublisherSafe, WholeFrames, Whole, Input, Follows
      <3> QED BY <1>1, <3>1 DEF Whole, Input
    <2> QED BY <2>1 DEF WholeFrames, Whole, Input, Follows
  <1>3. \A c \in Is("unborn")' : ffmpeg'[c] = Unborn
    BY DEF Is, PubInv
  <1> QED BY <1>1, <1>2, <1>3 DEF LastPiece, Input

(* The publisher's variables but the children. *)
OwnOK ==
    /\ pubRunning \in BOOLEAN /\ service \in BOOLEAN
    /\ {childPid, writeFd} \subseteq 0 .. Ffmpegs
    /\ sender \in {"none", "loop", "pull", "write", "ended"}
    /\ frame \in Piece
    /\ control \in {"stopped", "check", "started", "join"}
    /\ PipeOfChild /\ SenderConfined
    /\ control # "stopped" => service
    /\ sender = "write" => frame[2] < PieceCount

LEMMA Parts ==
  PubInv <=> /\ OwnOK /\ ffmpeg \in [Processes -> Child] /\ WholeFrames
             /\ \A c \in Is("unborn") : ffmpeg[c] = Unborn
             /\ InStep
  BY DEF PubInv, PublisherSafe, PubTypeOK, OwnOK, Child

LEMMA PartsNext ==
  ASSUME OwnOK', ffmpeg' \in [Processes -> Child], WholeFrames',
         \A c \in Is("unborn")' : ffmpeg'[c] = Unborn,
         InStep'
  PROVE  PubInv'
  BY DEF PubInv, PublisherSafe, PubTypeOK, OwnOK, Child

(* The control thread *)
LEMMA ControlInv ==
  ASSUME PubInv, ControlStep
  PROVE  PubInv'
  <1>0. /\ OwnOK /\ ffmpeg \in [Processes -> Child] /\ WholeFrames
        /\ \A c \in Is("unborn") : ffmpeg[c] = Unborn
        /\ InStep
    BY Parts
  <1>1. CASE PubStart /\ UNCHANGED <<childPid, writeFd, ffmpeg, control>>
    <2>1. OwnOK'
      BY <1>0, <1>1 DEF PubStart, OwnOK, PipeOfChild, SenderConfined
    <2>2. InStep'
      BY <1>0, <1>1 DEF PubStart, InStep, Is, LastPiece, Input
    <2>3. WholeFrames'
      BY <1>0, <1>1 DEF WholeFrames, Is
    <2> QED BY <1>0, <1>1, <2>1, <2>2, <2>3, PartsNext DEF Is
  <1>2. ASSUME NEW c \in Is("unborn"), PubStart,
               childPid' = c, writeFd' = c, control' = "check",
               ffmpeg' = [ffmpeg EXCEPT ![c].state = "running"]
        PROVE  PubInv'
    <2>1. c \in Processes /\ ffmpeg[c] = Unborn
      BY <1>0 DEF Is
    <2>2. /\ ffmpeg'[c] = [Unborn EXCEPT !.state = "running"]
          /\ \A d \in Processes : d # c => ffmpeg'[d] = ffmpeg[d]
          /\ ffmpeg' \in [Processes -> Child]
      BY <1>0, <1>2, <2>1 DEF Child
    <2>3. OwnOK'
      BY <1>0, <1>2, <2>1 DEF PubStart, OwnOK, PipeOfChild, SenderConfined, Processes
    <2>4. Input(c)' = << <<0, PieceCount>> >>
      BY <2>2 DEF Input, Unborn
    <2>5. WholeFrames'
      <3>1. \A d \in Is("running") : Whole(d)
        BY <1>0 DEF WholeFrames, Whole, Input, Follows
      <3>2. ASSUME NEW d \in Is("running")' PROVE Whole(d)'
        <4>1. CASE d = c
          BY <2>4, <4>1, SMTT(30) DEF Whole
        <4>2. CASE d # c
          BY <2>2, <3>1, <4>2 DEF Whole, Input, Is
        <4> QED BY <4>1, <4>2
      <3> QED BY <3>2 DEF WholeFrames, Whole, Input, Follows
    <2>6. \A d \in Is("unborn")' : ffmpeg'[d] = Unborn
      BY <1>0, <2>2 DEF Is, Unborn
    <2>7. InStep'
      <3>1. sender' = "none"
        BY <1>0, <1>2 DEF PubStart, OwnOK, SenderConfined
      <3>2. LastPiece(c)' = <<0, PieceCount>>
        BY <2>4 DEF LastPiece
      <3> QED BY <1>2, <3>1, <3>2 DEF InStep, LastPiece, Input
    <2> QED BY <2>2, <2>3, <2>5, <2>6, <2>7, PartsNext
  <1>3. CASE PubCheck
    <2>1. OwnOK'
      BY <1>0, <1>3, ReapFacts DEF PubCheck, OwnOK, PipeOfChild, SenderConfined
    <2>2. InStep'
      <3>1. sender = "none" /\ sender' \in {"none", "loop"}
        BY <1>0, <1>3 DEF PubCheck, OwnOK, SenderConfined
      <3>2. ReapChild /\ frame' = frame
        BY <1>3 DEF PubCheck
      <3>3. writeFd' \in Is("running")' => /\ writeFd' = writeFd /\ writeFd \in Is("running")
                                          /\ LastPiece(writeFd)' = LastPiece(writeFd)
        BY <3>2, ReapFacts, InputKept DEF Is, Processes, LastPiece, Input
      <3> QED BY <1>0, <3>1, <3>2, <3>3 DEF InStep, LastPiece, Input
    <2> QED BY <1>3, <2>1, <2>2, ReapFacts, InputKept, PartsNext DEF PubCheck
  <1>4. CASE PubStop
    <2>1. OwnOK'
      BY <1>0, <1>4 DEF PubStop, OwnOK, PipeOfChild, SenderConfined
    <2> QED BY <1>0, <1>4, <2>1, PartsNext DEF PubStop, WholeFrames, InStep, LastPiece, Input, Is
  <1>5. CASE PubJoin
    <2>1. OwnOK'
      <3>1. /\ childPid' \in 0 .. Ffmpegs /\ writeFd' = 0 /\ sender' = "none" /\ service' = FALSE
            /\ control' = "stopped" /\ pubRunning' = pubRunning /\ frame' = frame
        BY <1>0, <1>5, PublisherAssumption DEF PubJoin, SenderJoined, OwnOK
      <3>2. 0 \in 0 .. Ffmpegs
        BY PublisherAssumption
      <3>3. PipeOfChild' /\ SenderConfined'
        BY <3>1 DEF PipeOfChild, SenderConfined
      <3>4. pubRunning \in BOOLEAN /\ frame \in Piece
        BY <1>0 DEF OwnOK
      <3> QED BY <3>1, <3>2, <3>3, <3>4 DEF OwnOK
    <2>2. ffmpeg' \in [Processes -> Child] /\ \A c \in Processes :
             ffmpeg'[c].state \in {"running", "unborn"} => ffmpeg'[c] = ffmpeg[c]
      BY <1>0, <1>5 DEF PubJoin, Is, Child
    <2>3. InStep'
      BY <1>5 DEF PubJoin, InStep, Is, Processes
    <2> QED BY <2>1, <2>2, <2>3, InputKept, PartsNext
  <1> QED BY <1>1, <1>2, <1>3, <1>4, <1>5 DEF ControlStep, PubStart

----------------------------------------------------------------------------
(* The sender thread *)

LEMMA JoinFacts ==
  ASSUME NEW a \in Piece, NEW p \in Seq(Piece), NEW q \in Seq(Piece)
  PROVE  /\ Len(<<a>> \o p) = Len(p) + 1
         /\ Len(<<a>> \o (p \o q)) = Len(p) + 1 + Len(q)
         /\ \A i \in 1 .. Len(p) + 1 : (<<a>> \o (p \o q))[i] = (<<a>> \o p)[i]
         /\ \A i \in 1 .. Len(q) : (<<a>> \o (p \o q))[Len(p) + 1 + i] = q[i]
  <1>1. p \o q \in Seq(Piece) /\ Len(p \o q) = Len(p) + Len(q) /\ Len(p) \in Nat /\ Len(q) \in Nat
    OBVIOUS
  <1>2. Len(<<a>>) = 1 /\ <<a>> \in Seq(Piece)
    OBVIOUS
  <1>3. Len(<<a>> \o p) = Len(p) + 1 /\ Len(<<a>> \o (p \o q)) = Len(p) + 1 + Len(q)
    BY <1>1, <1>2
  <1>4. ASSUME NEW i \in 1 .. Len(p) + 1
        PROVE  (<<a>> \o (p \o q))[i] = (<<a>> \o p)[i]
    <2>1. CASE i = 1
      BY <1>1, <1>2, <2>1
    <2>2. CASE i # 1
      <3>1. i - 1 \in 1 .. Len(p) /\ i > 1
        BY <1>1, <2>2
      <3>2. (<<a>> \o p)[i] = p[i - 1]
        BY <1>1, <1>2, <3>1
      <3>3. (<<a>> \o (p \o q))[i] = (p \o q)[i - 1]
        BY <1>1, <1>2, <3>1
      <3>4. (p \o q)[i - 1] = p[i - 1]
        BY <1>1, <3>1
      <3> QED BY <3>2, <3>3, <3>4
    <2> QED BY <2>1, <2>2
  <1>5. ASSUME NEW i \in 1 .. Len(q)
        PROVE  (<<a>> \o (p \o q))[Len(p) + 1 + i] = q[i]
    <2>1. (<<a>> \o (p \o q))[Len(p) + 1 + i] = (p \o q)[Len(p) + i]
      <3>1. Len(p) + 1 + i \in 1 .. 1 + Len(p \o q) /\ ~(Len(p) + 1 + i <= 1)
            /\ Len(p) + 1 + i - 1 = Len(p) + i
        BY <1>1
      <3> QED BY <1>1, <1>2, <3>1, ConcatProperties
    <2>2. (p \o q)[Len(p) + i] = q[i]
      BY <1>1
    <2> QED BY <2>1, <2>2
  <1> QED BY <1>3, <1>4, <1>5

(* What the sender appends when it writes goes on where the input ends.    *)
LEMMA AppendWhole ==
  ASSUME PubInv, WriteSome, sender = "write", NEW w, w = writeFd
  PROVE  /\ ffmpeg' \in [Processes -> Child] /\ frame' \in Piece
         /\ Whole(w)' /\ LastPiece(w)' = frame'
         /\ \A c \in Processes : c # w => ffmpeg'[c] = ffmpeg[c]
         /\ ffmpeg'[w].state = "running"
         /\ frame'[2] > 0 /\ sender' = IF frame'[2] = PieceCount THEN "loop" ELSE "write"
  <1> DEFINE n == Len(Input(w))
  <1>1. /\ OwnOK /\ ffmpeg \in [Processes -> Child] /\ WholeFrames /\ InStep /\ PubTypeOK
    BY Parts DEF PubInv, PublisherSafe
  <1>2. w \in Processes /\ w \in Is("running") /\ ffmpeg[w] \in Child
    BY <1>1 DEF WriteSome, Is
  <1>3. PICK taken \in 1 .. PieceCount - frame[2] :
           /\ ffmpeg' = [ffmpeg EXCEPT ![w].pipe =
                           @ \o [i \in 1 .. taken |-> <<frame[1], frame[2] + i>>]]
           /\ frame' = <<frame[1], frame[2] + taken>>
           /\ sender' = IF frame[2] + taken = PieceCount THEN "loop" ELSE "write"
    BY DEF WriteSome, Written
  <1> DEFINE new == [i \in 1 .. taken |-> <<frame[1], frame[2] + i>>]
  <1>4. /\ frame[1] \in 0 .. MaxPulled /\ frame[2] \in 0 .. PieceCount
        /\ frame = <<frame[1], frame[2]>>
        /\ PieceCount \in Nat /\ taken \in Nat /\ taken >= 1 /\ frame[2] + taken <= PieceCount
    BY <1>1, <1>3, PublisherAssumption DEF OwnOK, Piece
  <1>5. new \in Seq(Piece) /\ Len(new) = taken /\ \A i \in 1 .. taken : new[i] = <<frame[1], frame[2] + i>>
    <2>1. new \in [1 .. taken -> Piece]
      BY <1>4 DEF Piece
    <2>2. DOMAIN new = 1 .. taken /\ \A i \in 1 .. taken : new[i] = <<frame[1], frame[2] + i>>
      OBVIOUS
    <2>3. new \in Seq(Piece)
      BY <1>4, <2>1, SeqDef, SMTT(30)
    <2> HIDE DEF new
    <2> QED BY <1>4, <2>2, <2>3
  <1>6. ffmpeg[w].pipe \in Seq(Piece) /\ ffmpeg[w].last \in Piece
    BY <1>2 DEF Child
  <1>7. ffmpeg' = [ffmpeg EXCEPT ![w] = [@ EXCEPT !.pipe = ffmpeg[w].pipe \o new]]
    BY <1>1, <1>2, <1>3 DEF Child
  <1>8. ffmpeg' \in [Processes -> Child] /\ ffmpeg'[w].pipe = ffmpeg[w].pipe \o new
        /\ ffmpeg'[w].last = ffmpeg[w].last /\ ffmpeg'[w].state = "running"
    <2>1. ffmpeg[w].pipe \o new \in Seq(Piece)
      BY <1>5, <1>6
    <2> HIDE DEF new
    <2> QED BY <1>1, <1>2, <1>7, <2>1 DEF Child, Is
  <1>9. frame' \in Piece /\ frame'[2] = frame[2] + taken
    BY <1>3, <1>4 DEF Piece
  <1>10. /\ n = Len(ffmpeg[w].pipe) + 1 /\ Len(Input(w)') = n + taken
         /\ \A i \in 1 .. n : Input(w)'[i] = Input(w)[i]
         /\ \A i \in 1 .. taken : Input(w)'[n + i] = <<frame[1], frame[2] + i>>
    <2>1. Input(w)' = <<ffmpeg[w].last>> \o (ffmpeg[w].pipe \o new)
      BY <1>8 DEF Input
    <2> DEFINE a == ffmpeg[w].last
               p == ffmpeg[w].pipe
    <2>2. Input(w) = <<a>> \o p
      BY DEF Input
    <2>3. a \in Piece /\ p \in Seq(Piece) /\ new \in Seq(Piece) /\ Len(new) = taken
      BY <1>5, <1>6
    <2>4. \A i \in 1 .. taken : new[i] = <<frame[1], frame[2] + i>>
      BY <1>5
    <2>5. Input(w)' = <<a>> \o (p \o new)
      BY <2>1
    <2> HIDE DEF new, a, p
    <2>6. /\ Len(<<a>> \o p) = Len(p) + 1
          /\ Len(<<a>> \o (p \o new)) = Len(p) + 1 + Len(new)
          /\ \A i \in 1 .. Len(p) + 1 : (<<a>> \o (p \o new))[i] = (<<a>> \o p)[i]
          /\ \A i \in 1 .. Len(new) : (<<a>> \o (p \o new))[Len(p) + 1 + i] = new[i]
      BY <2>3, JoinFacts
    <2>7. n = Len(p) + 1 /\ Len(Input(w)') = n + taken
      BY <2>2, <2>3, <2>5, <2>6
    <2>8. \A i \in 1 .. n : Input(w)'[i] = Input(w)[i]
      BY <2>2, <2>5, <2>6, <2>7
    <2>9. \A i \in 1 .. taken : Input(w)'[n + i] = <<frame[1], frame[2] + i>>
      BY <2>3, <2>4, <2>5, <2>6, <2>7
    <2> QED BY <2>7, <2>8, <2>9 DEF p
  <1> HIDE DEF new, n
  <1>11. n \in Nat /\ n >= 1
    BY <1>6, <1>10
  <1>12. LastPiece(w)' = frame'
    <2>1. taken \in 1 .. taken
      BY <1>4
    <2>2. Input(w)'[n + taken] = <<frame[1], frame[2] + taken>>
      BY <1>10, <2>1
    <2> QED BY <1>3, <1>10, <2>2 DEF LastPiece
  <1>13. Follows(Input(w)[n], <<frame[1], frame[2] + 1>>)
    BY <1>1, <1>2, <1>4 DEF InStep, Follows, LastPiece, n
  <1>14. \A i \in 1 .. n - 1 : Follows(Input(w)[i], Input(w)[i + 1])
    BY <1>1, <1>2 DEF WholeFrames, Input, Follows, n
  <1>15. Whole(w)'
    <2> SUFFICES ASSUME NEW i \in 1 .. n + taken - 1
                 PROVE  Follows(Input(w)'[i], Input(w)'[i + 1])
      BY <1>10 DEF Whole, Follows
    <2>1. CASE i < n
      <3>1. i \in 1 .. n - 1 /\ i \in 1 .. n /\ i + 1 \in 1 .. n
        BY <1>4, <1>11, <2>1
      <3> QED BY <1>10, <1>14, <3>1
    <2>2. CASE i = n
      <3>1. n \in 1 .. n /\ 1 \in 1 .. taken
        BY <1>4, <1>11
      <3>2. Input(w)'[n] = Input(w)[n] /\ Input(w)'[n + 1] = <<frame[1], frame[2] + 1>>
        BY <1>10, <3>1
      <3> QED BY <1>13, <2>2, <3>2
    <2>3. CASE i > n
      <3>1. PICK j \in 1 .. taken - 1 : i = n + j
        <4>1. i - n \in 1 .. taken - 1 /\ i = n + (i - n)
          BY <1>4, <1>11, <2>3
        <4> QED BY <4>1
      <3>2. j \in 1 .. taken /\ j + 1 \in 1 .. taken /\ i + 1 = n + (j + 1)
        BY <1>4, <1>11, <3>1
      <3>3. Input(w)'[i] = <<frame[1], frame[2] + j>> /\ Input(w)'[i + 1] = <<frame[1], frame[2] + (j + 1)>>
        BY <1>10, <3>1, <3>2
      <3> QED BY <1>4, <3>2, <3>3 DEF Follows
    <2> QED BY <1>4, <1>11, <2>1, <2>2, <2>3
  <1>16. \A c \in Processes : c # w => ffmpeg'[c] = ffmpeg[c]
    BY <1>1, <1>7
  <1> QED BY <1>3, <1>4, <1>8, <1>9, <1>12, <1>15, <1>16, SMTT(30)

LEMMA SenderInv ==
  ASSUME PubInv, SenderStep
  PROVE  PubInv'
  <1>0. /\ OwnOK /\ ffmpeg \in [Processes -> Child] /\ WholeFrames
        /\ \A c \in Is("unborn") : ffmpeg[c] = Unborn
        /\ InStep
    BY Parts
  <1>1. CASE SenderLoop
    <2>1. CASE ~MaySend
      <3>1. OwnOK'
        BY <1>0, <1>1, <2>1 DEF SenderLoop, SenderEnds, OwnOK, PipeOfChild, SenderConfined
      <3>2. InStep'
        BY <1>0, <1>1, <2>1 DEF SenderLoop, SenderEnds, InStep, LastPiece, Input, Is
      <3>3. WholeFrames' /\ \A c \in Is("unborn")' : ffmpeg'[c] = Unborn
        BY <1>0, <1>1, <2>1 DEF SenderLoop, WholeFrames, Is
      <3> QED BY <1>0, <1>1, <2>1, <3>1, <3>2, <3>3, PartsNext DEF SenderLoop
    <2>2. CASE MaySend
      <3>1. /\ ReapChild /\ UNCHANGED <<service, frame, control>>
            /\ sender = "loop" /\ sender' \in {"ended", "pull"} /\ pubRunning' \in BOOLEAN
        BY <1>0, <1>1, <2>2 DEF SenderLoop, SenderEnds, OwnOK
      <3>2. OwnOK'
        BY <1>0, <3>1, ReapFacts DEF OwnOK, PipeOfChild, SenderConfined
      <3>3. writeFd' \in Is("running")' => /\ writeFd' = writeFd /\ writeFd \in Is("running")
                                          /\ LastPiece(writeFd)' = LastPiece(writeFd)
        BY <3>1, ReapFacts, InputKept DEF Is, Processes, LastPiece, Input
      <3>4. InStep'
        BY <1>0, <3>1, <3>3 DEF InStep, LastPiece, Input
      <3> QED BY <3>1, <3>2, <3>4, ReapFacts, InputKept, PartsNext
    <2> QED BY <2>1, <2>2
  <1>2. CASE SenderPull
    <2>1. OwnOK'
      <3>1. frame' \in Piece /\ (sender' = "write" => frame'[2] = 0)
        BY <1>0, <1>2, PublisherAssumption DEF SenderPull, OwnOK, Piece
      <3> QED BY <1>0, <1>2, <3>1, PublisherAssumption DEF SenderPull, OwnOK, PipeOfChild, SenderConfined
    <2>2. InStep'
      <3>1. sender' = "write" => frame'[2] = 0
        BY <1>2 DEF SenderPull
      <3> QED BY <1>0, <1>2, <3>1 DEF SenderPull, InStep, LastPiece, Input, Is
    <2>3. WholeFrames' /\ \A c \in Is("unborn")' : ffmpeg'[c] = Unborn
      BY <1>0, <1>2 DEF SenderPull, WholeFrames, Is
    <2> QED BY <1>0, <1>2, <2>1, <2>2, <2>3, PartsNext DEF SenderPull
  <1>3. CASE SenderWrite /\ WriteSome
    <2>0. sender = "write" /\ UNCHANGED <<pubRunning, service, childPid, writeFd, control>>
          /\ writeFd \in Is("running")
      BY <1>3 DEF SenderWrite, WriteSome
    <2>1. PICK w : w = writeFd
      OBVIOUS
    <2>2. /\ ffmpeg' \in [Processes -> Child] /\ frame' \in Piece
          /\ Whole(w)' /\ LastPiece(w)' = frame'
          /\ \A c \in Processes : c # w => ffmpeg'[c] = ffmpeg[c]
          /\ ffmpeg'[w].state = "running"
          /\ frame'[2] > 0 /\ sender' = IF frame'[2] = PieceCount THEN "loop" ELSE "write"
      BY <1>3, <2>0, <2>1, AppendWhole
    <2>3. OwnOK'
      <3>1. frame'[2] \in 0 .. PieceCount /\ PieceCount \in Nat
        BY <2>2, PublisherAssumption DEF Piece
      <3> QED BY <1>0, <2>0, <2>2, <3>1 DEF OwnOK, PipeOfChild, SenderConfined
    <2>4. InStep'
      BY <2>0, <2>1, <2>2 DEF InStep, LastPiece, Input
    <2>5. WholeFrames'
      <3>1. \A d \in Is("running") : Whole(d)
        BY <1>0 DEF WholeFrames, Whole, Input, Follows
      <3>2. ASSUME NEW d \in Is("running")' PROVE Whole(d)'
        <4>1. CASE d = w
          BY <2>2, <4>1
        <4>2. CASE d # w
          BY <2>2, <3>1, <4>2 DEF Whole, Input, Is
        <4> QED BY <4>1, <4>2
      <3> QED BY <3>2 DEF WholeFrames, Whole, Input, Follows
    <2>6. \A d \in Is("unborn")' : ffmpeg'[d] = Unborn
      BY <1>0, <2>2 DEF Is
    <2> QED BY <2>2, <2>3, <2>4, <2>5, <2>6, PartsNext
  <1>4. CASE /\ sender = "write" /\ writeFd \notin Is("running") /\ SenderEnds
             /\ UNCHANGED <<frame, ffmpeg, service, childPid, writeFd, control>>
    <2>1. OwnOK'
      BY <1>0, <1>4 DEF SenderEnds, OwnOK, PipeOfChild, SenderConfined
    <2>2. InStep' /\ WholeFrames' /\ \A c \in Is("unborn")' : ffmpeg'[c] = Unborn
      BY <1>0, <1>4 DEF InStep, WholeFrames, Is
    <2> QED BY <1>0, <1>4, <2>1, <2>2, PartsNext
  <1> QED BY <1>1, <1>2, <1>3, <1>4 DEF SenderStep, SenderWrite

----------------------------------------------------------------------------
(* The children *)
LEMMA FfmpegInv ==
  ASSUME PubInv, NEW c \in Processes, FfmpegReads(c) \/ FfmpegEnds(c)
  PROVE  PubInv'
  <1>0. /\ OwnOK /\ ffmpeg \in [Processes -> Child] /\ WholeFrames /\ PubTypeOK
        /\ \A d \in Is("unborn") : ffmpeg[d] = Unborn
        /\ InStep
    BY Parts DEF PubInv, PublisherSafe
  <1>1. OwnOK'
    BY <1>0 DEF FfmpegReads, FfmpegEnds, OwnOK, PipeOfChild, SenderConfined
  <1>2. CASE FfmpegEnds(c)
    <2>1. ffmpeg' = [ffmpeg EXCEPT ![c].state = "zombie", ![c].pipe = <<>>]
      BY <1>2 DEF FfmpegEnds
    <2>2. ffmpeg'[c].state = "zombie" /\ \A d \in Processes : d # c => ffmpeg'[d] = ffmpeg[d]
      BY <1>0, <2>1 DEF Child
    <2>3. ffmpeg' \in [Processes -> Child]
      <3>1. <<>> \in Seq(Piece) /\ ffmpeg[c] \in Child
        BY <1>0
      <3>2. [[ffmpeg[c] EXCEPT !.state = "zombie"] EXCEPT !.pipe = <<>>] \in Child
        BY <3>1 DEF Child
      <3> QED BY <1>0, <2>1, <3>2 DEF Child
    <2>4. \A d \in Processes : ffmpeg'[d].state \in {"running", "unborn"} => ffmpeg'[d] = ffmpeg[d]
      BY <2>2
    <2>5. UNCHANGED <<writeFd, sender, frame>>
      BY <1>2 DEF FfmpegEnds
    <2>6. InStep'
      <3>1. PICK w : w = writeFd
        OBVIOUS
      <3> QED BY <1>0, <2>3, <2>4, <2>5, <3>1, InputKept DEF InStep
    <2> QED BY <1>1, <2>3, <2>4, <2>6, InputKept, PartsNext
  <1>3. CASE FfmpegReads(c)
    <2> DEFINE pipe == ffmpeg[c].pipe
    <2>1. /\ ffmpeg[c].state = "running" /\ pipe \in Seq(Piece) /\ pipe # <<>>
          /\ UNCHANGED <<writeFd, sender, frame>>
          /\ ffmpeg' = [ffmpeg EXCEPT ![c].last = Head(pipe), ![c].pipe = Tail(pipe)]
      BY <1>0, <1>3 DEF FfmpegReads, Child
    <2>2. Head(pipe) \in Piece /\ Tail(pipe) \in Seq(Piece)
      BY <2>1
    <2>3. /\ ffmpeg'[c].last = Head(pipe) /\ ffmpeg'[c].pipe = Tail(pipe)
          /\ ffmpeg'[c].state = "running" /\ ffmpeg'[c] \in Child
          /\ \A d \in Processes : d # c => ffmpeg'[d] = ffmpeg[d]
      <3> DEFINE new == [[ffmpeg[c] EXCEPT !.last = Head(pipe)] EXCEPT !.pipe = Tail(pipe)]
      <3>1. ffmpeg[c] \in Child
        BY <1>0
      <3>2. ffmpeg' = [ffmpeg EXCEPT ![c] = new]
        BY <1>0, <2>1, <3>1 DEF Child
      <3>3. new \in Child /\ new.last = Head(pipe) /\ new.pipe = Tail(pipe) /\ new.state = "running"
        BY <2>1, <2>2, <3>1 DEF Child
      <3> HIDE DEF new
      <3> QED BY <1>0, <3>2, <3>3
    <2>4. ffmpeg' \in [Processes -> Child]
      BY <1>0, <2>1, <2>3
    <2>5. Input(c)' = pipe
      <3>1. Input(c)' = <<Head(pipe)>> \o Tail(pipe)
        BY <2>3 DEF Input
      <3> HIDE DEF pipe
      <3> QED BY <2>1, <3>1, HeadTailProperties
    <2>6. /\ Len(Input(c)) = Len(pipe) + 1 /\ Len(pipe) \in Nat /\ Len(pipe) >= 1
          /\ \A i \in 1 .. Len(pipe) : Input(c)[i + 1] = pipe[i]
      BY <1>0, <2>1, InputFacts
    <2>7. LastPiece(c)' = LastPiece(c)
      BY <2>5, <2>6 DEF LastPiece
    <2>8. Whole(c)'
      <3>1. \A i \in 1 .. Len(pipe) : Follows(Input(c)[i], Input(c)[i + 1])
        <4>1. c \in Is("running")
          BY <2>1 DEF Is
        <4>2. \A d \in Is("running") : Whole(d)
          BY <1>0 DEF WholeFrames, Whole, Input, Follows
        <4>3. Len(Input(c)) - 1 = Len(pipe)
          BY <2>6
        <4> QED BY <4>1, <4>2, <4>3 DEF Whole
      <3>2. ASSUME NEW i \in 1 .. Len(pipe) - 1 PROVE Follows(pipe[i], pipe[i + 1])
        <4>1. i \in 1 .. Len(pipe) /\ i + 1 \in 1 .. Len(pipe)
          BY <2>6
        <4> QED BY <2>6, <3>1, <4>1
      <3> QED BY <2>5, <3>2 DEF Whole, Follows
    <2>9. WholeFrames'
      <3>1. \A d \in Is("running") : Whole(d)
        BY <1>0 DEF WholeFrames, Whole, Input, Follows
      <3>2. ASSUME NEW d \in Is("running")' PROVE Whole(d)'
        <4>1. CASE d = c
          BY <2>8, <4>1
        <4>2. CASE d # c
          BY <2>3, <3>1, <4>2 DEF Whole, Input, Is
        <4> QED BY <4>1, <4>2
      <3> QED BY <3>2 DEF WholeFrames, Whole, Input, Follows
    <2>10. \A d \in Is("unborn")' : ffmpeg'[d] = Unborn
      BY <1>0, <2>3 DEF Is
    <2>11. InStep'
      <3>1. PICK w : w = writeFd
        OBVIOUS
      <3>2. w \in Is("running")' => w \in Is("running") /\ LastPiece(w)' = LastPiece(w)
        BY <2>1, <2>3, <2>7 DEF Is, LastPiece, Input
      <3> QED BY <1>0, <2>1, <3>1, <3>2 DEF InStep
    <2> QED BY <1>1, <2>4, <2>9, <2>10, <2>11, PartsNext
  <1> QED BY <1>2, <1>3

LEMMA PubNextInv == PubInv /\ [PubNext]_pubVars => PubInv'
  <1> SUFFICES ASSUME PubInv, [PubNext]_pubVars PROVE PubInv'
    OBVIOUS
  <1>1. CASE UNCHANGED pubVars
    BY <1>1 DEF pubVars, PubInv, PublisherSafe, PubTypeOK, WholeFrames, PipeOfChild,
                SenderConfined, InStep, LastPiece, Input, Is
  <1> QED BY <1>1, ControlInv, SenderInv, FfmpegInv DEF PubNext, FfmpegStep

(* Whenever an ffmpeg dies and however write() splits the frames: what an  *)
(* ffmpeg reads are whole frames, the pipe that is open is its own, and    *)
(* start() never finds a sender thread that was not joined.                *)
THEOREM StreamStaysWhole == PubSpec => []PublisherSafe
  <1>1. PubInv => PublisherSafe
    BY DEF PubInv
  <1> QED BY <1>1, PubInitInv, PubNextInv, PTL DEF PubSpec

----------------------------------------------------------------------------
(* The program around it (MainProgram): the components go up and down in one
   order on every path, and ffmpeg is told what it is given. *)

MainSpec == PubInit /\ MainInit /\ [][MainNext]_mainProgramVars

(* The components go up one on the other.  Level k is the k first of them: *)
(* what is up at it, and what an exit from it has to shut down, in order.  *)
UpAt(k) ==
    CASE k = 0 -> {}
      [] k = 1 -> {"eventBus"}
      [] k = 2 -> {"eventBus", "cameras"}
      [] k = 3 -> {"eventBus", "cameras", "controller"}
      [] k = 4 -> {"eventBus", "cameras", "controller", "mode"}
      [] k = 5 -> Kept
DownFrom(k) ==
    CASE k = 0 -> <<>>
      [] k = 1 -> <<"eventBus">>
      [] k = 2 -> <<"cameras", "eventBus">>
      [] k = 3 -> <<"controller", "cameras", "eventBus">>
      [] k = 4 -> <<"mode", "controller", "cameras", "eventBus">>
      [] k = 5 -> FullShutdown
(* The level main is at before each of its steps, and in its loop.         *)
LevelAt(n) == CASE n \in {0, 1} -> 0 [] n = 2 -> 1 [] n = 3 -> 2
                [] n \in {4, 5} -> 3 [] n \in {6, 7, 8, 9} -> 4 [] n = 10 -> 5

Argued == told = FfmpegArgs(InputFormat(Endpoint), Encoder)

GoingUp ==
    mainAt \in 0 .. LastStep =>
        /\ up = UpAt(LevelAt(mainAt)) /\ todo = <<>>
        /\ control = "stopped" \/ (control = "check" /\ mainAt = LastStep)
Looping ==
    mainAt = InLoop => up = Kept /\ todo = <<>> /\ control = "started"
GoingDown ==
    mainAt = WayOut =>
        \E k \in 0 .. 5 :
            /\ up = UpAt(k) /\ todo = DownFrom(k)
            /\ IF k = 5 THEN control \in {"started", "join"} ELSE control = "stopped"
Gone ==
    mainAt = Exited => up = {} /\ todo = <<>> /\ control = "stopped"

(* Frames reach the stream only when its format is what ffmpeg was told,   *)
(* which is settled before the publisher has a thread.                     *)
Piped ==
    /\ mainAt = 0 => frame[1] = 0
    /\ control # "stopped" => Argued
    /\ frame[1] > 0 => Argued /\ Publishable

MainInv ==
    /\ PubInv
    /\ MainTypeOK
    /\ GoingUp /\ Looping /\ GoingDown /\ Gone
    /\ Piped

----------------------------------------------------------------------------
LEMMA Places ==
  /\ LastStep = 9 /\ InLoop = 10 /\ WayOut = 11 /\ Exited = 12
  /\ Steps[1] = "eventBus" /\ Steps[2] = "cameras" /\ Steps[3] = "controller"
  /\ Steps[4] = "mainStream" /\ Steps[5] = "mode" /\ Steps[6] = "plan"
  /\ Steps[7] = "streamService" /\ Steps[8] = "switch" /\ Steps[9] = "publisher"
  BY DEF LastStep, InLoop, WayOut, Exited, Steps

LEMMA Levels ==
  /\ LevelAt(0) = 0 /\ LevelAt(1) = 0 /\ LevelAt(2) = 1 /\ LevelAt(3) = 2 /\ LevelAt(4) = 3
  /\ LevelAt(5) = 3 /\ LevelAt(6) = 4 /\ LevelAt(7) = 4 /\ LevelAt(8) = 4 /\ LevelAt(9) = 4
  /\ LevelAt(10) = 5
  BY DEF LevelAt

LEMMA Ups ==
  /\ UpAt(0) = {} /\ UpAt(1) = {"eventBus"} /\ UpAt(2) = {"eventBus", "cameras"}
  /\ UpAt(3) = {"eventBus", "cameras", "controller"}
  /\ UpAt(4) = {"eventBus", "cameras", "controller", "mode"}
  /\ UpAt(5) = {"eventBus", "cameras", "controller", "mode", "publisher"}
  BY DEF UpAt, Kept

LEMMA Downs ==
  /\ DownFrom(0) = <<>> /\ DownFrom(1) = <<"eventBus">> /\ DownFrom(2) = <<"cameras", "eventBus">>
  /\ DownFrom(3) = <<"controller", "cameras", "eventBus">>
  /\ DownFrom(4) = <<"mode", "controller", "cameras", "eventBus">>
  /\ DownFrom(5) = <<"publisher", "mode", "controller", "cameras", "eventBus">>
  BY DEF DownFrom, FullShutdown

LEMMA DownOK ==
  ASSUME NEW k \in 0 .. 5
  PROVE  DownFrom(k) \in Seq(Kept)
  <1>0. /\ "eventBus" \in Kept /\ "cameras" \in Kept /\ "controller" \in Kept
        /\ "mode" \in Kept /\ "publisher" \in Kept
    BY DEF Kept
  <1>1. <<>> \in Seq(Kept) /\ <<"eventBus">> \in Seq(Kept) /\ <<"cameras", "eventBus">> \in Seq(Kept)
    BY <1>0
  <1>2. <<"controller", "cameras", "eventBus">> \in Seq(Kept)
    BY <1>0
  <1>3. <<"mode", "controller", "cameras", "eventBus">> \in Seq(Kept)
    BY <1>0
  <1>4. <<"publisher", "mode", "controller", "cameras", "eventBus">> \in Seq(Kept)
    BY <1>0
  <1> QED BY <1>1, <1>2, <1>3, <1>4 DEF DownFrom, FullShutdown

(* Every way down takes down what is up, the last first. *)
LEMMA OneDown ==
  ASSUME NEW k \in 1 .. 5
  PROVE  /\ DownFrom(k) # <<>> /\ Tail(DownFrom(k)) = DownFrom(k - 1)
         /\ UpAt(k) \ {Head(DownFrom(k))} = UpAt(k - 1)
         /\ Head(DownFrom(k)) = "publisher" <=> k = 5
  <1>1. \A j \in 1 .. 5 : DownFrom(j) # <<>>
    <2>1. /\ <<"eventBus">> # <<>> /\ <<"cameras", "eventBus">> # <<>>
          /\ <<"controller", "cameras", "eventBus">> # <<>>
          /\ <<"mode", "controller", "cameras", "eventBus">> # <<>>
          /\ <<"publisher", "mode", "controller", "cameras", "eventBus">> # <<>>
      OBVIOUS
    <2> QED BY <2>1 DEF DownFrom, FullShutdown
  <1>2. /\ Tail(<<"eventBus">>) = <<>> /\ Tail(<<"cameras", "eventBus">>) = <<"eventBus">>
        /\ Tail(<<"controller", "cameras", "eventBus">>) = <<"cameras", "eventBus">>
        /\ Tail(<<"mode", "controller", "cameras", "eventBus">>)
             = <<"controller", "cameras", "eventBus">>
        /\ Tail(<<"publisher", "mode", "controller", "cameras", "eventBus">>)
             = <<"mode", "controller", "cameras", "eventBus">>
    OBVIOUS
  <1>3. Head(DownFrom(1)) = "eventBus" /\ Head(DownFrom(2)) = "cameras"
    BY Downs
  <1>4. Head(DownFrom(3)) = "controller" /\ Head(DownFrom(4)) = "mode"
    BY Downs
  <1>5. Head(DownFrom(5)) = "publisher"
    BY Downs
  <1>6. /\ Tail(DownFrom(1)) = DownFrom(0) /\ Tail(DownFrom(2)) = DownFrom(1)
        /\ Tail(DownFrom(3)) = DownFrom(2) /\ Tail(DownFrom(4)) = DownFrom(3)
        /\ Tail(DownFrom(5)) = DownFrom(4)
    BY <1>2, Downs, Zenon
  <1>7. UpAt(1) \ {"eventBus"} = UpAt(0) /\ UpAt(2) \ {"cameras"} = UpAt(1)
    BY Ups
  <1>8. UpAt(3) \ {"controller"} = UpAt(2)
    BY Ups
  <1>9. UpAt(4) \ {"mode"} = UpAt(3)
    BY Ups
  <1>10. UpAt(5) \ {"publisher"} = UpAt(4)
    BY Ups
  <1>11. k = 1 \/ k = 2 \/ k = 3 \/ k = 4 \/ k = 5
    OBVIOUS
  <1>12. 1 - 1 = 0 /\ 2 - 1 = 1 /\ 3 - 1 = 2 /\ 4 - 1 = 3 /\ 5 - 1 = 4
    OBVIOUS
  <1>13. Tail(DownFrom(k)) = DownFrom(k - 1)
    BY <1>6, <1>11, <1>12
  <1>14. UpAt(k) \ {Head(DownFrom(k))} = UpAt(k - 1)
    BY <1>3, <1>4, <1>5, <1>7, <1>8, <1>9, <1>10, <1>11, <1>12
  <1> QED BY <1>1, <1>3, <1>4, <1>5, <1>11, <1>13, <1>14

(* A failure path shuts down what the steps before it have brought up. *)
LEMMA UnwindIsDown ==
  ASSUME NEW n \in 1 .. LastStep
  PROVE  Unwind(Steps[n]) = DownFrom(LevelAt(n))
  <1>1. CASE n = 1
    BY <1>1, Places, Levels, Downs DEF Unwind
  <1>2. CASE n = 2
    BY <1>2, Places, Levels, Downs DEF Unwind
  <1>3. CASE n = 3
    BY <1>3, Places, Levels, Downs DEF Unwind
  <1>4. CASE n = 4
    BY <1>4, Places, Levels, Downs DEF Unwind
  <1>5. CASE n = 5
    BY <1>5, Places, Levels, Downs DEF Unwind
  <1>6. CASE n = 6
    BY <1>6, Places, Levels, Downs DEF Unwind
  <1>7. CASE n = 7
    BY <1>7, Places, Levels, Downs DEF Unwind
  <1>8. CASE n = 8
    BY <1>8, Places, Levels, Downs DEF Unwind
  <1>9. CASE n = 9
    BY <1>9, Places, Levels, Downs DEF Unwind
  <1> QED BY <1>1, <1>2, <1>3, <1>4, <1>5, <1>6, <1>7, <1>8, <1>9, Places

(* A step that works takes main to the next level or leaves it at its own. *)
LEMMA StepUp ==
  ASSUME NEW n \in 1 .. LastStep - 1
  PROVE  UpAt(LevelAt(n + 1)) = UpAt(LevelAt(n)) \cup ({Steps[n]} \cap Kept)
  <1>1. CASE n = 1
    BY <1>1, Places, Levels, Ups DEF Kept
  <1>2. CASE n = 2
    BY <1>2, Places, Levels, Ups DEF Kept
  <1>3. CASE n = 3
    BY <1>3, Places, Levels, Ups DEF Kept
  <1>4. CASE n = 4
    BY <1>4, Places, Levels, Ups DEF Kept
  <1>5. CASE n = 5
    BY <1>5, Places, Levels, Ups DEF Kept
  <1>6. CASE n = 6
    BY <1>6, Places, Levels, Ups DEF Kept
  <1>7. CASE n = 7
    BY <1>7, Places, Levels, Ups DEF Kept
  <1>8. CASE n = 8
    BY <1>8, Places, Levels, Ups DEF Kept
  <1> QED BY <1>1, <1>2, <1>3, <1>4, <1>5, <1>6, <1>7, <1>8, Places

LEMMA LevelRange ==
  ASSUME NEW n \in 0 .. InLoop
  PROVE  LevelAt(n) \in 0 .. 5 /\ (n <= LastStep => LevelAt(n) \in 0 .. 4)
  <1>0. CASE n = 0
    BY <1>0, Places, Levels
  <1>1. CASE n = 1
    BY <1>1, Places, Levels
  <1>2. CASE n = 2
    BY <1>2, Places, Levels
  <1>3. CASE n = 3
    BY <1>3, Places, Levels
  <1>4. CASE n = 4
    BY <1>4, Places, Levels
  <1>5. CASE n = 5
    BY <1>5, Places, Levels
  <1>6. CASE n = 6
    BY <1>6, Places, Levels
  <1>7. CASE n = 7
    BY <1>7, Places, Levels
  <1>8. CASE n = 8
    BY <1>8, Places, Levels
  <1>9. CASE n = 9
    BY <1>9, Places, Levels
  <1>10. CASE n = 10
    BY <1>10, Places, Levels
  <1> QED BY <1>0, <1>1, <1>2, <1>3, <1>4, <1>5, <1>6, <1>7, <1>8, <1>9, <1>10, Places

----------------------------------------------------------------------------
LEMMA MainInitInv == PubInit /\ MainInit => MainInv
  <1> SUFFICES ASSUME PubInit, MainInit PROVE MainInv
    OBVIOUS
  <1>1. PubInv
    BY PubInitInv
  <1>2. MainTypeOK
    <2>1. <<>> \in Seq(Kept) /\ {} \subseteq Kept
      OBVIOUS
    <2>2. setup.mode = "none"
      BY DEF MainInit, NoSetup
    <2>3. told \in [input : {"none", "Mjpeg", "RawYuyv422", "H264AnnexB"}, filter : BOOLEAN,
                    codec : {"none", "copy", Encoder}]
      <3>1. NoArgs \in [input : {"none", "Mjpeg", "RawYuyv422", "H264AnnexB"}, filter : BOOLEAN,
                        codec : {"none", "copy", Encoder}]
        BY DEF NoArgs
      <3>2. told = NoArgs
        BY DEF MainInit
      <3> QED BY <3>1, <3>2
    <2>4. /\ mainAt = 0 /\ up = {} /\ todo = <<>> /\ exitCode = 0
          /\ gStop \in BOOLEAN /\ fault \in BOOLEAN
      BY DEF MainInit
    <2>5. mainAt \in 0 .. Exited
      BY <2>4, Places
    <2> QED BY <2>1, <2>2, <2>3, <2>4, <2>5, Zenon DEF MainTypeOK
  <1>3. GoingUp /\ Looping /\ GoingDown /\ Gone
    BY Places, Levels, Ups DEF MainInit, PubInit, GoingUp, Looping, GoingDown, Gone
  <1>4. Piped
    BY PublisherAssumption DEF MainInit, PubInit, Piped
  <1> QED BY <1>1, <1>2, <1>3, <1>4 DEF MainInv

(* Only the sender takes frames, and only a control step moves control.    *)
LEMMA OthersKeep ==
  /\ SenderStep => control' = control /\ sender \in {"loop", "pull", "write"}
  /\ FfmpegStep => control' = control /\ frame' = frame
  /\ ControlStep => frame' = frame
  <1>1. SenderStep => control' = control /\ sender \in {"loop", "pull", "write"}
    BY DEF SenderStep, SenderLoop, SenderPull, SenderWrite, WriteSome
  <1>2. FfmpegStep => control' = control /\ frame' = frame
    BY DEF FfmpegStep, FfmpegReads, FfmpegEnds
  <1>3. ControlStep => frame' = frame
    BY DEF ControlStep, PubStart, PubCheck, PubStop, PubJoin
  <1> QED BY <1>1, <1>2, <1>3

LEMMA LaunchInv ==
  ASSUME MainInv, Launch
  PROVE  MainInv'
  <1>1. /\ mainAt = 0 /\ mainAt' = 1 /\ setup'.mode \in ListedModes
        /\ up' = up /\ todo' = todo /\ gStop' = gStop /\ exitCode' = exitCode
        /\ fault' = fault /\ told' = told /\ control' = control /\ frame' = frame
    BY DEF Launch, pubVars
  <1>2. PubInv'
    BY PubNextInv DEF Launch, MainInv
  <1>3. MainTypeOK'
    BY <1>1, Places DEF MainInv, MainTypeOK
  <1>4. GoingUp' /\ Looping' /\ GoingDown' /\ Gone'
    BY <1>1, Places, Levels DEF MainInv, GoingUp, Looping, GoingDown, Gone
  <1>5. control' = "stopped" /\ frame'[1] = 0
    BY <1>1, Places DEF MainInv, GoingUp, Piped
  <1>6. Piped'
    BY <1>1, <1>5 DEF Piped
  <1> QED BY <1>2, <1>3, <1>4, <1>6 DEF MainInv

LEMMA InterruptInv ==
  ASSUME MainInv, Interrupt
  PROVE  MainInv'
  <1>1. /\ mainAt' = mainAt /\ setup' = setup /\ gStop' = TRUE
        /\ up' = up /\ todo' = todo /\ exitCode' = exitCode
        /\ fault' = fault /\ told' = told /\ control' = control /\ frame' = frame
    BY DEF Interrupt, pubVars
  <1>2. PubInv'
    BY PubNextInv DEF Interrupt, MainInv
  <1>3. MainTypeOK'
    BY <1>1 DEF MainInv, MainTypeOK
  <1>4. GoingUp' /\ Looping' /\ GoingDown' /\ Gone'
    BY <1>1 DEF MainInv, GoingUp, Looping, GoingDown, Gone
  <1>5. Piped'
    BY <1>1 DEF MainInv, Piped, Argued, Endpoint, Publishable
  <1> QED BY <1>2, <1>3, <1>4, <1>5 DEF MainInv

(* A failure at a step leaves the levels below it to shut down. *)
LEMMA FailInv ==
  ASSUME MainInv, NEW n \in 1 .. LastStep, mainAt = n, FailAt(Steps[n]), control' = "stopped"
  PROVE  /\ mainAt' \in 0 .. Exited /\ up' \subseteq Kept /\ todo' \in Seq(Kept)
         /\ exitCode' \in {0, 1} /\ mainAt' = WayOut
         /\ GoingUp' /\ Looping' /\ GoingDown' /\ Gone'
  <1>1. n \in 0 .. LastStep /\ n \in 0 .. InLoop /\ n <= LastStep
    BY Places
  <1>2. LevelAt(n) \in 0 .. 4
    BY <1>1, LevelRange
  <1>3. mainAt' = 11 /\ exitCode' = 1 /\ todo' = DownFrom(LevelAt(n)) /\ up' = up
    BY UnwindIsDown, Places DEF FailAt
  <1>4. up = UpAt(LevelAt(n)) /\ up \subseteq Kept
    BY <1>1 DEF MainInv, GoingUp, MainTypeOK
  <1>5. LevelAt(n) \in 0 .. 5 /\ LevelAt(n) # 5
    BY <1>2
  <1>6. todo' \in Seq(Kept)
    BY <1>3, <1>5, DownOK
  <1>7. GoingDown'
    BY <1>3, <1>4, <1>5 DEF GoingDown
  <1>8. GoingUp' /\ Looping' /\ Gone'
    BY <1>3, Places DEF GoingUp, Looping, Gone
  <1> QED BY <1>3, <1>4, <1>6, <1>7, <1>8, Places

LEMMA InitStepInv ==
  ASSUME MainInv, InitStep
  PROVE  MainInv'
  <1>1. /\ mainAt \in 1 .. LastStep - 1 /\ mainAt \in 1 .. LastStep /\ mainAt \in 0 .. LastStep
        /\ setup' = setup /\ gStop' = gStop /\ told' = told /\ UNCHANGED pubVars
        /\ control' = control /\ frame' = frame
    BY Places DEF InitStep, pubVars
  <1>2. control = "stopped" /\ todo = <<>> /\ up = UpAt(LevelAt(mainAt))
    BY <1>1, Places DEF MainInv, GoingUp
  <1>3. PubInv'
    BY <1>1, PubNextInv DEF MainInv
  <1>4. Piped'
    BY <1>1, Places DEF MainInv, Piped, Argued, Endpoint, Publishable, InitStep, FailAt
  <1>5. CASE FailAt(Steps[mainAt]) /\ fault' = Works(Steps[mainAt])
    <2>1. /\ mainAt' \in 0 .. Exited /\ up' \subseteq Kept /\ todo' \in Seq(Kept)
          /\ exitCode' \in {0, 1}
          /\ GoingUp' /\ Looping' /\ GoingDown' /\ Gone'
      BY <1>1, <1>2, <1>5, FailInv
    <2>2. fault' \in BOOLEAN
      BY <1>5 DEF Works
    <2>3. MainTypeOK'
      BY <1>1, <2>1, <2>2 DEF MainInv, MainTypeOK
    <2> QED BY <1>3, <1>4, <2>1, <2>3 DEF MainInv
  <1>6. CASE /\ mainAt' = mainAt + 1 /\ up' = up \cup ({Steps[mainAt]} \cap Kept)
             /\ UNCHANGED <<todo, exitCode, fault>>
    <2>1. up' = UpAt(LevelAt(mainAt'))
      BY <1>1, <1>2, <1>6, StepUp
    <2>2. mainAt' \in 2 .. 9
      BY <1>1, <1>6, Places
    <2>3. MainTypeOK'
      BY <1>1, <1>6, <2>2, Places DEF MainInv, MainTypeOK
    <2>4. GoingUp' /\ Looping' /\ GoingDown' /\ Gone'
      BY <1>1, <1>2, <1>6, <2>1, <2>2, Places DEF GoingUp, Looping, GoingDown, Gone
    <2> QED BY <1>3, <1>4, <2>3, <2>4 DEF MainInv
  <1> QED BY <1>5, <1>6 DEF InitStep

LEMMA StartPublisherInv ==
  ASSUME MainInv, StartPublisher
  PROVE  MainInv'
  <1>1. /\ mainAt = 9 /\ mainAt = LastStep /\ LastStep \in 1 .. LastStep
        /\ Steps[LastStep] = "publisher" /\ LastStep \in 0 .. LastStep
        /\ setup' = setup /\ gStop' = gStop /\ gStop \in BOOLEAN
        /\ setup.mode \in ListedModes \cup {"none"}
    BY Places DEF StartPublisher, MainInv, MainTypeOK
  <1>2. /\ todo = <<>> /\ up = UpAt(4) /\ up \subseteq Kept /\ todo \in Seq(Kept)
        /\ exitCode \in {0, 1} /\ fault \in BOOLEAN
    BY <1>1, Levels DEF MainInv, GoingUp, MainTypeOK
  <1>3. ControlStep
    BY DEF StartPublisher, ControlStep
  <1>4. PubInv' /\ frame' = frame
    BY <1>3, PubNextInv, OthersKeep DEF MainInv, PubNext
  <1>5. Piped' /\ told' \in [input : {"none", "Mjpeg", "RawYuyv422", "H264AnnexB"},
                             filter : BOOLEAN, codec : {"none", "copy", Encoder}]
    <2>1. told' = told \/ told' = FfmpegArgs(InputFormat(Endpoint), Encoder)
      BY DEF StartPublisher
    <2>2. CASE told' = FfmpegArgs(InputFormat(Endpoint), Encoder)
      <3>1. InputFormat(Endpoint) \in {"Mjpeg", "RawYuyv422"}
        BY DEF InputFormat
      <3>2. Argued'
        BY <1>1, <2>2 DEF Argued, Endpoint
      <3>3. frame'[1] > 0 => Publishable'
        BY <1>1, <1>4 DEF MainInv, Piped, Publishable, Endpoint
      <3>4. mainAt' # 0
        BY <1>1, Places DEF StartPublisher, FailAt
      <3> QED BY <2>2, <3>1, <3>2, <3>3, <3>4 DEF Piped, FfmpegArgs
    <2>3. CASE told' = told /\ PubCheck
      <3>1. control = "check" /\ mainAt' # 0
        BY <1>1, <2>3, Places DEF PubCheck, StartPublisher, FailAt
      <3>2. Argued
        BY <3>1 DEF MainInv, Piped
      <3>3. Argued'
        BY <1>1, <2>3, <3>2 DEF Argued, Endpoint
      <3>4. frame'[1] > 0 => Publishable'
        BY <1>1, <1>4 DEF MainInv, Piped, Publishable, Endpoint
      <3> QED BY <2>3, <3>1, <3>3, <3>4 DEF MainInv, MainTypeOK, Piped
    <2> QED BY <2>1, <2>2, <2>3 DEF StartPublisher
  <1>6. CASE FailAt("publisher") /\ fault' = TRUE /\ control' = "stopped"
    <2>1. /\ mainAt' \in 0 .. Exited /\ up' \subseteq Kept /\ todo' \in Seq(Kept)
          /\ exitCode' \in {0, 1}
          /\ GoingUp' /\ Looping' /\ GoingDown' /\ Gone'
      BY <1>1, <1>6, FailInv
    <2>2. MainTypeOK'
      BY <1>1, <1>5, <1>6, <2>1 DEF MainTypeOK
    <2> QED BY <1>4, <1>5, <2>1, <2>2 DEF MainInv
  <1>7. CASE control' = "check" /\ UNCHANGED <<mainAt, up, todo, exitCode, fault>>
    <2>1. MainTypeOK'
      BY <1>1, <1>2, <1>5, <1>7, Places DEF MainTypeOK
    <2>2. GoingUp' /\ Looping' /\ GoingDown' /\ Gone'
      BY <1>1, <1>2, <1>7, Places, Levels DEF GoingUp, Looping, GoingDown, Gone
    <2> QED BY <1>4, <1>5, <2>1, <2>2 DEF MainInv
  <1>8. CASE /\ control' = "started" /\ mainAt' = InLoop /\ up' = up \cup {"publisher"}
             /\ UNCHANGED <<todo, exitCode, fault>>
    <2>1. up' = Kept
      BY <1>2, <1>8, Ups DEF Kept
    <2>2. MainTypeOK'
      BY <1>1, <1>2, <1>5, <1>8, <2>1, Places DEF MainTypeOK
    <2>3. GoingUp' /\ Looping' /\ GoingDown' /\ Gone'
      BY <1>2, <1>8, <2>1, Places DEF GoingUp, Looping, GoingDown, Gone
    <2> QED BY <1>4, <1>5, <2>2, <2>3 DEF MainInv
  <1>9. control' \in {"stopped", "check", "started"}
    <2>1. control \in {"stopped", "check"}
      BY <1>1 DEF MainInv, GoingUp
    <2> QED BY <2>1 DEF StartPublisher, PubStart, PubCheck
  <1> QED BY <1>6, <1>7, <1>8, <1>9 DEF StartPublisher, PubStart, PubCheck

LEMMA MainLoopInv ==
  ASSUME MainInv, MainLoop
  PROVE  MainInv'
  <1>1. /\ mainAt = InLoop /\ mainAt' = WayOut /\ todo' = FullShutdown
        /\ setup' = setup /\ gStop' = gStop /\ told' = told /\ UNCHANGED pubVars
        /\ control' = control /\ frame' = frame /\ up' = up /\ exitCode' = exitCode
        /\ fault' = fault
    BY DEF MainLoop, pubVars
  <1>2. PubInv'
    BY <1>1, PubNextInv DEF MainInv
  <1>3. up' = UpAt(5) /\ todo' = DownFrom(5) /\ control' = "started"
    BY <1>1 DEF MainInv, Looping, UpAt, DownFrom
  <1>4. todo' \in Seq(Kept)
    BY <1>3, DownOK
  <1>5. MainTypeOK'
    BY <1>1, <1>4, Places DEF MainInv, MainTypeOK
  <1>6. GoingUp' /\ Looping' /\ GoingDown' /\ Gone'
    BY <1>1, <1>3, Places DEF GoingUp, Looping, GoingDown, Gone
  <1>7. Piped'
    BY <1>1, Places DEF MainInv, Piped, Argued, Endpoint, Publishable
  <1> QED BY <1>2, <1>5, <1>6, <1>7 DEF MainInv

LEMMA ShutDownInv ==
  ASSUME MainInv, ShutDownNext
  PROVE  MainInv'
  <1>1. /\ mainAt = 11 /\ setup' = setup /\ gStop' = gStop /\ exitCode' = exitCode
        /\ fault' = fault /\ told' = told
    BY Places DEF ShutDownNext
  <1>2. PICK k \in 0 .. 5 :
            /\ up = UpAt(k) /\ todo = DownFrom(k)
            /\ IF k = 5 THEN control \in {"started", "join"} ELSE control = "stopped"
    BY <1>1, Places DEF MainInv, GoingDown
  <1>3. ControlStep \/ UNCHANGED pubVars
    BY DEF ShutDownNext, ControlStep
  <1>4. PubInv' /\ frame' = frame
    BY <1>3, PubNextInv, OthersKeep DEF MainInv, PubNext, pubVars
  <1>5. (control' # "stopped" => control # "stopped") /\ mainAt' # 0
    BY <1>1, Places DEF ShutDownNext, PubStop, PubJoin, pubVars
  <1>6. Piped'
    BY <1>1, <1>4, <1>5 DEF MainInv, Piped, Argued, Endpoint, Publishable
  <1>7. mainAt' \in 0 .. Exited /\ up' \subseteq Kept
    BY <1>1, Places DEF MainInv, MainTypeOK, ShutDownNext
  <1>8. SUFFICES todo' \in Seq(Kept) /\ GoingUp' /\ Looping' /\ GoingDown' /\ Gone'
    BY <1>1, <1>4, <1>6, <1>7 DEF MainInv, MainTypeOK
  <1>9. CASE todo = <<>>
    <2>1. k = 0
      <3>1. k \in 1 .. 5 => DownFrom(k) # <<>>
        BY OneDown
      <3> QED BY <1>2, <1>9, <3>1
    <2>2. mainAt' = 12 /\ up' = up /\ todo' = todo /\ control' = control
      BY <1>1, <1>9, Places DEF ShutDownNext, pubVars
    <2> QED BY <1>2, <1>9, <2>1, <2>2, Places, Ups DEF GoingUp, Looping, GoingDown, Gone
  <1>10. CASE todo # <<>>
    <2>1. k \in 1 .. 5
      BY <1>2, <1>10, Downs
    <2>2. mainAt' = 11
      BY <1>1, <1>10 DEF ShutDownNext
    <2>3. GoingUp' /\ Looping' /\ Gone'
      BY <2>2, Places DEF GoingUp, Looping, Gone
    <2>4. /\ Tail(DownFrom(k)) = DownFrom(k - 1)
          /\ UpAt(k) \ {Head(DownFrom(k))} = UpAt(k - 1)
          /\ Head(DownFrom(k)) = "publisher" <=> k = 5
      BY <2>1, OneDown
    <2>5. CASE UNCHANGED <<up, todo>>
      <3>1. PubStop /\ Head(todo) = "publisher"
        BY <1>10, <2>5, <1>2, <2>1, <2>4, Ups DEF ShutDownNext
      <3>2. k = 5 /\ control' = "join"
        BY <1>2, <2>4, <3>1 DEF PubStop
      <3> QED BY <1>2, <2>2, <2>3, <2>5, <3>2, DownOK DEF GoingDown
    <2>6. CASE up' = up \ {Head(todo)} /\ todo' = Tail(todo) /\ control' = "stopped"
      <3>1. up' = UpAt(k - 1) /\ todo' = DownFrom(k - 1) /\ k - 1 \in 0 .. 5 /\ k - 1 # 5
        BY <1>2, <2>1, <2>4, <2>6
      <3>2. todo' \in Seq(Kept)
        BY <3>1, DownOK
      <3> QED BY <2>2, <2>3, <2>6, <3>1, <3>2 DEF GoingDown
    <2> QED BY <1>2, <1>10, <2>4, <2>5, <2>6 DEF ShutDownNext, PubJoin, pubVars
  <1> QED BY <1>9, <1>10

LEMMA PublishingInv ==
  ASSUME MainInv, Publishing
  PROVE  MainInv'
  <1>1. /\ mainAt' = mainAt /\ setup' = setup /\ gStop' = gStop
        /\ up' = up /\ todo' = todo /\ exitCode' = exitCode
        /\ fault' = fault /\ told' = told
    BY DEF Publishing, mainVars
  <1>2. PubInv' /\ control' = control
    BY PubNextInv, OthersKeep DEF Publishing, MainInv, PubNext
  <1>3. MainTypeOK'
    BY <1>1 DEF MainInv, MainTypeOK
  <1>4. GoingUp' /\ Looping' /\ GoingDown' /\ Gone'
    BY <1>1, <1>2 DEF MainInv, GoingUp, Looping, GoingDown, Gone
  <1>5. frame' = frame \/ (control # "stopped" /\ (frame'[1] # frame[1] => Publishable))
    BY OthersKeep DEF Publishing, MainInv, PubInv, PublisherSafe, SenderConfined
  <1>6. mainAt = 0 => control = "stopped"
    BY Places DEF MainInv, GoingUp
  <1>7. Piped'
    BY <1>1, <1>2, <1>5, <1>6 DEF MainInv, Piped, Argued, Endpoint, Publishable
  <1> QED BY <1>2, <1>3, <1>4, <1>7 DEF MainInv

LEMMA MainNextInv == MainInv /\ [MainNext]_mainProgramVars => MainInv'
  <1> SUFFICES ASSUME MainInv, [MainNext]_mainProgramVars PROVE MainInv'
    OBVIOUS
  <1>1. CASE UNCHANGED mainProgramVars
    <2>1. PubInv'
      BY <1>1, PubNextInv DEF MainInv, mainProgramVars
    <2>2. MainTypeOK' /\ Looping' /\ GoingDown' /\ Gone' /\ GoingUp'
      BY <1>1 DEF mainProgramVars, mainVars, pubVars, MainInv, MainTypeOK, Looping, GoingDown, Gone, GoingUp
    <2>3. Piped'
      BY <1>1 DEF mainProgramVars, mainVars, pubVars, MainInv, Piped, Argued, Endpoint, Publishable
    <2> QED BY <2>1, <2>2, <2>3 DEF MainInv
  <1> QED BY <1>1, LaunchInv, InterruptInv, InitStepInv, StartPublisherInv, MainLoopInv,
             ShutDownInv, PublishingInv DEF MainNext, MainStep

----------------------------------------------------------------------------
(* A component is down before any it uses: every level holds what its      *)
(* members use.                                                            *)
LEMMA LevelsClosed ==
  ASSUME NEW k \in 0 .. 5, up = UpAt(k)
  PROVE  UsedAreUp
  <1>1. CASE k = 0
    BY <1>1, Ups DEF UsedAreUp
  <1>2. CASE k = 1
    BY <1>2, Ups DEF UsedAreUp
  <1>3. CASE k = 2
    BY <1>3, Ups DEF UsedAreUp
  <1>4. CASE k = 3
    BY <1>4, Ups DEF UsedAreUp
  <1>5. CASE k = 4
    BY <1>5, Ups DEF UsedAreUp
  <1>6. CASE k = 5
    BY <1>6, Ups DEF UsedAreUp
  <1> QED BY <1>1, <1>2, <1>3, <1>4, <1>5, <1>6

LEMMA MainInvSafe == MainInv => MainSafe
  <1> SUFFICES ASSUME MainInv PROVE MainSafe
    OBVIOUS
  <1>1. NothingLeftUp
    <2>1. mainAt = Exited => up = {} /\ control = "stopped"
      BY DEF MainInv, Gone
    <2>2. control = "stopped" => sender = "none" /\ writeFd = 0
      BY DEF MainInv, PubInv, PublisherSafe, SenderConfined, PipeOfChild
    <2> QED BY <2>1, <2>2 DEF NothingLeftUp
  <1>2. \E k \in 0 .. 5 : up = UpAt(k)
    <2>1. CASE mainAt \in 0 .. LastStep
      <3>1. mainAt \in 0 .. InLoop
        BY <2>1, Places
      <3> QED BY <2>1, <3>1, LevelRange DEF MainInv, GoingUp
    <2>2. CASE mainAt = InLoop
      BY <2>2 DEF MainInv, Looping, UpAt
    <2>3. CASE mainAt = WayOut
      BY <2>3 DEF MainInv, GoingDown
    <2>4. CASE mainAt = Exited
      <3>1. up = UpAt(0) /\ 0 \in 0 .. 5
        BY <2>4, Ups DEF MainInv, Gone
      <3> QED BY <3>1
    <2> QED BY <2>1, <2>2, <2>3, <2>4, Places DEF MainInv, MainTypeOK
  <1>3. UsedAreUp
    BY <1>2, LevelsClosed
  <1> QED BY <1>1, <1>3 DEF MainInv, MainSafe

LEMMA MainInvTold == MainInv => ToldWhatIsPushed
  <1> SUFFICES ASSUME MainInv, frame[1] > 0 PROVE CaptureFormat(Endpoint) = {told.input}
    BY DEF ToldWhatIsPushed
  <1>1. Argued /\ CaptureFormat(Endpoint) = {"Mjpeg"}
    BY DEF MainInv, Piped, Publishable
  <1>2. told.input = InputFormat(Endpoint)
    BY <1>1 DEF Argued, FfmpegArgs
  <1>3. InputFormat(Endpoint) = "Mjpeg"
    <2>1. Endpoint \in {"yuyv", "YUYV", "yuyv422", "YUYV422"} => CaptureFormat(Endpoint) = {"RawYuyv422"}
      BY DEF CaptureFormat
    <2> QED BY <1>1, <2>1 DEF InputFormat
  <1> QED BY <1>1, <1>2, <1>3

(* main() (src/src/main.cpp): whichever step of the start fails, and       *)
(* whenever the end comes, the components go down in the reverse of their  *)
(* order, none before one that uses it, and at the exit nothing is left    *)
(* up, no sender thread and no open pipe.                                  *)
THEOREM DownInReverse == MainSpec => []MainSafe
  <1> QED BY MainInitInv, MainNextInv, MainInvSafe, PTL DEF MainSpec

(* buildFfmpegArgs and publishFrame: for every camera format the           *)
(* configuration may name, what ffmpeg is told is what it is given.        *)
THEOREM FfmpegIsTold == MainSpec => []ToldWhatIsPushed
  <1> QED BY MainInitInv, MainNextInv, MainInvTold, PTL DEF MainSpec
=============================================================================
