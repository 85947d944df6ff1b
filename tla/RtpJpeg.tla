------------------------------ MODULE RtpJpeg ------------------------------
(***************************************************************************)
(* protocol/rtsp/RtspServer: how one MJPEG frame becomes RTP packets.      *)
(* parseJpegForRtp walks over the markers of the picture, one per step     *)
(* here, and sendMjpegRtpFrame cuts the scan into packets.  Positions      *)
(* count from 1.                                                           *)
(***************************************************************************)
EXTENDS Naturals, Sequences, FiniteSetsExt, SequencesExt

CONSTANTS TableSize,    (* bytes of a quantisation table (64)              *)
          MaxPacket,    (* bytes of a packet (1400)                        *)
          SeqModulus,   (* RTP sequence numbers wrap at 2^16               *)
          OffsetModulus,  (* and the offset in a header at 2^24            *)
          Scans,        (* scan data a picture may have                    *)
          Cuts          (* bytes that may be missing at a picture's end    *)

Octet == 0 .. 255
SOI == 216
EOI == 217
DQT == 219
SOF0 == 192
SOF2 == 194
SOS == 218
Mark == 255
Standalone == {1} \cup 208 .. 215

ASSUME RtpAssumption ==
    /\ TableSize \in 1 .. 64 /\ MaxPacket \in Nat
    /\ SeqModulus \in Nat \ {0} /\ OffsetModulus \in Nat \ {0}
    /\ Cuts \subseteq Nat
    /\ \A s \in Scans : /\ s \in Seq(Octet)   \* a scan holds no end marker
                        /\ \A i \in 1 .. Len(s) - 1 : s[i] = Mark => s[i + 1] # EOI

VARIABLES
    picture,    (* the picture that was encoded                            *)
    jpeg,       (* the bytes of the frame                                  *)
    jpegPhase,  (* where the code is                                       *)
    jpegPos,    (* pos                                                     *)
    info,       (* JpegRtpInfo                                             *)
    touched,    (* history: the highest position read                      *)
    rtpSeq,     (* rtpSeq                                                  *)
    sentScan,   (* offset: scan bytes sent                                 *)
    packets     (* history: the packets sent                               *)

rtpVars == <<picture, jpeg, jpegPhase, jpegPos, info, touched, rtpSeq, sentScan, packets>>

----------------------------------------------------------------------------
(* The pictures a camera may send (external): segments, scan and end.      *)
Segment(marker, data) ==
    <<Mark, marker, (Len(data) + 2) \div 256, (Len(data) + 2) % 256>> \o data
Table(precision, value) == <<precision * 16>> \o [i \in 1 .. TableSize |-> value]
FrameHeader(s) ==
    IF s.marker = 0 THEN <<>>
    ELSE Segment(s.marker, <<s.precision, s.height \div 256, s.height % 256,
                             s.width \div 256, s.width % 256, s.components>>
                           \o IF s.components = 1 THEN <<1, 17, 0>>
                              ELSE <<1, s.sampling, 0, 2, 17, 1, 3, 17, 1>>)
Sof(marker, precision, height, width, components, sampling) ==
    [marker |-> marker, precision |-> precision, height |-> height, width |-> width,
     components |-> components, sampling |-> sampling]
Sofs == {Sof(SOF0, 8, 600, 800, 3, 34), Sof(SOF0, 8, 272, 16, 3, 33), Sof(SOF0, 8, 20, 2056, 1, 17),
         Sof(SOF0, 12, 16, 16, 3, 34), Sof(SOF0, 8, 0, 16, 3, 34),
         Sof(SOF2, 8, 16, 16, 3, 34), Sof(0, 8, 16, 16, 3, 34)}
Quantisations ==   \* what the DQT segments hold: precision and value of each table
    {<<>>, << <<0, 7>> >>, << <<0, 7>>, <<0, 255>> >>, << <<1, 7>> >>}
Pictures == [fill : {<<>>, <<0, Mark>>, <<Mark, 1>>}, tables : Quantisations, joined : BOOLEAN,
             sof : Sofs, scan : Scans, ended : BOOLEAN, cut : Cuts]

Tables(p) == [i \in 1 .. Len(p.tables) |-> Table(p.tables[i][1], p.tables[i][2])]
Quantisation(p) ==
    IF p.joined THEN Segment(DQT, FlattenSeq(Tables(p)))
    ELSE FlattenSeq([i \in 1 .. Len(p.tables) |-> Segment(DQT, Tables(p)[i])])
Whole(p) == <<Mark, SOI>> \o Quantisation(p) \o p.fill \o FrameHeader(p.sof)
            \o Segment(SOS, <<0>>) \o p.scan \o IF p.ended THEN <<Mark, EOI>> ELSE <<>>
Encoded(p) == SubSeq(Whole(p), 1, Len(Whole(p)) - p.cut)

----------------------------------------------------------------------------
(* parseJpegForRtp *)
Size == Len(jpeg)
Byte(i) == IF i \in 1 .. Size THEN jpeg[i] ELSE 0
First(S) == Min(S \cup {Size + 1})

NewInfo == [width |-> 800, height |-> 600, type |-> 1, tables |-> <<>>, scan |-> <<0, 0>>]

RtpInit ==
    /\ picture = <<>> /\ jpeg = <<>> /\ jpegPhase = "idle" /\ jpegPos = 0
    /\ info = NewInfo /\ touched = 0
    /\ rtpSeq = 0 /\ sentScan = 0 /\ packets = <<>>

(* A frame that is too short or does not begin like a picture is skipped.  *)
NewFrame(p, seq) ==
    /\ jpegPhase = "idle"
    /\ picture' = p /\ jpeg' = Encoded(p) /\ rtpSeq' = seq
    /\ jpegPos' = 3 /\ touched' = IF Len(Encoded(p)) < 16 THEN 0 ELSE 2
    /\ jpegPhase' = IF Len(Encoded(p)) < 16 THEN "rejected" ELSE "parse"
    /\ UNCHANGED <<info, sentScan, packets>>

(* The segment at `at' must lie within the frame. *)
SegmentLength(at) == 256 * Byte(at) + Byte(at + 1)
HasLength(at) == at + 1 <= Size
Fits(at) == HasLength(at) /\ SegmentLength(at) >= 2 /\ at - 1 + SegmentLength(at) <= Size

(* Whole tables of 8 bits each fill a DQT segment. *)
TablesOf(at, length) ==
    {t \in 0 .. length : t * (TableSize + 1) < length}
GoodTables(at, length) ==
    /\ length % (TableSize + 1) = 0
    /\ \A t \in TablesOf(at, length) : Byte(at + t * (TableSize + 1)) \div 16 = 0
TableBytes(at, length) ==
    FlattenSeq([t \in 1 .. length \div (TableSize + 1) |->
                  [i \in 1 .. TableSize |-> Byte(at + (t - 1) * (TableSize + 1) + i)]])

GoodFrameHeader(at, length) == length >= 8 /\ Byte(at) = 8
WithFrameHeader(at, length) ==
    [info EXCEPT
       !.height = 256 * Byte(at + 1) + Byte(at + 2),
       !.width  = 256 * Byte(at + 3) + Byte(at + 4),
       !.type   = IF Byte(at + 5) >= 3 /\ length >= 15
                    THEN IF Byte(at + 7) = 34 THEN 0 ELSE 1
                    ELSE @]

(* The scan goes up to the end marker, or to the end of the frame. *)
EndMarkers(from) == {i \in from .. Size - 1 : Byte(i) = Mark /\ Byte(i + 1) = EOI}
ScanEnd(from) == First(EndMarkers(from)) - 1
Searched(from) ==
    IF EndMarkers(from) # {} THEN ScanEnd(from) + 2 ELSE IF from < Size THEN Size ELSE 0
GoodScan(scan) == /\ scan[1] > 0 /\ scan[1] <= Size /\ scan[2] >= scan[1]
                  /\ info.width > 0 /\ info.height > 0

ParseEnds(scan) ==
    /\ info' = [info EXCEPT !.scan = scan]
    /\ jpegPhase' = IF GoodScan(scan) THEN "send" ELSE "rejected"
    /\ UNCHANGED jpegPos

ParseSegment(marker, at) ==
    LET next   == at + SegmentLength(at)
        data   == at + 2
        length == SegmentLength(at) - 2
        reject == jpegPhase' = "rejected" /\ UNCHANGED <<info, jpegPos>>
        goOn   == jpegPos' = next /\ UNCHANGED jpegPhase
        reads  == IF ~HasLength(at) THEN at - 1
                  ELSE IF Fits(at) /\ marker \in {DQT, SOF0} /\ length > 0 THEN next - 1
                  ELSE IF Fits(at) /\ marker = SOS THEN Max({at + 1, Searched(next)})
                  ELSE at + 1
    IN  /\ touched' = Max({touched, reads})
        /\ \/ ~Fits(at) /\ reject
           \/ /\ Fits(at) /\ marker = DQT
              /\ IF GoodTables(data, length)
                   THEN goOn /\ info' = [info EXCEPT !.tables = @ \o TableBytes(data, length)]
                   ELSE reject
           \/ /\ Fits(at) /\ marker = SOF0
              /\ IF GoodFrameHeader(data, length)
                   THEN goOn /\ info' = WithFrameHeader(data, length)
                   ELSE reject
           \/ Fits(at) /\ marker = SOS /\ ParseEnds(<<next, ScanEnd(next)>>)
           \/ Fits(at) /\ marker \notin {DQT, SOF0, SOS} /\ goOn /\ UNCHANGED info

(* One turn of the loop: look for a marker, skip what fills the gaps.      *)
Parse ==
    LET at == First({i \in jpegPos .. Size : Byte(i) # Mark})
    IN  /\ jpegPhase = "parse"
        /\ \/ /\ jpegPos + 3 > Size
              /\ ParseEnds(<<0, 0>>) /\ UNCHANGED touched
           \/ /\ jpegPos + 3 <= Size /\ Byte(jpegPos) # Mark
              /\ jpegPos' = jpegPos + 1 /\ touched' = Max({touched, jpegPos})
              /\ UNCHANGED <<info, jpegPhase>>
           \/ /\ jpegPos + 3 <= Size /\ Byte(jpegPos) = Mark
              /\ \/ /\ at > Size
                    /\ ParseEnds(<<0, 0>>) /\ touched' = Max({touched, at - 1})
                 \/ /\ at <= Size /\ Byte(at) = EOI
                    /\ ParseEnds(<<0, 0>>) /\ touched' = Max({touched, at})
                 \/ /\ at <= Size /\ Byte(at) \in Standalone
                    /\ jpegPos' = at + 1 /\ touched' = Max({touched, at})
                    /\ UNCHANGED <<info, jpegPhase>>
                 \/ /\ at <= Size /\ Byte(at) \notin Standalone \cup {EOI}
                    /\ ParseSegment(Byte(at), at + 1)
        /\ UNCHANGED <<picture, jpeg, rtpSeq, sentScan, packets>>

----------------------------------------------------------------------------
(* sendMjpegRtpFrame: one packet per step.  Of its headers all is kept but *)
(* what is the same in every packet of a frame (version, timestamp, SSRC). *)
ScanSize == info.scan[2] - info.scan[1] + 1
HasTables == packets = <<>> /\ info.tables # <<>>
HeaderLen == 12 + 8 + IF HasTables THEN 4 + Len(info.tables) ELSE 0
ChunkMutant == Min({ScanSize - sentScan, MaxPacket - 20})
Chunk == Min({ScanSize - sentScan, MaxPacket - HeaderLen})
IsLast == sentScan + Chunk >= ScanSize

(* A header that does not fit ends the connection. *)
SendPacket ==
    /\ jpegPhase = "send"
    /\ IF HeaderLen >= MaxPacket
         THEN jpegPhase' = "failed" /\ UNCHANGED <<rtpSeq, sentScan, packets>>
         ELSE /\ packets' = Append(packets,
                    [seq |-> rtpSeq, marker |-> IsLast,
                     offset |-> sentScan % OffsetModulus, type |-> info.type,
                     q |-> IF HasTables THEN 128 ELSE 75,
                     width |-> (info.width \div 8) % 256, height |-> (info.height \div 8) % 256,
                     tables |-> IF HasTables THEN info.tables ELSE <<>>,
                     size |-> HeaderLen + Chunk,
                     data |-> SubSeq(jpeg, info.scan[1] + sentScan,
                                     info.scan[1] + sentScan + Chunk - 1)])
              /\ rtpSeq' = (rtpSeq + 1) % SeqModulus
              /\ sentScan' = sentScan + Chunk
              /\ jpegPhase' = IF IsLast THEN "sent" ELSE "send"
    /\ touched' = IF HeaderLen >= MaxPacket THEN touched
                  ELSE Max({touched, info.scan[1] + sentScan + Chunk - 1})
    /\ UNCHANGED <<picture, jpeg, jpegPos, info>>

RtpNext ==
    \/ \E p \in Pictures, seq \in {0, SeqModulus - 1} : NewFrame(p, seq)
    \/ Parse \/ SendPacket

----------------------------------------------------------------------------
RtpTypeOK ==
    /\ jpegPhase \in {"idle", "parse", "send", "sent", "failed", "rejected"}
    /\ jpegPos \in Nat /\ touched \in Nat /\ sentScan \in Nat
    /\ rtpSeq \in 0 .. SeqModulus - 1
    /\ jpeg \in Seq(Octet)

(* Whatever the camera sends, no byte outside the frame is read or sent.   *)
ReadsInFrame == touched <= Size

(* A complete baseline picture is taken for what it is: it is not skipped, *)
(* and its tables, size and scan are found.  (Not its sampling: the types  *)
(* are the code's own, the other way round than in RFC 2435.)              *)
Baseline(p) ==
    /\ p.cut = 0 /\ p.scan # <<>>
    /\ p.sof.marker = SOF0 /\ p.sof.precision = 8 /\ p.sof.height > 0
    /\ \A i \in 1 .. Len(p.tables) : p.tables[i][1] = 0
TableValues(p) == FlattenSeq([i \in 1 .. Len(p.tables) |-> Tail(Tables(p)[i])])
PictureUnderstood ==
    jpegPhase \notin {"idle", "parse"} /\ Baseline(picture) =>
        /\ jpegPhase # "rejected"
        /\ info.tables = TableValues(picture)
        /\ <<info.width, info.height>> = <<picture.sof.width, picture.sof.height>>
        /\ SubSeq(jpeg, info.scan[1], info.scan[2]) = picture.scan

(* The packets of a frame fit their size, carry the scan at the right      *)
(* offsets (as far as 24 bits go), are numbered one after the other, and   *)
(* the last one alone is marked; they agree on what they are of, and those *)
(* that say so, and no others, carry tables.                               *)
Pieces(k) == [j \in 1 .. k |-> packets[j].data]
PacketsCarryScan ==
    /\ \A k \in 1 .. Len(packets) :
         /\ packets[k].size <= MaxPacket /\ packets[k].data # <<>>
         /\ packets[k].offset = Len(FlattenSeq(Pieces(k - 1))) % OffsetModulus
         /\ packets[k].marker <=> (jpegPhase = "sent" /\ k = Len(packets))
         /\ k > 1 => packets[k].seq = (packets[k - 1].seq + 1) % SeqModulus
         /\ packets[k].q >= 128 <=> packets[k].tables # <<>>
         /\ <<packets[k].type, packets[k].width, packets[k].height>>
              = <<packets[1].type, packets[1].width, packets[1].height>>
    /\ jpegPhase = "sent" =>
         /\ FlattenSeq(Pieces(Len(packets))) = SubSeq(jpeg, info.scan[1], info.scan[2])
         /\ packets[1].tables = info.tables

(* From the camera to the packets of a frame that was sent: the scan and   *)
(* the tables of a complete baseline picture arrive in them, and so does   *)
(* its size if it is a whole number of blocks and a byte can hold that.    *)
PictureCarried ==
    jpegPhase = "sent" /\ Baseline(picture) =>
        /\ FlattenSeq(Pieces(Len(packets))) = picture.scan
        /\ packets[1].tables = TableValues(picture)
        /\ \A k \in 1 .. Len(packets), side \in {"width", "height"} :
              picture.sof[side] % 8 = 0 /\ picture.sof[side] < 2048
                => 8 * packets[k][side] = picture.sof[side]

(* Together: what a frame's packets carry of the picture, from parsing it  *)
(* without reading outside the frame to the last packet.                   *)
RtpSafe ==
    RtpTypeOK /\ ReadsInFrame /\ PictureUnderstood /\ PacketsCarryScan /\ PictureCarried
=============================================================================
