----------------------------- MODULE MppEncoder -----------------------------
(***************************************************************************)
(* hardware/mpp/MppEncoder and media/encode/MppH264Encoder: pictures go to *)
(* the hardware one at a time, and what comes back is an Annex B stream    *)
(* whose NAL units are found by their start codes.  The MPP library is     *)
(* external: it hands out contexts, buffers, frames and packets, and every *)
(* call of it may fail.                                                    *)
(***************************************************************************)
EXTENDS Naturals, Sequences, SequencesExt, FiniteSets

CONSTANTS MaxEncodes,   \* bound: pictures given to encode()
          MaxOpens      \* bound: init() calls

ASSUME EncoderAssumption == MaxEncodes \in Nat /\ MaxOpens \in Nat

VARIABLES
    encoder,    (* what the encoder keeps: ready (initialized_), extraInfo *)
    hardware,   (* pictures put and not got, oldest first (external)       *)
    live,       (* objects of the library in use, how many of each kind    *)
    opens,      (* init() calls                                            *)
    encodes,    (* encode() calls                                          *)
    missed,     (* history: packets that did not come, since init()        *)
    output      (* history: the last answer of encode()                    *)

encVars == <<encoder, hardware, live, opens, encodes, missed, output>>

Kinds == {"context", "config", "buffer", "frame", "packet"}
NoAnswer == [ok |-> FALSE, pts |-> 0, of |-> 0, key |-> FALSE, nals |-> <<>>, data |-> <<>>]

----------------------------------------------------------------------------
(* NAL units: 7 is an SPS, 8 a PPS, 5 the slice of an IDR picture.  A unit *)
(* is a type, the length of its start code and its first bytes.            *)
Start(length) == IF length = 4 THEN <<0, 0, 0, 1>> ELSE <<0, 0, 1>>
Unit(type, length) == [type |-> type, length |-> length]
AnnexB(units) ==
    FlattenSeq([u \in 1 .. Len(units) |->
                  Start(units[u].length) \o <<96 + units[u].type, 0, 128>>])
Headers == <<Unit(7, 4), Unit(8, 4)>>
Streams == {<<Unit(5, 4)>>, <<Unit(1, 4)>>, <<Unit(6, 4), Unit(5, 3)>>, <<Unit(1, 3), Unit(1, 3)>>,
            <<Unit(7, 4), Unit(8, 3), Unit(5, 3)>>}

(* hasNalType, hasSpsNal: the scan of a packet for a start code before a   *)
(* unit of the type.  `margin' is how far from the end it stops.           *)
HasNal(data, type, margin) ==
    \E i \in 1 .. Len(data) - margin :
        LET start4 == SubSeq(data, i, i + 3) = Start(4)
            start3 == SubSeq(data, i, i + 2) = Start(3)
        IN  \/ start4 /\ data[i + 4] % 32 = type
            \/ ~start4 /\ start3 /\ data[i + 3] % 32 = type
HasIdr(data) == HasNal(data, 5, 5)
HasSps(data) == HasNal(data, 7, 4)

----------------------------------------------------------------------------
MppInit ==
    /\ encoder = [ready |-> FALSE, extraInfo |-> FALSE]
    /\ hardware = <<>>
    /\ live = [k \in Kinds |-> 0]
    /\ opens = 0 /\ encodes = 0 /\ missed = 0
    /\ output = NoAnswer

(* What a call has taken from the library when it ends, and what it gave   *)
(* back on its way out.                                                    *)
Balance(before, taken, returned) ==
    [k \in Kinds |-> (before[k] + IF k \in taken THEN 1 ELSE 0) - IF k \in returned THEN 1 ELSE 0]

(* release() destroys the context it has, and with it the pictures the     *)
(* hardware still had to deliver.                                          *)
ClearedHardwareMutant == hardware
ClearedHardware == <<>>
ReleasedLive == Balance(live, {}, IF encoder.ready THEN {"context"} ELSE {})
ReleaseEncoder ==
    /\ live' = ReleasedLive
    /\ encoder' = [encoder EXCEPT !.ready = FALSE]
    /\ hardware' = ClearedHardware
    /\ UNCHANGED <<opens, encodes, missed, output>>

(* init() releases first, and destroys the new context if it cannot be     *)
(* initialised or configured.  The headers are optional.                   *)
OpenStages == {"not created", "not initialised", "no config", "not configured", "open"}
OpenTakes(stage) ==
    CASE stage = "not created"                     -> {}
      [] stage \in {"not initialised", "no config"} -> {"context"}
      [] OTHER                                     -> {"context", "config"}
OpenReturns(stage) == IF stage = "open" THEN {"config"} ELSE OpenTakes(stage)
OpenEncoder ==
    /\ opens < MaxOpens
    /\ opens' = opens + 1
    /\ hardware' = ClearedHardware /\ missed' = 0 /\ output' = NoAnswer
    /\ \E stage \in OpenStages, got \in BOOLEAN :
         /\ live' = Balance(ReleasedLive, OpenTakes(stage), OpenReturns(stage))
         /\ encoder' = IF stage = "open" THEN [ready |-> TRUE, extraInfo |-> got]
                       ELSE [encoder EXCEPT !.ready = FALSE]
    /\ UNCHANGED encodes

(* encodeNv12: a buffer, a frame with that buffer, and what the hardware   *)
(* makes of it.  Frame and buffer are given back before the packet is      *)
(* asked for.                                                              *)
EncodeStages == {"not ready", "too small", "no buffer", "no frame", "not put", "no packet", "encoded"}
EncodeTakes(stage) ==
    CASE stage \in {"not ready", "too small", "no buffer"} -> {}
      [] stage = "no frame"                               -> {"buffer"}
      [] stage \in {"not put", "no packet"}               -> {"buffer", "frame"}
      [] OTHER                                            -> {"buffer", "frame", "packet"}
EncodeReturns(stage) == EncodeTakes(stage)

WithHeaders(units) ==
    IF HasIdr(AnnexB(units)) /\ encoder.extraInfo /\ ~HasSps(AnnexB(units))
      THEN Headers \o units
      ELSE units

(* The packet that comes belongs to the picture the hardware has had       *)
(* longest; it is labelled with the time of the picture just given.        *)
Put == Append(hardware, encodes + 1)
RestOfHardware == Tail(Put)
EncodedPacket(units) ==
    [ok |-> TRUE, pts |-> encodes + 1, of |-> Head(Put), key |-> HasIdr(AnnexB(units)),
     nals |-> units, data |-> AnnexB(WithHeaders(units))]

Encode ==
    /\ encodes < MaxEncodes
    /\ encodes' = encodes + 1
    /\ \E stage \in EncodeStages :
         /\ (stage = "not ready") <=> ~encoder.ready
         /\ live' = Balance(live, EncodeTakes(stage), EncodeReturns(stage))
         /\ hardware' = CASE stage = "encoded"   -> RestOfHardware
                          [] stage = "no packet" -> Put
                          [] OTHER               -> hardware
         /\ missed' = IF stage = "no packet" THEN missed + 1 ELSE missed
         /\ IF stage = "encoded"
              THEN \E units \in Streams : output' = EncodedPacket(units)
              ELSE output' = NoAnswer
    /\ UNCHANGED <<encoder, opens>>

MppNext == OpenEncoder \/ ReleaseEncoder \/ Encode

----------------------------------------------------------------------------
MppTypeOK ==
    /\ encoder \in [ready : BOOLEAN, extraInfo : BOOLEAN]
    /\ hardware \in Seq(1 .. MaxEncodes)
    /\ live \in [Kinds -> Nat]
    /\ opens \in 0 .. MaxOpens /\ encodes \in 0 .. MaxEncodes /\ missed \in 0 .. MaxEncodes

Types(units) == {units[u].type : u \in 1 .. Len(units)}

(* Whichever call of the library fails, everything but the context of an   *)
(* initialised encoder has been given back.                                *)
NothingLeaked ==
    live = [k \in Kinds |-> IF k = "context" /\ encoder.ready THEN 1 ELSE 0]

(* A picture that a decoder can begin with is recognised behind other      *)
(* units and short start codes, and carries its parameter sets if the      *)
(* library has given them or sends them itself.                            *)
KeyFrameDecodable ==
    output.ok =>
        /\ output.key <=> 5 \in Types(output.nals)
        /\ output.key /\ (encoder.extraInfo \/ 7 \in Types(output.nals)) =>
             HasSps(SubSeq(output.data, 1, 7))

(* A packet carries the time of its own picture as long as none was       *)
(* missed.  One packet that does not come in time makes every later label  *)
(* wrong, until the encoder is initialised again.                          *)
LabelOfItsPicture ==
    /\ Len(hardware) = IF encoder.ready THEN missed ELSE 0
    /\ output.ok => (output.pts = output.of <=> missed = 0)

(* Together: packets that can be decoded at the right time, and nothing    *)
(* kept, whichever call of the library fails.                              *)
EncoderSafe == MppTypeOK /\ NothingLeaked /\ KeyFrameDecodable /\ LabelOfItsPicture
=============================================================================
