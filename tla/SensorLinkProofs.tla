-------------------------- MODULE SensorLinkProofs --------------------------
(***************************************************************************)
(* Proofs about the sensor link: types on any line, and, on a line where   *)
(* no answer comes after its read has given up, that a call which returns  *)
(* success did what it says.  Any number of registers, modes and attempts. *)
(***************************************************************************)
EXTENDS SensorLink, SequenceTheorems, TLAPS

(* The types, and that a thread inside a call has a call.                  *)
TInv == TypeOK /\ (pc # "idle" => op \in Calls)

Byte == Answers \X (1 .. 12)

----------------------------------------------------------------------------
(* Facts about the commands, the sensor and its answers.                   *)

(* What the fields of a call are, by kind.                                 *)
LEMMA CallFacts ==
  ASSUME NEW c \in Calls
  PROVE  /\ Kind(c) \in {"read", "write"}
         /\ c.call \in {"setFusionMode", "writeRegister", "restoreDefaultConfig",
                        "getFusionMode", "readRegister"}
         /\ Kind(c) = "read" <=> c \in ReadCalls
         /\ Kind(c) = "write" <=> c \in WriteCalls
         /\ Kind(c) = "read" => c.reg \in Registers
         /\ Kind(c) = "write" /\ c.call # "restoreDefaultConfig" =>
              c.reg \in Registers /\ c.value \in Values
         /\ c.call = "setFusionMode" => c.reg = "FusionMode" /\ c.value \in Modes
         /\ c.call = "getFusionMode" => c.reg = "FusionMode"
  <1>1. CASE c \in [call : {"setFusionMode"}, reg : {"FusionMode"}, value : Modes]
    BY <1>1 DEF Kind, ReadCalls, WriteCalls, Registers, Values
  <1>2. CASE c \in [call : {"writeRegister"}, reg : Registers, value : Values]
    BY <1>2 DEF Kind, ReadCalls, WriteCalls
  <1>3. CASE c \in [call : {"restoreDefaultConfig"}, reg : {"SaveConfig"}, value : {0}]
    BY <1>3 DEF Kind, ReadCalls, WriteCalls
  <1>4. CASE c \in [call : {"getFusionMode"}, reg : {"FusionMode"}, value : {0}]
    BY <1>4 DEF Kind, ReadCalls, WriteCalls, Registers
  <1>5. CASE c \in [call : {"readRegister"}, reg : Registers, value : {0}]
    BY <1>5 DEF Kind, ReadCalls, WriteCalls
  <1> QED BY <1>1, <1>2, <1>3, <1>4, <1>5 DEF Calls, WriteCalls, ReadCalls

(* A command carried out again changes nothing: retries are harmless.      *)
LEMMA EffectFacts ==
  ASSUME NEW c \in Calls, NEW d \in [Registers -> Values]
  PROVE  /\ Effect(d, c) \in [Registers -> Values]
         /\ Effect(Effect(d, c), c) = Effect(d, c)
         /\ Kind(c) = "read" => Effect(d, c) = d
         /\ ~TouchesMode(c) => Effect(d, c)["FusionMode"] = d["FusionMode"]
         /\ c.call = "setFusionMode" => Effect(d, c)["FusionMode"] = c.value
  <1>0. "FusionMode" \in Registers /\ Default \in Values
    BY DEF Registers, Values
  <1>1. CASE c.call = "restoreDefaultConfig"
    BY <1>0, <1>1 DEF Effect, TouchesMode, Kind
  <1>2. CASE c.call # "restoreDefaultConfig" /\ Kind(c) = "write"
    <2>1. c.reg \in Registers /\ c.value \in Values
      BY <1>2, CallFacts
    <2>2. \A e \in [Registers -> Values] : Effect(e, c) = [e EXCEPT ![c.reg] = c.value]
      BY <1>2 DEF Effect
    <2>3. c.call = "setFusionMode" => c.reg = "FusionMode"
      BY CallFacts
    <2> QED BY <1>0, <1>2, <2>1, <2>2, <2>3 DEF TouchesMode
  <1>3. CASE c.call # "restoreDefaultConfig" /\ Kind(c) = "read"
    BY <1>0, <1>3 DEF Effect, TouchesMode, Kind
  <1> QED BY <1>1, <1>2, <1>3, CallFacts

(* The sensor's answer is an answer of the command's kind.                 *)
LEMMA AnswerFacts ==
  ASSUME NEW c \in Calls, NEW d \in [Registers -> Values],
         NEW s \in {"Executable", "Rejected", "damaged"}
  PROVE  /\ Answer(c, s, d) \in Answers
         /\ Answer(c, s, d).kind = Kind(c) /\ Answer(c, s, d).status = s
         /\ Kind(c) = "read" /\ s = "Executable" => Answer(c, s, d).data = d[c.reg]
  BY CallFacts DEF Answer, Answers

(* An answer is as long as its kind says, and its bytes are its own.       *)
LEMMA BytesFacts ==
  ASSUME NEW a \in Answers
  PROVE  /\ Bytes(a) \in Seq(Byte)
         /\ Len(Bytes(a)) = AckBytes(a.kind)
         /\ AckBytes(a.kind) \in 1 .. 12
         /\ Bytes(a)[1] = <<a, 1>>
  <1>1. AckBytes(a.kind) \in 1 .. 12
    BY DEF AckBytes
  <1>2. Bytes(a) \in [1 .. AckBytes(a.kind) -> Byte]
    BY <1>1 DEF Bytes, Byte
  <1> QED BY <1>1, <1>2 DEF Bytes

----------------------------------------------------------------------------
(* The part of the types that belongs to the calling thread.               *)
ThreadOK ==
    /\ ready \in BOOLEAN /\ ackRequired \in BOOLEAN /\ modeTouched \in BOOLEAN
    /\ currentMode \in Modes \cup {0}
    /\ pc \in {"idle", "send", "read"}
    /\ op \in Calls \cup {NoCall}
    /\ pc # "idle" => op \in Calls
    /\ attempt \in 0 .. Attempts
    /\ last \in [op : Calls \cup {NoCall}, how : {"none", "acked", "unacked", "failed"},
                 data : Values \cup {0}]
    /\ errorCount \in Nat /\ calls \in Nat

LineOK ==
    /\ toDev \in Seq(Calls)
    /\ stream \in Seq(Byte) /\ arrived \in 0 .. Len(stream)
    /\ dev \in [Registers -> Values]

LEMMA TInvParts == TInv <=> ThreadOK /\ LineOK
  BY DEF TInv, TypeOK, ThreadOK, LineOK, Byte

(* A call that returns leaves the controller's state well-typed.           *)
LEMMA ReturnThread ==
  ASSUME ThreadOK, pc # "idle",
         NEW how \in {"acked", "unacked", "failed"}, NEW data \in Values \cup {0},
         Return(how, data)
  PROVE  ThreadOK'
  <1> DEFINE mode == IF op.call = "setFusionMode" THEN op.value ELSE ModeFromRegister(data)
             sets == /\ how # "failed" /\ mode # 0
                     /\ op.call \in {"setFusionMode", "getFusionMode"}
  <1>1. op \in Calls
    BY DEF ThreadOK
  <1>2. mode \in Modes \cup {0}
    BY <1>1, CallFacts DEF ModeFromRegister
  <1>3. /\ pc' = "idle" /\ attempt' = 0 /\ op' = op /\ calls' = calls
        /\ ready' = ready /\ ackRequired' = ackRequired
        /\ currentMode' = IF sets THEN mode ELSE currentMode
        /\ errorCount' = IF how = "failed" THEN errorCount + 1 ELSE errorCount
        /\ last' = [op |-> op, how |-> how, data |-> data]
        /\ modeTouched' = IF sets /\ how = "acked" THEN FALSE
                          ELSE modeTouched \/ TouchesMode(op)
    BY DEF Return
  <1> HIDE DEF mode, sets
  <1>4. modeTouched' \in BOOLEAN
    BY <1>3, Zenon DEF ThreadOK
  <1>5. last' \in [op : Calls \cup {NoCall}, how : {"none", "acked", "unacked", "failed"},
                   data : Values \cup {0}]
    BY <1>1, <1>3
  <1>6. currentMode' \in Modes \cup {0} /\ errorCount' \in Nat /\ attempt' \in 0 .. Attempts
    BY <1>2, <1>3, LinkAssumption DEF ThreadOK
  <1> QED BY <1>3, <1>4, <1>5, <1>6 DEF ThreadOK

LEMMA RetryThread ==
  ASSUME ThreadOK, pc # "idle", Retry
  PROVE  ThreadOK'
  <1>1. CASE attempt < Attempts /\ pc' = "send" /\ attempt' = attempt + 1
             /\ UNCHANGED <<control, op, history>>
    <2>1. attempt' \in 0 .. Attempts
      BY <1>1, LinkAssumption DEF ThreadOK
    <2> QED BY <1>1, <2>1 DEF ThreadOK, control, history
  <1>2. CASE Return("failed", 0)
    BY <1>2, ReturnThread
  <1> QED BY <1>1, <1>2 DEF Retry

(* Reading or discarding the first n bytes.                                *)
LEMMA RestFacts ==
  ASSUME stream \in Seq(Byte), NEW n \in 0 .. Len(stream)
  PROVE  Rest(n) \in Seq(Byte) /\ Len(Rest(n)) = Len(stream) - n
  <1>1. \A i \in n + 1 .. Len(stream) : stream[i] \in Byte
    OBVIOUS
  <1>2. n + 1 \in Int /\ Len(stream) \in Int
    OBVIOUS
  <1>3. /\ Rest(n) \in Seq(Byte)
        /\ Len(Rest(n)) = IF n + 1 <= Len(stream) THEN Len(stream) - (n + 1) + 1 ELSE 0
    BY <1>1, <1>2, SubSeqProperties DEF Rest
  <1> QED BY <1>3

(* What the sensor sends is an answer or a part of one.                    *)
LEMMA SentFacts ==
  ASSUME LineOK, NEW c \in Calls, NEW s \in {"Executable", "Rejected"}, DeviceAnswers(c, s)
  PROVE  /\ stream' \in Seq(Byte) /\ Len(stream') >= Len(stream)
         /\ \E sent \in Seq(Byte) :
              /\ stream' = stream \o sent
              /\ \/ sent = Bytes(Answer(c, s, dev))
                 \/ sent = Bytes(Answer(c, "damaged", dev))
                 \/ Len(sent) < AckBytes(Kind(c))
  <1>0. stream \in Seq(Byte) /\ dev \in [Registers -> Values]
    BY DEF LineOK
  <1> DEFINE whole == Bytes(Answer(c, s, dev))
             damaged == Bytes(Answer(c, "damaged", dev))
             short == SubSeq(whole, 1, Len(whole) - 1)
  <1>1. whole \in Seq(Byte) /\ Len(whole) = AckBytes(Kind(c)) /\ AckBytes(Kind(c)) \in 1 .. 12
    BY <1>0, AnswerFacts, BytesFacts
  <1>2. damaged \in Seq(Byte)
    BY <1>0, AnswerFacts, BytesFacts
  <1>3. short \in Seq(Byte) /\ Len(short) < AckBytes(Kind(c))
    <2>1. \A i \in 1 .. Len(whole) - 1 : whole[i] \in Byte
      BY <1>1
    <2>2. 1 \in Int /\ Len(whole) - 1 \in Int
      BY <1>1
    <2>3. /\ short \in Seq(Byte)
          /\ Len(short) = IF 1 <= Len(whole) - 1 THEN (Len(whole) - 1) - 1 + 1 ELSE 0
      BY <2>1, <2>2, SubSeqProperties
    <2> QED BY <1>1, <2>3
  <1>4. <<>> \in Seq(Byte) /\ stream = stream \o <<>> /\ Len(<<>>) < AckBytes(Kind(c))
    BY <1>0, <1>1
  <1>5. \A t \in Seq(Byte) : stream \o t \in Seq(Byte) /\ Len(stream \o t) >= Len(stream)
    BY <1>0
  <1> HIDE DEF whole, damaged, short
  <1>7. \/ stream' = stream \o whole \/ stream' = stream \o damaged
        \/ stream' = stream \o short \/ stream' = stream
    BY DEF DeviceAnswers, whole, damaged, short
  <1>8. \E sent \in Seq(Byte) :
           /\ stream' = stream \o sent
           /\ sent = whole \/ sent = damaged \/ Len(sent) < AckBytes(Kind(c))
    BY <1>1, <1>2, <1>3, <1>4, <1>7
  <1> QED BY <1>5, <1>8 DEF whole, damaged

----------------------------------------------------------------------------
LEMMA InitTInv == Init => TInv
  <1> SUFFICES ASSUME Init PROVE TInv
    OBVIOUS
  <1>1. dev \in [Registers -> Values] /\ attempt \in 0 .. Attempts
    BY LinkAssumption DEF Init, Values
  <1>2. LineOK
    BY <1>1 DEF Init, LineOK
  <1>3. ThreadOK
    BY <1>1 DEF Init, ThreadOK
  <1> QED BY <1>2, <1>3, TInvParts

(* Every step keeps the types.                                             *)
LEMMA NextTInv == TInv /\ [Next]_vars => TInv'
  <1> SUFFICES ASSUME TInv, [Next]_vars PROVE ThreadOK' /\ LineOK'
    BY TInvParts DEF TInv, TypeOK, ThreadOK, LineOK, Byte
  <1>0. ThreadOK /\ LineOK
    BY TInvParts
  <1>1. CASE Open
    <2>1. Rest(arrived) \in Seq(Byte) /\ Len(Rest(arrived)) \in Nat
      BY <1>0, RestFacts DEF LineOK
    <2> QED BY <1>0, <1>1, <2>1 DEF Open, ThreadOK, LineOK, thread, history
  <1>2. CASE Shutdown
    BY <1>0, <1>2 DEF Shutdown, ThreadOK, LineOK, thread, line, history
  <1>13. CASE OpenFails
    BY <1>0, <1>13 DEF OpenFails, ThreadOK, LineOK, thread, line
  <1>3. CASE SetAckRequired
    BY <1>0, <1>3 DEF SetAckRequired, ThreadOK, LineOK, thread, line, history
  <1>4. ASSUME NEW c \in Calls, Begin(c) PROVE ThreadOK' /\ LineOK'
    <2>1. attempt' \in 0 .. Attempts
      BY <1>4, LinkAssumption DEF Begin
    <2> QED BY <1>0, <1>4, <2>1 DEF Begin, ThreadOK, LineOK, control, line
  <1>5. CASE Send
    <2>1. toDev' \in Seq(Calls)
      BY <1>0, <1>5 DEF Send, ThreadOK, LineOK
    <2> QED BY <1>0, <1>5, <2>1 DEF Send, ThreadOK, LineOK, control, history
  <1>6. CASE SendFail
    BY <1>0, <1>6, RetryThread DEF SendFail, LineOK, line
  <1>7. CASE ReadDone
    <2> DEFINE need == AckBytes(Kind(op))
               bytes == SubSeq(stream, 1, need)
    <2>1. need \in 0 .. 12 /\ need \in 0 .. Len(stream)
      BY <1>0, <1>7 DEF ReadDone, LineOK, AckBytes
    <2>2. Rest(need) \in Seq(Byte) /\ Len(Rest(need)) = Len(stream) - need
      BY <1>0, <2>1, RestFacts DEF LineOK
    <2>3. /\ stream' = Rest(need) /\ arrived' = arrived - need /\ arrived >= need
          /\ toDev' = toDev /\ dev' = dev
      BY <1>7 DEF ReadDone
    <2> HIDE DEF need
    <2>4. LineOK'
      BY <1>0, <2>1, <2>2, <2>3 DEF LineOK
    <2>5. ThreadOK'
      <3>1. ASSUME NEW a \in Answers, Return("acked", a.data) PROVE ThreadOK'
        BY <1>0, <1>7, <3>1, ReturnThread DEF ReadDone, Answers
      <3> QED BY <1>0, <1>7, <3>1, RetryThread DEF ReadDone, Accepted
    <2> QED BY <2>4, <2>5
  <1>8. CASE ReadFails
    <2>1. Rest(arrived) \in Seq(Byte) /\ Len(Rest(arrived)) \in Nat
      BY <1>0, RestFacts DEF LineOK
    <2>2. LineOK'
      BY <1>0, <1>8, <2>1 DEF ReadFails, LineOK
    <2>3. ThreadOK'
      BY <1>0, <1>8, ReturnThread, RetryThread DEF ReadFails
    <2> QED BY <2>2, <2>3
  <1>9. CASE Device
    <2>1. toDev \in Seq(Calls) /\ toDev # <<>>
      BY <1>0, <1>9 DEF Device, LineOK
    <2>2. Head(toDev) \in Calls /\ Tail(toDev) \in Seq(Calls)
      BY <2>1
    <2>3. dev' \in [Registers -> Values]
      BY <1>0, <1>9, <2>2, EffectFacts DEF Device, LineOK
    <2>4. stream' \in Seq(Byte) /\ Len(stream') >= Len(stream)
      BY <1>0, <1>9, <2>2, SentFacts DEF Device
    <2>5. arrived' \in 0 .. Len(stream')
      BY <1>0, <1>9, <2>4 DEF Device, LineOK
    <2> QED BY <1>0, <1>9, <2>2, <2>3, <2>4, <2>5
           DEF Device, ThreadOK, LineOK, control, thread, history
  <1>10. CASE CommandLost
    <2>1. Tail(toDev) \in Seq(Calls)
      BY <1>0, <1>10 DEF CommandLost, LineOK
    <2> QED BY <1>0, <1>10, <2>1
           DEF CommandLost, ThreadOK, LineOK, control, thread, history
  <1>11. CASE Arrive
    <2>1. arrived' \in 0 .. Len(stream)
      BY <1>0, <1>11, LinkAssumption DEF Arrive, LineOK
    <2> QED BY <1>0, <1>11, <2>1 DEF Arrive, ThreadOK, LineOK, control, thread, history
  <1>12. CASE UNCHANGED vars
    BY <1>0, <1>12 DEF vars, ThreadOK, LineOK
  <1> QED BY <1>1, <1>2, <1>3, <1>4, <1>5, <1>6, <1>7, <1>8, <1>9, <1>10, <1>11, <1>12,
            <1>13 DEF Next, HostStep, LineStep

(* Types on any line: in particular a call never makes more attempts than  *)
(* it may, and the reader never consumes bytes that have not arrived.      *)
THEOREM LinkTypeCorrect == Spec => []TypeOK
  <1>1. TInv => TypeOK
    BY DEF TInv
  <1> QED BY <1>1, InitTInv, NextTInv, PTL DEF Spec

----------------------------------------------------------------------------
(* On a clean line the line is quiet whenever no attempt waits for an      *)
(* answer, and an attempt that waits has its own command or its own answer *)
(* on the line, never anything older.                                      *)
Quiet == toDev = <<>> /\ stream = <<>>

(* A positive answer on the line says that op is in effect.                *)
AnswersOp ==
    /\ Len(stream) <= AckBytes(Kind(op))
    /\ \A a \in Answers :
         a.kind = Kind(op) /\ a.status = "Executable" /\ stream = Bytes(a) =>
          /\ Effect(dev, op) = dev
          /\ Kind(op) = "read" => a.data = dev[op.reg]

OwnAnswer ==
    \/ toDev = <<op>> /\ stream = <<>>
    \/ toDev = <<>> /\ AnswersOp

(* currentMode mirrors the sensor except while a call writes the mode.     *)
Mirror ==
    currentMode # 0 /\ ~modeTouched /\ (pc # "idle" => ~TouchesMode(op))
      => dev["FusionMode"] = currentMode

CleanInv ==
    /\ pc # "read" => Quiet
    /\ pc = "read" => OwnAnswer
    /\ last.how = "acked" => pc = "idle"
    /\ AppliedOnSuccess
    /\ ReadFidelity
    /\ Mirror

(* How a call returns on a clean line: with failure, without an            *)
(* acknowledgement, or with its command in effect.                         *)
LEMMA ReturnClean ==
  ASSUME TInv, CleanInv, pc # "idle",
         NEW how \in {"acked", "unacked", "failed"}, NEW data \in Values \cup {0},
         how = "acked" => /\ Effect(dev, op) = dev
                          /\ Kind(op) = "read" => data = dev[op.reg],
         how = "unacked" => Kind(op) = "write",
         Return(how, data), dev' = dev
  PROVE  /\ pc' = "idle" /\ AppliedOnSuccess' /\ ReadFidelity' /\ Mirror'
  <1>1. op \in Calls /\ dev \in [Registers -> Values] /\ modeTouched \in BOOLEAN
    BY DEF TInv, TypeOK
  <1> DEFINE mode == IF op.call = "setFusionMode" THEN op.value ELSE ModeFromRegister(data)
             sets == /\ how # "failed" /\ mode # 0
                     /\ op.call \in {"setFusionMode", "getFusionMode"}
  <1>2. /\ pc' = "idle" /\ op' = op
        /\ currentMode' = IF sets THEN mode ELSE currentMode
        /\ last' = [op |-> op, how |-> how, data |-> data]
        /\ modeTouched' = IF sets /\ how = "acked" THEN FALSE
                          ELSE modeTouched \/ TouchesMode(op)
    BY DEF Return
  <1>3. AppliedOnSuccess'
    BY <1>1, <1>2 DEF AppliedOnSuccess, Effect, WriteCalls, Registers, Values, Kind
  <1>4. ReadFidelity'
    BY <1>1, <1>2, CallFacts DEF ReadFidelity, ReadCalls, Registers, Values
  <1>5. Mirror'
    <2>1. CASE sets /\ how = "acked"
      <3>1. CASE op.call = "setFusionMode"
        BY <1>1, <1>2, <2>1, <3>1, EffectFacts DEF Mirror
      <3>2. CASE op.call = "getFusionMode"
        <4>1. data = dev["FusionMode"]
          BY <1>1, <2>1, <3>2, CallFacts DEF Kind
        <4> QED BY <1>1, <1>2, <2>1, <3>2, <4>1 DEF Mirror, ModeFromRegister
      <3> QED BY <2>1, <3>1, <3>2
    <2>2. CASE ~(sets /\ how = "acked")
      <3> HIDE DEF mode
      <3>1. SUFFICES ASSUME currentMode' # 0, ~modeTouched' PROVE dev["FusionMode"] = currentMode'
        BY <1>2 DEF Mirror
      <3>2. ~modeTouched /\ ~TouchesMode(op)
        BY <1>2, <2>2, <3>1, Zenon
      <3>3. currentMode' = currentMode
        <4>1. CASE sets
          <5>1. how = "unacked"
            BY <2>2, <4>1
          <5>2. op.call = "setFusionMode" /\ op.reg = "FusionMode"
            BY <1>1, <4>1, <5>1, CallFacts DEF Kind
          <5> QED BY <3>2, <5>1, <5>2 DEF TouchesMode
        <4> QED BY <1>2, <4>1
      <3> QED BY <3>1, <3>2, <3>3 DEF CleanInv, Mirror
    <2> QED BY <2>1, <2>2
  <1> QED BY <1>2, <1>3, <1>4, <1>5

LEMMA RetryClean ==
  ASSUME TInv, CleanInv, pc # "idle", Retry, Quiet', dev' = dev
  PROVE  CleanInv'
  <1>1. CASE pc' = "send" /\ attempt' = attempt + 1 /\ UNCHANGED <<control, op, history>>
    BY <1>1 DEF CleanInv, AppliedOnSuccess, ReadFidelity, Mirror, control, history,
                Effect, WriteCalls, ReadCalls, Registers, Values, Kind, TouchesMode
  <1>2. CASE Return("failed", 0)
    BY <1>2, ReturnClean DEF CleanInv
  <1> QED BY <1>1, <1>2 DEF Retry

(* What the sensor puts on the line is the answer to the waiting attempt.  *)
LEMMA DeviceClean ==
  ASSUME TInv, CleanInv, Device
  PROVE  CleanInv'
  <1>0. /\ toDev # <<>> /\ toDev' = Tail(toDev)
        /\ UNCHANGED <<pc, op, currentMode, last, modeTouched>>
    BY DEF Device, control, thread, history
  <1>1. pc = "read" /\ toDev = <<op>> /\ stream = <<>>
    BY <1>0 DEF CleanInv, Quiet, OwnAnswer, TInv, TypeOK
  <1>2. op \in Calls /\ dev \in [Registers -> Values] /\ LineOK
    BY <1>1, TInvParts DEF TInv, TypeOK
  <1>3. Head(toDev) = op /\ toDev' = <<>>
    BY <1>0, <1>1
  <1>4. PICK s \in {"Executable", "Rejected"} :
           /\ DeviceAnswers(op, s)
           /\ dev' = IF s = "Executable" THEN Effect(dev, op) ELSE dev
    BY <1>3 DEF Device
  <1>5. PICK sent \in Seq(Byte) :
           /\ stream' = stream \o sent
           /\ \/ sent = Bytes(Answer(op, s, dev))
              \/ sent = Bytes(Answer(op, "damaged", dev))
              \/ Len(sent) < AckBytes(Kind(op))
    BY <1>2, <1>4, SentFacts
  <1>6. stream' = sent
    BY <1>1, <1>5
  <1>7. AnswersOp'
    <2>1. /\ Answer(op, s, dev) \in Answers /\ Answer(op, "damaged", dev) \in Answers
          /\ Answer(op, s, dev).kind = Kind(op) /\ Answer(op, "damaged", dev).kind = Kind(op)
          /\ Answer(op, s, dev).status = s /\ Answer(op, "damaged", dev).status = "damaged"
          /\ Kind(op) = "read" /\ s = "Executable" => Answer(op, s, dev).data = dev[op.reg]
      BY <1>2, AnswerFacts
    <2>2. Len(stream') <= AckBytes(Kind(op))
      <3>1. Len(Bytes(Answer(op, s, dev))) = AckBytes(Kind(op))
        BY <2>1, BytesFacts
      <3>2. Len(Bytes(Answer(op, "damaged", dev))) = AckBytes(Kind(op))
        BY <2>1, BytesFacts
      <3>3. AckBytes(Kind(op)) \in 1 .. 12
        BY DEF AckBytes
      <3> QED BY <1>5, <1>6, <3>1, <3>2, <3>3
    <2>3. ASSUME NEW a \in Answers, a.kind = Kind(op), a.status = "Executable",
                 stream' = Bytes(a)
          PROVE  Effect(dev', op) = dev' /\ (Kind(op) = "read" => a.data = dev'[op.reg])
      <3>1. ASSUME NEW b \in Answers, sent = Bytes(b) PROVE a = b
        <4>1. Bytes(a)[1] = <<a, 1>> /\ Bytes(b)[1] = <<b, 1>>
          BY BytesFacts
        <4>2. <<a, 1>> = <<b, 1>>
          BY <1>6, <2>3, <3>1, <4>1
        <4> QED BY <4>2
      <3>2. CASE sent = Bytes(Answer(op, s, dev))
        <4>1. s = "Executable" /\ a = Answer(op, s, dev)
          BY <2>1, <2>3, <3>1, <3>2
        <4>2. dev' = Effect(dev, op)
          BY <1>4, <4>1
        <4> QED BY <1>2, <2>1, <4>1, <4>2, EffectFacts
      <3>3. CASE sent = Bytes(Answer(op, "damaged", dev))
        BY <2>1, <2>3, <3>1, <3>3
      <3>4. CASE Len(sent) < AckBytes(Kind(op))
        <4>1. Len(sent) = AckBytes(Kind(op)) /\ AckBytes(Kind(op)) \in 1 .. 12
          BY <1>6, <2>3, BytesFacts
        <4> QED BY <3>4, <4>1
      <3> QED BY <1>5, <3>2, <3>3, <3>4
    <2>4. op' = op
      BY <1>0
    <2> HIDE <1>0
    <2> QED BY <2>2, <2>3, <2>4 DEF AnswersOp, AckBytes, Kind, Effect, Registers
  <1>8. Mirror'
    BY <1>0, <1>1, <1>2, <1>4, EffectFacts DEF Mirror, CleanInv, TouchesMode, Kind
  <1> QED BY <1>0, <1>1, <1>3, <1>7, <1>8 DEF CleanInv, OwnAnswer, AppliedOnSuccess, ReadFidelity

(* A read that has all its bytes on a clean line has read the whole line.  *)
LEMMA ReadDoneClean ==
  ASSUME TInv, CleanInv, ReadDone
  PROVE  CleanInv'
  <1> DEFINE need == AckBytes(Kind(op))
             bytes == SubSeq(stream, 1, need)
  <1>1. /\ pc = "read" /\ arrived >= need /\ need \in 1 .. 12
        /\ stream' = Rest(need) /\ toDev' = toDev /\ dev' = dev
    BY DEF ReadDone, AckBytes
  <1>2. op \in Calls /\ stream \in Seq(Byte) /\ arrived \in 0 .. Len(stream)
    BY <1>1 DEF TInv, TypeOK, Byte
  <1>3. toDev = <<>> /\ AnswersOp
    <2>1. Len(stream) >= 1
      BY <1>1, <1>2
    <2> QED BY <1>1, <2>1 DEF CleanInv, OwnAnswer
  <1>4. Len(stream) = need
    BY <1>1, <1>2, <1>3 DEF AnswersOp
  <1>5. bytes = stream
    BY <1>2, <1>4, SubSeqFull
  <1>6. stream' = <<>>
    <2>1. Len(stream') = 0 /\ stream' \in Seq(Byte)
      BY <1>1, <1>2, <1>4, RestFacts
    <2> QED BY <2>1
  <1>7. Quiet'
    BY <1>1, <1>3, <1>6 DEF Quiet
  <1>8. CASE Retry
    BY <1>1, <1>7, <1>8, RetryClean
  <1>9. ASSUME NEW a \in Accepted(bytes, Kind(op)), Return("acked", a.data) PROVE CleanInv'
    <2>1. /\ a \in Answers /\ a.kind = Kind(op) /\ a.status = "Executable"
          /\ stream = Bytes(a)
      BY <1>5, <1>9 DEF Accepted, ParsesAs
    <2>2. Effect(dev, op) = dev /\ (Kind(op) = "read" => a.data = dev[op.reg])
      BY <1>3, <2>1 DEF AnswersOp
    <2>3. a.data \in Values \cup {0}
      BY <2>1 DEF Answers
    <2>4. pc' = "idle" /\ AppliedOnSuccess' /\ ReadFidelity' /\ Mirror'
      BY <1>1, <1>9, <2>2, <2>3, ReturnClean
    <2> QED BY <1>7, <2>4 DEF CleanInv
  <1> QED BY <1>8, <1>9 DEF ReadDone

LEMMA InitClean == Init => CleanInv
  BY DEF Init, CleanInv, Quiet, AppliedOnSuccess, ReadFidelity, Mirror

(* Every step on a clean line keeps the line to one question at a time.    *)
LEMMA NextClean ==
  ASSUME CleanLine
  PROVE  TInv /\ CleanInv /\ [Next]_vars => CleanInv'
  <1> SUFFICES ASSUME TInv, CleanInv, [Next]_vars PROVE CleanInv'
    OBVIOUS
  <1>0. ThreadOK /\ LineOK
    BY TInvParts
  <1> USE DEF CleanInv
  <1>1. CASE Open
    <2>1. Rest(arrived) = <<>>
      BY <1>1 DEF Open, Quiet, Rest
    <2> QED BY <1>1, <2>1 DEF Open, thread, history, Quiet, Mirror, AppliedOnSuccess, ReadFidelity
  <1>2. CASE Shutdown
    BY <1>2 DEF Shutdown, thread, line, history, Quiet, Mirror, AppliedOnSuccess, ReadFidelity
  <1>13. CASE OpenFails
    BY <1>13 DEF OpenFails, thread, line, Quiet, Mirror, AppliedOnSuccess, ReadFidelity
  <1>3. CASE SetAckRequired
    BY <1>3 DEF SetAckRequired, thread, line, history, Quiet, Mirror, AppliedOnSuccess, ReadFidelity
  <1>4. ASSUME NEW c \in Calls, Begin(c) PROVE CleanInv'
    BY <1>4 DEF Begin, control, line, Quiet, Mirror, AppliedOnSuccess, ReadFidelity
  <1>5. CASE Send
    <2>1. toDev' = <<op>>
      BY <1>5 DEF Send, Quiet
    <2> QED BY <1>5, <2>1 DEF Send, control, history, Quiet, OwnAnswer, Mirror,
                              AppliedOnSuccess, ReadFidelity
  <1>6. CASE SendFail
    <2>1. Quiet' /\ dev' = dev
      BY <1>6 DEF SendFail, line, Quiet
    <2> QED BY <1>6, <2>1, RetryClean DEF SendFail
  <1>7. CASE ReadDone
    BY <1>7, ReadDoneClean
  <1>8. CASE ReadFails
    <2>1. toDev' = <<>> /\ dev' = dev /\ stream' = Rest(arrived) /\ arrived = Len(stream)
      BY <1>8 DEF ReadFails, NothingUnderWay
    <2>2. stream' \in Seq(Byte) /\ Len(stream') = 0
      BY <1>0, <2>1, RestFacts DEF LineOK
    <2>3. Quiet'
      BY <2>1, <2>2 DEF Quiet
    <2>4. CASE Retry
      BY <1>8, <2>1, <2>3, <2>4, RetryClean DEF ReadFails
    <2>5. CASE Kind(op) = "write" /\ Return("unacked", 0)
      <3>1. pc # "idle" /\ 0 \in Values \cup {0}
        BY <1>8 DEF ReadFails
      <3>2. pc' = "idle" /\ AppliedOnSuccess' /\ ReadFidelity' /\ Mirror'
        BY <2>1, <2>5, <3>1, ReturnClean
      <3> QED BY <2>3, <3>2
    <2> QED BY <1>8, <2>4, <2>5 DEF ReadFails
  <1>9. CASE Device
    BY <1>9, DeviceClean
  <1>10. CASE CommandLost
    <2>1. pc = "read" /\ toDev = <<op>> /\ stream = <<>>
      BY <1>0, <1>10 DEF CommandLost, Quiet, OwnAnswer, ThreadOK
    <2>2. toDev' = <<>>
      BY <1>10, <2>1 DEF CommandLost
    <2>3. AnswersOp'
      <3>1. \A a \in Answers : Bytes(a) # <<>>
        BY BytesFacts
      <3>2. stream' = <<>> /\ op' = op
        BY <1>10, <2>1 DEF CommandLost, thread
      <3> QED BY <3>1, <3>2 DEF AnswersOp, AckBytes
    <2> QED BY <1>10, <2>1, <2>2, <2>3
           DEF CommandLost, control, thread, history, OwnAnswer, Mirror,
               AppliedOnSuccess, ReadFidelity
  <1>11. CASE Arrive
    BY <1>11 DEF Arrive, control, thread, history, Quiet, OwnAnswer, AnswersOp, Mirror,
                 AppliedOnSuccess, ReadFidelity
  <1>12. CASE UNCHANGED vars
    BY <1>12 DEF vars, Quiet, OwnAnswer, AnswersOp, Mirror, AppliedOnSuccess, ReadFidelity
  <1> QED BY <1>1, <1>2, <1>3, <1>4, <1>5, <1>6, <1>7, <1>8, <1>9, <1>10, <1>11, <1>12,
            <1>13 DEF Next, HostStep, LineStep

LEMMA CleanInvariant ==
  ASSUME CleanLine
  PROVE  Spec => []CleanInv
  BY InitTInv, NextTInv, InitClean, NextClean, PTL DEF Spec

(* On a clean line, a write that returned success on an acknowledgement is *)
(* in effect in the sensor, whatever was lost, damaged, rejected or tried  *)
(* again on the way.                                                       *)
THEOREM SuccessIsApplied ==
  ASSUME CleanLine
  PROVE  Spec => []AppliedOnSuccess
  <1>1. CleanInv => AppliedOnSuccess
    BY DEF CleanInv
  <1> QED BY <1>1, CleanInvariant, PTL

(* On a clean line, a register read returns what the register holds.       *)
THEOREM ReadsAreFaithful ==
  ASSUME CleanLine
  PROVE  Spec => []ReadFidelity
  <1>1. CleanInv => ReadFidelity
    BY DEF CleanInv
  <1> QED BY <1>1, CleanInvariant, PTL

(* On a clean line, currentMode is the sensor's mode unless the mode       *)
(* register was written behind it.                                         *)
THEOREM ModeIsMirrored ==
  ASSUME CleanLine
  PROVE  Spec => []ModeMirrors
  <1>1. CleanInv => ModeMirrors
    BY DEF CleanInv, Mirror, ModeMirrors
  <1> QED BY <1>1, CleanInvariant, PTL
=============================================================================
