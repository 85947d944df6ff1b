----------------------------- MODULE SensorLink -----------------------------
(***************************************************************************)
(* device_control/CompositeSensorController over hardware/serial: register *)
(* reads and writes of the low-light/thermal sensor through a serial line. *)
(* A call writes a command and reads a fixed number of bytes back, and     *)
(* tries again when that fails.  Answers carry neither the register        *)
(* address nor a sequence number, and the port is flushed only when it is  *)
(* opened, so what a call reads is whatever is next on the line.           *)
(*                                                                         *)
(* The two directions of the line: commands under way to the sensor, and   *)
(* the bytes it has sent, the first `arrived' of which the kernel holds.   *)
(* A byte is the answer it belongs to and its place in it: bytes parse     *)
(* only when they are one whole, undamaged answer (header, length,         *)
(* command, status and checksum are all compared).                         *)
(***************************************************************************)
EXTENDS Naturals, Sequences

CONSTANTS Params,       (* registers beside the fusion mode register       *)
          Modes,        (* register values with an output mode             *)
          Default,      (* the value of a register of a new sensor         *)
          Attempts,     (* max(1, retryCount + 1)                          *)
          Chunks,       (* how many bytes may arrive at once               *)
          Faults,       (* what may happen to an answer on the line         *)
          CleanLine,    (* a read gives up only when no answer is under way *)
          AckOptional,  (* setAckRequired may be called (option --no-ack)   *)
          MaxCalls      (* bound: calls, and failed opens, in a behaviour  *)

ASSUME LinkAssumption ==
    /\ Default \in Nat
    /\ Modes \subseteq Nat \ {0}
    /\ Attempts \in Nat \ {0}
    /\ Chunks \subseteq Nat \ {0}
    /\ Faults \subseteq {"damaged", "short", "lost"}
    /\ CleanLine \in BOOLEAN /\ AckOptional \in BOOLEAN
    /\ MaxCalls \in Nat
    /\ {"FusionMode", "SaveConfig"} \cap Params = {}

VARIABLES
    \* the controller
    ready,         (* state_.initialized, state_.serialOnline, port open   *)
    ackRequired,   (* ackRequired_                                         *)
    currentMode,   (* state_.currentMode as a register value, 0 if Unknown *)
    errorCount,    (* state_.errorCount                                    *)
    pc,            (* where the calling thread is                          *)
    op,            (* the call it executes                                 *)
    attempt,       (* i of the retry loop, from 1                          *)
    \* the line and the sensor
    toDev,         (* commands under way to the sensor                     *)
    stream,        (* bytes sent by the sensor and not yet read            *)
    arrived,       (* how many of them have arrived                        *)
    dev,           (* the sensor's registers                               *)
    \* history variables
    calls,         (* how many calls were made                             *)
    last,          (* the last call that returned, and how                 *)
    modeTouched    (* the mode register was written behind currentMode     *)

control == <<ready, ackRequired, currentMode, errorCount>>
thread  == <<pc, op, attempt>>
line    == <<toDev, stream, arrived>>
history == <<calls, last, modeTouched>>
vars    == <<ready, ackRequired, currentMode, errorCount, pc, op, attempt, toDev,
             stream, arrived, dev, calls, last, modeTouched>>

Registers == Params \cup {"FusionMode"}
Values    == Modes \cup {Default}

----------------------------------------------------------------------------
(* The calls and their commands.  The named setters check the range of     *)
(* their argument and call writeRegister.                                  *)
WriteCalls ==
         [call : {"setFusionMode"}, reg : {"FusionMode"}, value : Modes]
    \cup [call : {"writeRegister"}, reg : Registers, value : Values]
    \cup [call : {"restoreDefaultConfig"}, reg : {"SaveConfig"}, value : {0}]
ReadCalls ==
         [call : {"getFusionMode"}, reg : {"FusionMode"}, value : {0}]
    \cup [call : {"readRegister"}, reg : Registers, value : {0}]
Calls == WriteCalls \cup ReadCalls

Kind(c) == IF c.call \in {"getFusionMode", "readRegister"} THEN "read" ELSE "write"

(* kWriteAckBytes and kReadAckBytes *)
AckBytes(kind) == IF kind = "write" THEN 10 ELSE 12

(* outputModeFromRegisterValue; 0 is CompositeSensorOutputMode::Unknown. *)
ModeFromRegister(value) == IF value \in Modes THEN value ELSE 0

(* The sensor carries out a command. *)
Effect(registers, c) ==
    IF c.call = "restoreDefaultConfig"
      THEN [r \in Registers |-> Default]
    ELSE IF Kind(c) = "write"
      THEN [registers EXCEPT ![c.reg] = c.value]
    ELSE registers

TouchesMode(c) ==
    c.call = "restoreDefaultConfig" \/ (Kind(c) = "write" /\ c.reg = "FusionMode")

(* Its answer, on the wire. *)
Answers == [kind : {"read", "write"}, status : {"Executable", "Rejected", "damaged"},
            data : Values \cup {0}]
Answer(c, status, registers) ==
    [kind |-> Kind(c), status |-> status,
     data |-> IF Kind(c) = "read" /\ status = "Executable" THEN registers[c.reg] ELSE 0]
Bytes(answer) == [i \in 1 .. AckBytes(answer.kind) |-> <<answer, i>>]

(* parseWriteRegisterAck and parseReadRegisterAck: the answer is accepted  *)
(* if it is one answer to a command of this kind, undamaged and positive.  *)
ParsesAsMutant(bytes, kind, answer) ==
    answer.kind = kind /\ bytes = Bytes(answer)
ParsesAs(bytes, kind, answer) ==
    /\ answer.kind = kind
    /\ answer.status = "Executable"
    /\ bytes = Bytes(answer)

(* The answer a call has read, if it accepts it. *)
Accepted(bytes, kind) == {a \in Answers : ParsesAs(bytes, kind, a)}

(* What is left of the sensor's bytes when n of them have been read. *)
Rest(n) == SubSeq(stream, n + 1, Len(stream))

----------------------------------------------------------------------------
NoCall == [call |-> "none"]

Init ==
    /\ ready = FALSE /\ ackRequired = TRUE /\ currentMode = 0 /\ errorCount = 0
    /\ pc = "idle" /\ op = NoCall /\ attempt = 0
    /\ toDev = <<>> /\ stream = <<>> /\ arrived = 0
    /\ dev = [r \in Registers |-> Default]
    /\ calls = 0
    /\ last = [op |-> NoCall, how |-> "none", data |-> 0]
    /\ modeTouched = FALSE

(* init(): opening the port flushes what has arrived. *)
Open ==
    /\ pc = "idle" /\ ~ready
    /\ ready' = TRUE
    /\ stream' = Rest(arrived)
    /\ arrived' = 0
    /\ UNCHANGED <<ackRequired, currentMode, errorCount, thread, toDev, dev, history>>

(* The port cannot be opened or set up. *)
OpenFails ==
    /\ pc = "idle" /\ ~ready
    /\ calls < MaxCalls
    /\ calls' = calls + 1
    /\ errorCount' = errorCount + 1
    /\ UNCHANGED <<ready, ackRequired, currentMode, thread, line, dev, last, modeTouched>>

Shutdown ==
    /\ pc = "idle" /\ ready
    /\ ready' = FALSE
    /\ UNCHANGED <<ackRequired, currentMode, errorCount, thread, line, dev, history>>

SetAckRequired ==
    /\ AckOptional
    /\ pc = "idle"
    /\ ackRequired' = ~ackRequired
    /\ UNCHANGED <<ready, currentMode, errorCount, thread, line, dev, history>>

(* How a call returns.  A successful mode call sets currentMode; a read of *)
(* a mode the code does not know is an error of getFusionMode, while       *)
(* readRegister itself has succeeded.                                      *)
Return(how, data) ==
    LET mode == IF op.call = "setFusionMode" THEN op.value ELSE ModeFromRegister(data)
        sets == /\ how # "failed" /\ mode # 0
                /\ op.call \in {"setFusionMode", "getFusionMode"}
    IN  /\ pc' = "idle"
        /\ attempt' = 0
        /\ currentMode' = IF sets THEN mode ELSE currentMode
        /\ errorCount' = IF how = "failed" THEN errorCount + 1 ELSE errorCount
        /\ last' = [op |-> op, how |-> how, data |-> data]
        /\ modeTouched' = IF sets /\ how = "acked" THEN FALSE
                          ELSE modeTouched \/ TouchesMode(op)
        /\ UNCHANGED <<ready, ackRequired, op, calls>>

(* One attempt has failed. *)
RetryMutant ==
    /\ pc' = "send"
    /\ attempt' = attempt + 1
    /\ UNCHANGED <<control, op, history>>
RetryForever ==
    /\ pc' = "send"
    /\ UNCHANGED <<control, op, attempt, history>>
Retry ==
    \/ /\ attempt < Attempts
       /\ pc' = "send"
       /\ attempt' = attempt + 1
       /\ UNCHANGED <<control, op, history>>
    \/ /\ attempt >= Attempts
       /\ Return("failed", 0)

(* A call on a controller that is not ready returns at once. *)
Begin(c) ==
    /\ pc = "idle" /\ ready
    /\ calls < MaxCalls
    /\ calls' = calls + 1
    /\ pc' = "send" /\ op' = c /\ attempt' = 1
    /\ last' = [op |-> NoCall, how |-> "none", data |-> 0]
    /\ UNCHANGED <<control, line, dev, modeTouched>>

(* writeBytes *)
Send ==
    /\ pc = "send"
    /\ toDev' = Append(toDev, op)
    /\ pc' = "read"
    /\ UNCHANGED <<control, op, attempt, stream, arrived, dev, history>>

(* A failed write leaves nothing the sensor would recognise on the line. *)
SendFail ==
    /\ pc = "send"
    /\ Retry
    /\ UNCHANGED <<line, dev>>

(* readExact has all the bytes it wants. *)
ReadDone ==
    LET need  == AckBytes(Kind(op))
        bytes == SubSeq(stream, 1, need)
    IN  /\ pc = "read"
        /\ arrived >= need
        /\ stream' = Rest(need)
        /\ arrived' = arrived - need
        /\ \/ \E a \in Accepted(bytes, Kind(op)) : Return("acked", a.data)
           \/ Accepted(bytes, Kind(op)) = {} /\ Retry
        /\ UNCHANGED <<toDev, dev>>

(* Nothing more arrives in time, or poll or read fails.  The bytes read so *)
(* far are dropped; after a timeout a write counts as done if no           *)
(* acknowledgement is required.                                            *)
NothingUnderWay == toDev = <<>> /\ arrived = Len(stream)
ReadFails ==
    /\ pc = "read"
    /\ arrived < AckBytes(Kind(op))
    /\ CleanLine => NothingUnderWay
    /\ stream' = Rest(arrived)
    /\ arrived' = 0
    /\ \/ /\ Kind(op) = "write" /\ ~ackRequired
          /\ Return("unacked", 0)
       \/ Retry
    /\ UNCHANGED <<toDev, dev>>

----------------------------------------------------------------------------
(* The sensor and the line (external). *)

(* The sensor takes the next command, carries it out or rejects it, and    *)
(* answers; the answer may be damaged, cut short or lost.                  *)
DeviceAnswers(c, status) ==
    LET answer == Answer(c, status, dev)
        whole  == Bytes(answer)
    IN  \/ stream' = stream \o whole
        \/ "damaged" \in Faults /\ stream' = stream \o Bytes(Answer(c, "damaged", dev))
        \/ "short" \in Faults /\ stream' = stream \o SubSeq(whole, 1, Len(whole) - 1)
        \/ "lost" \in Faults /\ UNCHANGED stream

Device ==
    /\ toDev # <<>>
    /\ toDev' = Tail(toDev)
    /\ \/ DeviceAnswers(Head(toDev), "Executable") /\ dev' = Effect(dev, Head(toDev))
       \/ DeviceAnswers(Head(toDev), "Rejected") /\ UNCHANGED dev
    /\ UNCHANGED <<control, thread, arrived, history>>

(* A command the sensor does not recognise any more. *)
CommandLost ==
    /\ toDev # <<>>
    /\ toDev' = Tail(toDev)
    /\ UNCHANGED <<control, thread, stream, arrived, dev, history>>

Arrive ==
    /\ arrived < Len(stream)
    /\ \E k \in Chunks : arrived' = IF arrived + k < Len(stream) THEN arrived + k ELSE Len(stream)
    /\ UNCHANGED <<control, thread, toDev, stream, dev, history>>

----------------------------------------------------------------------------
HostStep == Send \/ SendFail \/ ReadDone \/ ReadFails
LineStep == Device \/ CommandLost \/ Arrive

Next ==
    \/ Open \/ OpenFails \/ Shutdown \/ SetAckRequired
    \/ \E c \in Calls : Begin(c)
    \/ HostStep
    \/ LineStep

Spec == Init /\ [][Next]_vars

(* Only the calling thread has to go on: the sensor may stay silent. *)
FairSpec == Spec /\ WF_vars(HostStep)

(* A clean line means timeouts longer than any delay, so what is under way *)
(* is delivered or lost.                                                   *)
CleanFairSpec == FairSpec /\ WF_vars(LineStep)

----------------------------------------------------------------------------
TypeOK ==
    /\ ready \in BOOLEAN /\ ackRequired \in BOOLEAN /\ modeTouched \in BOOLEAN
    /\ currentMode \in Modes \cup {0}
    /\ pc \in {"idle", "send", "read"}
    /\ op \in Calls \cup {NoCall}
    /\ attempt \in 0 .. Attempts
    /\ toDev \in Seq(Calls)
    /\ stream \in Seq(Answers \X (1 .. 12)) /\ arrived \in 0 .. Len(stream)
    /\ dev \in [Registers -> Values]
    /\ last \in [op : Calls \cup {NoCall}, how : {"none", "acked", "unacked", "failed"},
                 data : Values \cup {0}]
    /\ errorCount \in Nat /\ calls \in Nat

(* A write that returned success on an acknowledgement is in effect in the *)
(* sensor: the command would change nothing any more, and no earlier       *)
(* command is left on the line to undo it.                                 *)
AppliedOnSuccess ==
    last.how = "acked" /\ last.op \in WriteCalls => Effect(dev, last.op) = dev

(* A register read returns what the sensor has in that register, and not   *)
(* the answer to an earlier read of another one.                           *)
ReadFidelity ==
    last.how = "acked" /\ last.op \in ReadCalls => last.data = dev[last.op.reg]

(* currentMode, which the rest of the program shows to its clients, is the *)
(* sensor's mode unless the mode register was written in another way or    *)
(* without an answer since.                                                *)
ModeMirrors ==
    pc = "idle" /\ currentMode # 0 /\ ~modeTouched => dev["FusionMode"] = currentMode

(* A call returns after its attempts even if the sensor never answers.     *)
CallReturns == pc # "idle" ~> pc = "idle"
=============================================================================
