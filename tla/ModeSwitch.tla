----------------------------- MODULE ModeSwitch -----------------------------
(***************************************************************************)
(* The work-mode path of the camera program: the command handlers          *)
(* (command/), the services they call (service/), ModeManager and          *)
(* ModeSwitchExecutor (mode/), MediaPipeline with its worker thread        *)
(* (media/pipeline), the cameras (device/) and their V4L2 buffer queues    *)
(* (hardware/v4l2).                                                        *)
(*                                                                         *)
(* Threads of the protocols submit commands.  switchTo() and stop() hold   *)
(* ModeManager's mutex_ from beginning to end, so its Busy answer is never *)
(* given; the handlers start and stop the main stream outside it.          *)
(*                                                                         *)
(* The sensor is used by its contract (SensorLink), and a camera's driver  *)
(* by V4L2's: VIDIOC_STREAMOFF returns every buffer to the program; until  *)
(* one is queued again poll() reports an error at once and VIDIOC_DQBUF    *)
(* blocks.                                                                 *)
(***************************************************************************)
EXTENDS Naturals

CONSTANTS Threads,          (* protocol threads                            *)
          AskedModes,       (* modes the commands name                     *)
          EnabledModes,     (* modes the configuration enables             *)
          EnabledCameras,   (* cameras the configuration enables           *)
          HasEncoder,       (* the runtime context has an encoder          *)
          Buffers,          (* buffers requested from the driver (4)       *)
          MaxSwitches,      (* bound: SET_WORK_MODE commands               *)
          MaxStreams        (* bound: START_STREAM, STOP_STREAM commands   *)

Cameras == {"visible", "composite"}
FusionModes == {"VisibleLowlightFusion", "VisibleThermalFusion", "VisibleCompositeFusion"}
WorkModes == {"VisibleOnly", "LowlightOnly", "ThermalOnly", "LowlightThermalComposite"}
                \cup FusionModes
SensorModes == {"LowlightOnly", "ThermalOnly", "LowlightThermalComposite"}

ASSUME SwitchAssumption ==
    /\ AskedModes \subseteq WorkModes
    /\ EnabledModes \subseteq WorkModes /\ EnabledCameras \subseteq Cameras
    /\ HasEncoder \in BOOLEAN
    /\ Buffers \in Nat \ {0}
    /\ MaxSwitches \in Nat /\ MaxStreams \in Nat
    /\ "free" \notin Threads

VARIABLES
    lock,         (* who holds ModeManager's mutex_                        *)
    stage,        (* state_.stage                                          *)
    currentMode,  (* state_.currentMode                                    *)
    pipeline,     (* the mode currentPipeline_ was built for, or "none"    *)
    pipeState,    (* its state_                                            *)
    stopFlag,     (* its stopFlag_                                         *)
    worker,       (* where its worker_ thread is                           *)
    cams,         (* each camera: open, streaming, buffers in the driver   *)
    stream,       (* the main stream's state_                              *)
    fusion,       (* the mode the fusion engine is set to                  *)
    sensor,       (* the output mode of the sensor (external)              *)
    skipSensor,   (* TRI_FUSION_SKIP_SENSOR_SWITCH is set                  *)
    pc, cmd,      (* where each thread is, and in which command            *)
    switches, streams    (* commands submitted                             *)

manager  == <<lock, stage, currentMode>>
media    == <<pipeline, pipeState, stopFlag, worker>>
outside  == <<fusion, sensor>>
counters == <<switches, streams>>
vars     == <<lock, stage, currentMode, pipeline, pipeState, stopFlag, worker, cams,
              stream, fusion, sensor, pc, cmd, switches, streams>>

----------------------------------------------------------------------------
(* ModeSwitchPlanner: what a mode needs. *)
CamerasOf(mode) ==
    IF mode = "none" THEN {}
    ELSE IF mode = "VisibleOnly" THEN {"visible"}
    ELSE IF mode \in FusionModes THEN Cameras
    ELSE {"composite"}
SensorOf(mode) ==
    IF mode \in {"LowlightOnly", "VisibleLowlightFusion"} THEN "LowlightOnly"
    ELSE IF mode \in {"ThermalOnly", "VisibleThermalFusion"} THEN "ThermalOnly"
    ELSE "LowlightThermalComposite"
NeedsSensor(mode) == "composite" \in CamerasOf(mode)
NeedsFusion(mode) == mode \in FusionModes
NeedsEncoder(mode) == mode # "VisibleOnly"

(* The camera whose frames the worker reads. *)
ReadFrom(mode) == IF "composite" \in CamerasOf(mode) THEN "composite" ELSE "visible"

(* queued counts the buffers in the driver; returned says that STREAMOFF   *)
(* has handed them back and none was queued since.                         *)
Closed == [open |-> FALSE, streaming |-> FALSE, queued |-> 0, returned |-> FALSE]

(* open(): an open camera is left as it is; a new one has all its buffers  *)
(* queued.                                                                 *)
OpenedMutant(camera) ==
    IF camera.open THEN camera ELSE [Closed EXCEPT !.open = TRUE, !.queued = Buffers + 1]
Opened(camera) ==
    IF camera.open THEN camera ELSE [Closed EXCEPT !.open = TRUE, !.queued = Buffers]

(* VIDIOC_STREAMON and VIDIOC_STREAMOFF, the latter only when streaming. *)
StreamOn(camera) == [camera EXCEPT !.streaming = TRUE]
StreamOff(camera) ==
    IF camera.streaming
      THEN [camera EXCEPT !.streaming = FALSE, !.queued = 0, !.returned = TRUE]
    ELSE camera

(* stopCaptureNodes() of a pipeline built for mode. *)
StopCamerasMutant(all, mode) ==
    [c \in Cameras |-> IF c = ReadFrom(mode) THEN StreamOff(all[c]) ELSE all[c]]
StopCameras(all, mode) ==
    [c \in Cameras |-> IF c \in CamerasOf(mode) THEN StreamOff(all[c]) ELSE all[c]]

----------------------------------------------------------------------------
Commands ==
         [type : {"SET_WORK_MODE"}, mode : AskedModes]
    \cup [type : {"START_STREAM", "STOP_STREAM"}, mode : {"none"}]
NoCommand == [type |-> "none", mode |-> "none"]

Init ==
    /\ lock = "free" /\ stage = "Idle" /\ currentMode = "none"
    /\ pipeline = "none" /\ pipeState = "none" /\ stopFlag = FALSE /\ worker = "none"
    /\ cams = [c \in Cameras |-> Closed]
    /\ stream = "Stopped"
    /\ fusion = "none" /\ sensor \in SensorModes /\ skipSensor \in BOOLEAN
    /\ pc = [t \in Threads |-> "idle"] /\ cmd = [t \in Threads |-> NoCommand]
    /\ switches = 0 /\ streams = 0

Goto(t, label) == pc' = [pc EXCEPT ![t] = label]

(* CommandBus::submit calls the handler in the calling thread. *)
Submit(t, c) ==
    /\ pc[t] = "idle"
    /\ \/ c.type = "SET_WORK_MODE" /\ switches < MaxSwitches
          /\ switches' = switches + 1 /\ UNCHANGED streams
       \/ c.type # "SET_WORK_MODE" /\ streams < MaxStreams
          /\ streams' = streams + 1 /\ UNCHANGED switches
    /\ cmd' = [cmd EXCEPT ![t] = c]
    /\ Goto(t, IF c.type = "START_STREAM" THEN "stream" ELSE "lock")
    /\ UNCHANGED <<manager, media, cams, stream, outside>>

(* The handlers' own call of the main stream, outside the mutex. *)
Stream(t) ==
    /\ pc[t] = "stream"
    /\ stream' = IF cmd[t].type = "START_STREAM" THEN "Running" ELSE "Stopped"
    /\ Goto(t, "idle")
    /\ UNCHANGED <<manager, media, cams, outside, cmd, counters>>

(* switchTo() fails: markError and return. *)
FailedStageMutant == "Running"
FailedStage == "Failed"
Fail(t) ==
    /\ stage' = FailedStage
    /\ lock' = "free"
    /\ Goto(t, "idle")
    /\ UNCHANGED <<currentMode, cmd, counters>>

Continue(t, label) == Goto(t, label) /\ UNCHANGED <<manager, cmd, counters>>

(* The mutex and, for a switch, the plan: a mode that is disabled fails    *)
(* before anything is stopped.                                             *)
Lock(t) ==
    /\ pc[t] = "lock" /\ lock = "free"
    /\ lock' = t
    /\ Goto(t, "plan")
    /\ UNCHANGED <<stage, currentMode, media, cams, stream, outside, cmd, counters>>

Plan(t) ==
    /\ pc[t] = "plan"
    /\ \/ /\ cmd[t].type = "SET_WORK_MODE" /\ cmd[t].mode \notin EnabledModes
          /\ Fail(t)
       \/ /\ cmd[t].type = "SET_WORK_MODE" /\ cmd[t].mode \in EnabledModes
          /\ stage' = "SwitchingCompositeSensor"
          /\ Goto(t, "halt")
          /\ UNCHANGED <<lock, currentMode, cmd, counters>>
       \/ cmd[t].type = "STOP_STREAM" /\ Continue(t, "halt")
    /\ UNCHANGED <<media, cams, stream, outside>>

(* ModeSwitchExecutor::stop: MediaPipeline::stop asks the worker to end.   *)
Halt(t) ==
    /\ pc[t] = "halt"
    /\ \/ pipeline = "none" /\ Continue(t, "halted") /\ UNCHANGED stopFlag
       \/ pipeline # "none" /\ stopFlag' = TRUE /\ Continue(t, "join")
    /\ UNCHANGED <<pipeline, pipeState, worker, cams, stream, outside>>

(* The worker has been joined: cameras and stream stop, and the pipeline   *)
(* is deleted.                                                             *)
JoinableMutant == TRUE
Joinable == worker = "none"
Join(t) ==
    /\ pc[t] = "join"
    /\ Joinable
    /\ cams' = StopCameras(cams, pipeline)
    /\ stream' = "Stopped"
    /\ pipeline' = "none" /\ pipeState' = "none"
    /\ Continue(t, "halted")
    /\ UNCHANGED <<stopFlag, worker, outside>>

(* A stop is done, and its handler stops the stream once more; a switch    *)
(* sets the fusion engine and goes on.                                     *)
Halted(t) ==
    /\ pc[t] = "halted"
    /\ \/ /\ cmd[t].type = "STOP_STREAM"
          /\ stage' = "Idle" /\ lock' = "free"
          /\ Goto(t, "stream")
          /\ UNCHANGED <<currentMode, fusion, cmd, counters>>
       \/ /\ cmd[t].type = "SET_WORK_MODE"
          /\ fusion' = IF NeedsFusion(cmd[t].mode) THEN cmd[t].mode ELSE fusion
          /\ Continue(t, IF NeedsSensor(cmd[t].mode) THEN "sensor" ELSE "open")
    /\ UNCHANGED <<media, cams, stream, sensor>>

(* setOutputMode, unless the environment says to skip it; a command that   *)
(* failed may have reached the sensor.                                     *)
Sensor(t) ==
    LET output == SensorOf(cmd[t].mode) IN
    /\ pc[t] = "sensor"
    /\ \/ skipSensor /\ Continue(t, "open") /\ UNCHANGED sensor
       \/ ~skipSensor /\ sensor' = output /\ Continue(t, "open")
       \/ ~skipSensor /\ sensor' \in {sensor, output} /\ Fail(t)
    /\ UNCHANGED <<media, cams, stream, fusion>>

(* openAllEnabled opens every camera that is enabled, also one the mode    *)
(* does not need, and fails at the first that cannot be opened.            *)
Open(t) ==
    /\ pc[t] = "open"
    /\ \/ /\ cams' = [c \in Cameras |->
                        IF c \in EnabledCameras THEN Opened(cams[c]) ELSE cams[c]]
          /\ Continue(t, "build")
       \/ /\ \E c \in EnabledCameras :
               /\ ~cams[c].open
               /\ cams' = IF c = "composite" /\ "visible" \in EnabledCameras
                            THEN [cams EXCEPT !["visible"] = Opened(@)]
                          ELSE cams
          /\ Fail(t)
    /\ UNCHANGED <<media, stream, outside>>

(* PipelineBuilder::build fails when the mode needs an encoder and there   *)
(* is none or it does not initialise; deleting the pipeline stops the main *)
(* stream (no camera streams yet).                                         *)
Build(t) ==
    /\ pc[t] = "build"
    /\ \/ /\ HasEncoder \/ ~NeedsEncoder(cmd[t].mode)
          /\ pipeline' = cmd[t].mode /\ pipeState' = "Initialized"
          /\ Continue(t, "start")
          /\ UNCHANGED stream
       \/ /\ NeedsEncoder(cmd[t].mode)
          /\ stream' = "Stopped"
          /\ Fail(t)
          /\ UNCHANGED <<pipeline, pipeState>>
    /\ UNCHANGED <<stopFlag, worker, cams, outside>>

(* MediaPipeline::start: the cameras, the main stream, the worker.  When a *)
(* camera does not start, deleting the pipeline stops the others and the   *)
(* stream.                                                                 *)
Start(t) ==
    /\ pc[t] = "start"
    /\ \/ /\ CamerasOf(pipeline) \subseteq EnabledCameras
          /\ cams' = [c \in Cameras |->
                        IF c \in CamerasOf(pipeline) THEN StreamOn(cams[c]) ELSE cams[c]]
          /\ stream' = "Running"
          /\ stopFlag' = FALSE
          /\ worker' = "loop"
          /\ Continue(t, "started")
          /\ UNCHANGED <<pipeline, pipeState>>
       \/ /\ \E c \in CamerasOf(pipeline) :
               LET before == IF c = "composite" THEN CamerasOf(pipeline) \ {c} ELSE {} IN
               /\ before \subseteq EnabledCameras
               /\ cams' = StopCameras([d \in Cameras |->
                             IF d \in before THEN StreamOn(cams[d]) ELSE cams[d]], pipeline)
          /\ stream' = "Stopped"
          /\ stopFlag' = TRUE
          /\ pipeline' = "none" /\ pipeState' = "none"
          /\ Fail(t)
          /\ UNCHANGED worker
    /\ UNCHANGED outside

(* The pipeline is marked Running after its worker has been started. *)
Started(t) ==
    /\ pc[t] = "started"
    /\ pipeState' = "Running"
    /\ stage' = "Running" /\ currentMode' = cmd[t].mode
    /\ lock' = "free"
    /\ Goto(t, "idle")
    /\ UNCHANGED <<pipeline, stopFlag, worker, cams, stream, outside, cmd, counters>>

----------------------------------------------------------------------------
(* The worker thread. *)

WorkerAt(label) ==
    /\ worker' = label
    /\ UNCHANGED <<manager, pipeline, stopFlag, stream, outside, pc, cmd, counters>>

MustEndMutant == stopFlag /\ pipeState # "Error"
MustEnd == stopFlag
WorkerLoop ==
    /\ worker = "loop"
    /\ \/ MustEnd /\ WorkerAt("none")
       \/ ~MustEnd /\ WorkerAt("reading")
    /\ UNCHANGED <<pipeState, cams>>

(* readFrame: a frame, a timeout, an error of the driver, or a frame whose *)
(* buffer the driver does not take back.  After STREAMOFF and STREAMON no  *)
(* buffer has been queued: it does not return.                             *)
WorkerRead ==
    LET camera == ReadFrom(pipeline) IN
    /\ worker = "reading"
    /\ ~cams[camera].returned
    /\ \/ cams[camera].queued > 0 /\ WorkerAt("push") /\ UNCHANGED <<pipeState, cams>>
       \/ WorkerAt("loop") /\ UNCHANGED <<pipeState, cams>>
       \/ WorkerAt("loop") /\ pipeState' = "Error" /\ UNCHANGED cams
       \/ /\ cams[camera].queued > 0
          /\ WorkerAt("loop") /\ pipeState' = "Error"
          /\ cams' = [cams EXCEPT ![camera].queued = @ - 1]

(* The frame is prepared, encoded and pushed; a stream that is stopped     *)
(* takes no frame.                                                         *)
WorkerPush ==
    /\ worker = "push"
    /\ WorkerAt("loop")
    /\ \/ stream = "Running" /\ UNCHANGED pipeState
       \/ pipeState' = "Error"
    /\ UNCHANGED cams

----------------------------------------------------------------------------
ThreadStep(t) ==
    \/ Stream(t) \/ Lock(t) \/ Plan(t) \/ Halt(t) \/ Join(t) \/ Halted(t)
    \/ Sensor(t) \/ Open(t) \/ Build(t) \/ Start(t) \/ Started(t)
WorkerStep == WorkerLoop \/ WorkerRead \/ WorkerPush

(* The environment variable is read where it is needed; it stays the same. *)
Next ==
    /\ UNCHANGED skipSensor
    /\ \/ \E t \in Threads, c \in Commands : Submit(t, c)
       \/ \E t \in Threads : ThreadStep(t)
       \/ WorkerStep

Spec == Init /\ [][Next]_<<vars, skipSensor>>

(* The threads run, and the mutex is given to a thread that waits for it;  *)
(* nobody has to submit a command.                                         *)
Fairness ==
    /\ \A t \in Threads : WF_vars(ThreadStep(t)) /\ SF_vars(Lock(t))
    /\ WF_vars(WorkerStep)
FairSpec == Spec /\ Fairness

----------------------------------------------------------------------------
Stages == {"Idle", "SwitchingCompositeSensor", "Running", "Failed"}
Labels == {"idle", "stream", "lock", "plan", "halt", "join", "halted", "sensor", "open",
           "build", "start", "started"}

TypeOK ==
    /\ lock \in Threads \cup {"free"} /\ stage \in Stages
    /\ currentMode \in WorkModes \cup {"none"} /\ pipeline \in WorkModes \cup {"none"}
    /\ pipeState \in {"none", "Initialized", "Running", "Error"}
    /\ stopFlag \in BOOLEAN /\ worker \in {"none", "loop", "reading", "push"}
    /\ cams \in [Cameras -> [open : BOOLEAN, streaming : BOOLEAN,
                            queued : 0 .. Buffers, returned : BOOLEAN]]
    /\ stream \in {"Stopped", "Running"}
    /\ fusion \in WorkModes \cup {"none"} /\ sensor \in SensorModes /\ skipSensor \in BOOLEAN
    /\ pc \in [Threads -> Labels] /\ cmd \in [Threads -> Commands \cup {NoCommand}]
    /\ switches \in 0 .. MaxSwitches /\ streams \in 0 .. MaxStreams

(* A worker thread never outlives its pipeline, whose fields it uses, and  *)
(* reads only from a camera that streams.                                  *)
WorkerHasPipeline ==
    worker # "none" => pipeline # "none" /\ \A c \in CamerasOf(pipeline) : cams[c].streaming

(* When no command holds the mutex, the cameras that stream are exactly    *)
(* the ones the pipeline uses, whichever step of which switch failed.      *)
CamerasMatchPipeline ==
    lock = "free" => {c \in Cameras : cams[c].streaming} = CamerasOf(pipeline)

(* What ModeManager reports is true when no command holds the mutex: in    *)
(* stage Running the pipeline of currentMode works with the sensor in its  *)
(* mode, in stage Idle nothing does.                                       *)
StageIsTrue ==
    lock = "free" =>
        /\ stage = "Running" =>
              /\ pipeline = currentMode /\ worker # "none"
              /\ NeedsSensor(currentMode) /\ ~skipSensor => sensor = SensorOf(currentMode)
              /\ NeedsFusion(currentMode) => fusion = currentMode
        /\ stage = "Idle" => pipeline = "none" /\ worker = "none"

(* Every command returns, if readFrame() does: a stop or a switch is never *)
(* stuck behind the worker it waits for in any other way.                  *)
CommandsReturn ==
    []<>(worker # "reading") => \A t \in Threads : pc[t] # "idle" ~> pc[t] = "idle"

(* readFrame(timeout) returns, with a frame, a timeout or an error.        *)
ReadFrameReturns == worker = "reading" ~> worker # "reading"
=============================================================================
