-------------------------- MODULE ModeSwitchProofs --------------------------
(***************************************************************************)
(* Proofs about the work-mode path for any number of protocol threads, any *)
(* modes and cameras enabled, and any number of commands.                  *)
(***************************************************************************)
EXTENDS ModeSwitch, TLAPS

InMutex == {"plan", "halt", "join", "halted", "sensor", "open", "build", "start", "started"}
Switching == {"sensor", "open", "build", "start", "started"}
Streaming == {c \in Cameras : cams[c].streaming}

(* One thread is inside switchTo() or stop(), and it holds the mutex; only *)
(* a switch goes beyond the stop.                                          *)
MutexOK ==
    /\ lock # "free" => pc[lock] \in InMutex
    /\ \A t \in Threads : pc[t] \in InMutex => lock = t
    /\ \A t \in Threads : pc[t] \in Switching => cmd[t].type = "SET_WORK_MODE"

(* Between two commands.  A worker that lives has not been told to end.    *)
Between ==
    lock = "free" =>
        /\ Streaming = CamerasOf(pipeline)
        /\ worker # "none" => pipeline # "none" /\ ~stopFlag

(* While t holds the mutex: what is left of the old pipeline, or there of  *)
(* the new one, at each step.  The worker ends only because t told it to,  *)
(* and waits for it; it is started last.                                   *)
During(t) ==
    /\ Streaming = IF pc[t] = "start" THEN {} ELSE CamerasOf(pipeline)
    /\ pc[t] \in {"halted", "sensor", "open", "build"} => pipeline = "none"
    /\ pc[t] \in {"halted", "sensor", "open", "build", "start"} => worker = "none"
    /\ pc[t] \in {"start", "started"} => pipeline = cmd[t].mode
    /\ worker # "none" => pipeline # "none" /\ (stopFlag => pc[t] = "join")
    /\ pc[t] = "started" => worker # "none"
    /\ pc[t] \in Switching /\ NeedsFusion(cmd[t].mode) => fusion = cmd[t].mode
    /\ pc[t] \in Switching \ {"sensor"} /\ NeedsSensor(cmd[t].mode) /\ ~skipSensor
         => sensor = SensorOf(cmd[t].mode)

MInv ==
    /\ TypeOK /\ MutexOK /\ StageIsTrue /\ Between
    /\ \A t \in Threads : lock = t => During(t)

----------------------------------------------------------------------------
(* Types *)

LEMMA CommandFacts ==
  ASSUME TypeOK, NEW t \in Threads
  PROVE  /\ cmd[t].mode \in WorkModes \cup {"none"}
         /\ cmd[t].type = "SET_WORK_MODE" => cmd[t].mode \in WorkModes
  <1>1. cmd[t] \in Commands \cup {NoCommand}
    BY DEF TypeOK
  <1>2. AskedModes \subseteq WorkModes
    BY SwitchAssumption
  <1> QED BY <1>1, <1>2 DEF Commands, NoCommand

Camera == [open : BOOLEAN, streaming : BOOLEAN, queued : 0 .. Buffers, returned : BOOLEAN]

LEMMA CameraFacts ==
  ASSUME NEW c \in Camera
  PROVE  /\ Opened(c) \in Camera /\ (Opened(c).streaming => c.streaming)
         /\ StreamOn(c) \in Camera /\ StreamOn(c).streaming
         /\ StreamOff(c) \in Camera /\ ~StreamOff(c).streaming
         /\ Closed \in Camera /\ ~Closed.streaming
  <1>1. Buffers \in Nat /\ 0 \in 0 .. Buffers /\ Buffers \in 0 .. Buffers
    BY SwitchAssumption
  <1>2. Closed \in Camera /\ ~Closed.streaming
    BY <1>1 DEF Closed, Camera
  <1>3. Opened(c) \in Camera /\ (Opened(c).streaming => c.streaming)
    BY <1>1 DEF Opened, Closed, Camera
  <1>4. StreamOn(c) \in Camera /\ StreamOn(c).streaming
    BY DEF StreamOn, Camera
  <1>5. StreamOff(c) \in Camera /\ ~StreamOff(c).streaming
    BY <1>1 DEF StreamOff, Camera
  <1> QED BY <1>2, <1>3, <1>4, <1>5

CamsType == cams \in [Cameras -> Camera]

LEMMA InitType == Init => TypeOK
  <1> SUFFICES ASSUME Init PROVE TypeOK
    OBVIOUS
  <1>1. 0 \in 0 .. MaxSwitches /\ 0 \in 0 .. MaxStreams
    BY SwitchAssumption
  <1>2. Closed \in [open : BOOLEAN, streaming : BOOLEAN, queued : 0 .. Buffers, returned : BOOLEAN]
    BY SwitchAssumption DEF Closed
  <1> QED BY <1>1, <1>2 DEF Init, TypeOK, Stages, Labels

LEMMA SubmitType ==
  ASSUME TypeOK, NEW t \in Threads, NEW c \in Commands, Submit(t, c),
         UNCHANGED skipSensor
  PROVE  TypeOK'
  <1>1. switches' \in 0 .. MaxSwitches /\ streams' \in 0 .. MaxStreams
    BY SwitchAssumption DEF Submit, TypeOK
  <1>2. cmd' \in [Threads -> Commands \cup {NoCommand}]
    BY DEF Submit, TypeOK
  <1>3. pc' \in [Threads -> Labels]
    BY DEF Submit, TypeOK, Goto, Labels
  <1> QED BY <1>1, <1>2, <1>3 DEF Submit, TypeOK, manager, media, outside

LEMMA ThreadType ==
  ASSUME TypeOK, NEW t \in Threads, ThreadStep(t), UNCHANGED skipSensor
  PROVE  TypeOK'
  <1>0. /\ CamsType
        /\ cmd[t].mode \in WorkModes \cup {"none"}
        /\ "none" \notin WorkModes
    BY CommandFacts DEF TypeOK, CamsType, Camera, WorkModes, FusionModes
  <1>1. \A label \in Labels : Goto(t, label) => pc' \in [Threads -> Labels]
    BY DEF Goto, TypeOK
  <1>2. CamsType' => cams' \in [Cameras -> [open : BOOLEAN, streaming : BOOLEAN,
                                           queued : 0 .. Buffers, returned : BOOLEAN]]
    BY DEF CamsType, Camera
  <1> USE DEF Continue, Fail, FailedStage, manager, media, outside, counters
  <1>3. CASE Stream(t) \/ Lock(t) \/ Plan(t) \/ Halt(t)
    BY <1>1, <1>3, ZenonT(30) DEF Stream, Lock, Plan, Halt, TypeOK, Stages, Labels
  <1>4. CASE Join(t)
    <2>1. \A c \in Cameras : cams'[c] \in Camera
      BY <1>0, <1>4, CameraFacts DEF Join, StopCameras, CamsType
    <2>2. CamsType'
      BY <1>4, <2>1 DEF Join, StopCameras, CamsType
    <2> QED BY <1>1, <1>2, <1>4, <2>2 DEF Join, TypeOK, Labels
  <1>5. CASE Halted(t)
    BY <1>0, <1>1, <1>5 DEF Halted, TypeOK, Stages, Labels
  <1>6. CASE Sensor(t)
    <2>1. SensorOf(cmd[t].mode) \in SensorModes
      BY DEF SensorOf, SensorModes
    <2> QED BY <1>1, <1>6, <2>1 DEF Sensor, TypeOK, Stages, Labels
  <1>7. CASE Open(t)
    <2>1. CamsType'
      BY <1>0, <1>7, CameraFacts DEF Open, CamsType
    <2> QED BY <1>1, <1>2, <1>7, <2>1 DEF Open, TypeOK, Stages, Labels
  <1>8. CASE Build(t)
    BY <1>0, <1>1, <1>8 DEF Build, TypeOK, Stages, Labels
  <1>9. CASE Start(t)
    <2>1. CamsType'
      BY <1>0, <1>9, CameraFacts DEF Start, StopCameras, CamsType
    <2> QED BY <1>1, <1>2, <1>9, <2>1 DEF Start, TypeOK, Stages, Labels
  <1>10. CASE Started(t)
    BY <1>0, <1>1, <1>10 DEF Started, TypeOK, Stages, Labels
  <1> QED BY <1>3, <1>4, <1>5, <1>6, <1>7, <1>8, <1>9, <1>10 DEF ThreadStep

LEMMA WorkerType ==
  ASSUME TypeOK, WorkerStep, UNCHANGED skipSensor
  PROVE  TypeOK'
  <1> USE DEF WorkerAt, manager, outside, counters
  <1>1. CASE WorkerLoop
    BY <1>1 DEF WorkerLoop, TypeOK
  <1>2. CASE WorkerRead
    <2>1. cams' \in [Cameras -> [open : BOOLEAN, streaming : BOOLEAN,
                               queued : 0 .. Buffers, returned : BOOLEAN]]
      BY <1>2, SwitchAssumption DEF WorkerRead, TypeOK
    <2> QED BY <1>2, <2>1 DEF WorkerRead, TypeOK
  <1>3. CASE WorkerPush
    BY <1>3 DEF WorkerPush, TypeOK
  <1> QED BY <1>1, <1>2, <1>3 DEF WorkerStep

----------------------------------------------------------------------------
(* The mutex *)

(* A thread inside the mutex moves: the others are outside.                *)
LEMMA Alone ==
  ASSUME TypeOK, MutexOK, NEW t \in Threads, pc[t] \in InMutex
  PROVE  /\ lock = t /\ lock # "free"
         /\ \A u \in Threads : u # t => pc[u] \notin InMutex
         /\ \A label : Goto(t, label) =>
              pc'[t] = label /\ \A u \in Threads : u # t => pc'[u] = pc[u]
  BY SwitchAssumption DEF TypeOK, MutexOK, Goto

LEMMA SubmitMutex ==
  ASSUME TypeOK, MutexOK, NEW t \in Threads, NEW c \in Commands, Submit(t, c)
  PROVE  MutexOK'
  <1>1. /\ pc[t] = "idle" /\ lock' = lock
        /\ pc' = [pc EXCEPT ![t] = IF c.type = "START_STREAM" THEN "stream" ELSE "lock"]
        /\ cmd' = [cmd EXCEPT ![t] = c]
    BY DEF Submit, Goto, manager
  <1>2. /\ pc'[t] \notin InMutex /\ pc[t] \notin InMutex
        /\ \A u \in Threads : u # t => pc'[u] = pc[u] /\ cmd'[u] = cmd[u]
    BY <1>1 DEF TypeOK, InMutex
  <1>3. Switching \subseteq InMutex
    BY DEF Switching, InMutex
  <1> QED BY <1>1, <1>2, <1>3 DEF MutexOK, TypeOK

LEMMA ThreadMutex ==
  ASSUME TypeOK, MutexOK, NEW t \in Threads, ThreadStep(t)
  PROVE  MutexOK'
  <1>1. cmd[t] \in Commands \cup {NoCommand} /\ pc[t] \in Labels
    BY DEF TypeOK
  <1>2. cmd' = cmd
    BY DEF ThreadStep, Stream, Lock, Plan, Halt, Join, Halted, Sensor, Open, Build, Start,
           Started, Continue, Fail
  <1>3. CASE Stream(t)
    <2>1. pc[t] = "stream" /\ pc' = [pc EXCEPT ![t] = "idle"] /\ lock' = lock
      BY <1>3 DEF Stream, Goto, manager
    <2>2. pc[t] \notin InMutex /\ pc'[t] \notin InMutex
          /\ \A u \in Threads : u # t => pc'[u] = pc[u]
      BY <2>1 DEF TypeOK, InMutex
    <2>3. Switching \subseteq InMutex
      BY DEF Switching, InMutex
    <2> QED BY <1>2, <2>1, <2>2, <2>3 DEF MutexOK, TypeOK
  <1>4. CASE Lock(t)
    <2>1. pc[t] = "lock" /\ pc' = [pc EXCEPT ![t] = "plan"] /\ lock = "free" /\ lock' = t
      BY <1>4 DEF Lock, Goto
    <2>2. pc'[t] = "plan" /\ \A u \in Threads : u # t => pc'[u] = pc[u]
      BY <2>1 DEF TypeOK
    <2>3. \A u \in Threads : u # t => pc[u] \notin InMutex
      BY <2>1, SwitchAssumption DEF MutexOK
    <2>4. Switching \subseteq InMutex /\ "plan" \in InMutex /\ "plan" \notin Switching
      BY DEF Switching, InMutex
    <2> QED BY <1>2, <2>1, <2>2, <2>3, <2>4 DEF MutexOK
  <1>5. CASE ~Stream(t) /\ ~Lock(t)
    <2>1. pc[t] \in InMutex
      BY <1>5 DEF ThreadStep, InMutex, Plan, Halt, Join, Halted, Sensor, Open, Build, Start, Started
    <2>2. PICK label \in Labels :
            /\ Goto(t, label)
            /\ \/ label \in InMutex /\ lock' = lock
               \/ label \notin InMutex /\ lock' = "free"
            /\ label \in Switching => cmd[t].type = "SET_WORK_MODE"
      <3>1. CASE Plan(t)
        BY <3>1 DEF Plan, Continue, Fail, manager, InMutex, Switching, Labels
      <3>2. CASE Halt(t)
        BY <3>2 DEF Halt, Continue, manager, InMutex, Switching, Labels
      <3>3. CASE Join(t)
        BY <3>3 DEF Join, Continue, manager, InMutex, Switching, Labels
      <3>4. CASE Halted(t)
        BY <3>4 DEF Halted, Continue, manager, InMutex, Switching, Labels
      <3>5. CASE Sensor(t)
        BY <3>5 DEF Sensor, Continue, Fail, manager, InMutex, Switching, Labels, MutexOK
      <3>6. CASE Open(t)
        BY <3>6 DEF Open, Continue, Fail, manager, InMutex, Switching, Labels, MutexOK
      <3>7. CASE Build(t)
        BY <3>7 DEF Build, Continue, Fail, manager, InMutex, Switching, Labels, MutexOK
      <3>8. CASE Start(t)
        BY <3>8 DEF Start, Continue, Fail, manager, InMutex, Switching, Labels, MutexOK
      <3>9. CASE Started(t)
        BY <3>9 DEF Started, InMutex, Switching, Labels
      <3> QED BY <1>5, <3>1, <3>2, <3>3, <3>4, <3>5, <3>6, <3>7, <3>8, <3>9 DEF ThreadStep
    <2>3. /\ lock = t /\ lock # "free" /\ pc'[t] = label
          /\ \A u \in Threads : u # t => pc[u] \notin InMutex /\ pc'[u] = pc[u]
      BY <2>1, <2>2, Alone
    <2>4. Switching \subseteq InMutex
      BY DEF Switching, InMutex
    <2> QED BY <1>2, <2>2, <2>3, <2>4 DEF MutexOK
  <1> QED BY <1>3, <1>4, <1>5

----------------------------------------------------------------------------
(* The rest of the invariant.  Steps of a thread that does not hold the    *)
(* mutex leave the other one's step alone.                                 *)

LEMMA InitInv == Init => MInv
  <1> SUFFICES ASSUME Init PROVE MInv
    OBVIOUS
  <1>1. Streaming = {} /\ CamerasOf("none") = {}
    BY DEF Init, Streaming, Closed, CamerasOf
  <1>2. MutexOK /\ Between /\ StageIsTrue
    BY <1>1 DEF Init, MutexOK, Between, StageIsTrue, InMutex, Switching
  <1>3. \A t \in Threads : lock # t
    BY SwitchAssumption DEF Init
  <1> QED BY <1>2, <1>3, InitType DEF MInv

LEMMA SubmitInv ==
  ASSUME MInv, NEW t \in Threads, NEW c \in Commands, Submit(t, c), UNCHANGED skipSensor
  PROVE  MInv'
  <1>1. TypeOK' /\ MutexOK'
    BY SubmitType, SubmitMutex DEF MInv
  <1>2. UNCHANGED <<lock, stage, currentMode, pipeline, pipeState, stopFlag, worker, cams,
                    stream, fusion, sensor>>
    BY DEF Submit, manager, media, outside
  <1>3. Streaming' = Streaming
    BY <1>2 DEF Streaming
  <1>4. StageIsTrue' /\ Between'
    BY <1>2, <1>3 DEF MInv, StageIsTrue, Between
  <1>5. ASSUME NEW u \in Threads, lock' = u PROVE During(u)'
    <2>1. lock = u /\ During(u) /\ u # t
      BY <1>2, <1>5, SwitchAssumption DEF MInv, MutexOK, Submit, InMutex
    <2>2. pc'[u] = pc[u] /\ cmd'[u] = cmd[u]
      BY <2>1 DEF MInv, TypeOK, Submit, Goto
    <2> QED BY <1>2, <1>3, <2>1, <2>2 DEF During
  <1> QED BY <1>1, <1>4, <1>5 DEF MInv

LEMMA StreamInv ==
  ASSUME MInv, NEW t \in Threads, Stream(t), UNCHANGED skipSensor
  PROVE  MInv'
  <1>1. TypeOK' /\ MutexOK'
    BY ThreadType, ThreadMutex DEF MInv, ThreadStep
  <1>2. UNCHANGED <<lock, stage, currentMode, pipeline, pipeState, stopFlag, worker, cams,
                    fusion, sensor, cmd>>
    BY DEF Stream, manager, media, outside
  <1>3. Streaming' = Streaming
    BY <1>2 DEF Streaming
  <1>4. StageIsTrue' /\ Between'
    BY <1>2, <1>3 DEF MInv, StageIsTrue, Between
  <1>5. ASSUME NEW u \in Threads, lock' = u PROVE During(u)'
    <2>1. lock = u /\ During(u) /\ u # t
      BY <1>2, <1>5, SwitchAssumption DEF MInv, MutexOK, Stream, InMutex
    <2>2. pc'[u] = pc[u]
      BY <2>1 DEF MInv, TypeOK, Stream, Goto
    <2> QED BY <1>2, <1>3, <2>1, <2>2 DEF During
  <1> QED BY <1>1, <1>4, <1>5 DEF MInv

(* The mutex is taken: what held between two commands holds for the first  *)
(* step.                                                                   *)
LEMMA LockInv ==
  ASSUME MInv, NEW t \in Threads, Lock(t), UNCHANGED skipSensor
  PROVE  MInv'
  <1>1. TypeOK' /\ MutexOK'
    BY ThreadType, ThreadMutex DEF MInv, ThreadStep
  <1>2. /\ lock = "free" /\ lock' = t /\ t # "free" /\ pc'[t] = "plan"
        /\ UNCHANGED <<pipeline, stopFlag, worker, cams, fusion, sensor, cmd>>
    BY SwitchAssumption DEF Lock, media, outside, Goto, MInv, TypeOK
  <1>3. Streaming' = Streaming
    BY <1>2 DEF Streaming
  <1>4. During(t)'
    BY <1>2, <1>3 DEF MInv, Between, During, Switching
  <1>5. StageIsTrue' /\ Between'
    BY <1>2 DEF StageIsTrue, Between
  <1> QED BY <1>1, <1>2, <1>4, <1>5 DEF MInv

LEMMA WorkerInv ==
  ASSUME MInv, WorkerStep, UNCHANGED skipSensor
  PROVE  MInv'
  <1>1. TypeOK'
    BY WorkerType DEF MInv
  <1>2. UNCHANGED <<lock, stage, currentMode, pipeline, stopFlag, fusion, sensor, pc, cmd>>
    BY DEF WorkerStep, WorkerLoop, WorkerRead, WorkerPush, WorkerAt, manager, outside
  <1>3. Streaming' = Streaming
    BY DEF WorkerStep, WorkerLoop, WorkerRead, WorkerPush, Streaming, MInv, TypeOK
  <1>4. worker # "none" /\ (worker' = "none" => stopFlag)
    BY DEF WorkerStep, WorkerLoop, WorkerRead, WorkerPush, WorkerAt, MustEnd
  <1>5. MutexOK'
    BY <1>2 DEF MInv, MutexOK
  <1>6. Between'
    BY <1>2, <1>3, <1>4 DEF MInv, Between
  <1>7. StageIsTrue'
    BY <1>2, <1>4 DEF MInv, Between, StageIsTrue
  <1>8. ASSUME NEW u \in Threads, lock' = u PROVE During(u)'
    <2>1. During(u)
      BY <1>2, <1>8 DEF MInv
    <2> QED BY <1>2, <1>3, <1>4, <2>1 DEF During
  <1> QED BY <1>1, <1>5, <1>6, <1>7, <1>8 DEF MInv

----------------------------------------------------------------------------
(* The steps under the mutex: either t keeps it, and During(t) must hold   *)
(* at its next step, or it gives the mutex up.                             *)

LEMMA Holder ==
  ASSUME MInv, NEW t \in Threads, pc[t] \in InMutex
  PROVE  /\ lock = t /\ t # "free" /\ During(t)
         /\ \A label : Goto(t, label) => pc'[t] = label
  BY Alone DEF MInv

LEMMA Keeps ==
  ASSUME MInv, NEW t \in Threads, ThreadStep(t), UNCHANGED skipSensor,
         pc[t] \in InMutex, lock' = lock, During(t)'
  PROVE  MInv'
  <1>1. lock' = t /\ t # "free"
    BY Holder
  <1>2. TypeOK' /\ MutexOK'
    BY ThreadType, ThreadMutex DEF MInv
  <1> QED BY <1>1, <1>2 DEF MInv, Between, StageIsTrue

LEMMA Releases ==
  ASSUME MInv, NEW t \in Threads, ThreadStep(t), UNCHANGED skipSensor, lock' = "free",
         Between', StageIsTrue'
  PROVE  MInv'
  <1>1. TypeOK' /\ MutexOK'
    BY ThreadType, ThreadMutex DEF MInv
  <1>2. \A u \in Threads : lock' # u
    BY SwitchAssumption
  <1> QED BY <1>1, <1>2 DEF MInv

(* A switch that fails may leave anything that is consistent in itself.    *)
LEMMA Fails ==
  ASSUME MInv, NEW t \in Threads, ThreadStep(t), UNCHANGED skipSensor, Fail(t), Between'
  PROVE  MInv'
  <1>1. lock' = "free" /\ stage' = "Failed"
    BY DEF Fail, FailedStage
  <1>2. StageIsTrue'
    BY <1>1 DEF StageIsTrue
  <1> QED BY <1>1, <1>2, Releases

LEMMA PlanInv ==
  ASSUME MInv, NEW t \in Threads, Plan(t), UNCHANGED skipSensor
  PROVE  MInv'
  <1>1. ThreadStep(t) /\ pc[t] = "plan" /\ pc[t] \in InMutex
    BY DEF ThreadStep, Plan, InMutex
  <1>2. /\ UNCHANGED <<pipeline, stopFlag, worker, cams, fusion, sensor>>
        /\ cmd' = cmd
    BY DEF Plan, media, outside, Continue, Fail
  <1>3. Streaming' = Streaming
    BY <1>2 DEF Streaming
  <1>4. During(t)
    BY <1>1, Holder
  <1>5. CASE Fail(t)
    BY <1>1, <1>2, <1>3, <1>4, <1>5, Fails DEF During, Between
  <1>6. CASE ~Fail(t)
    <2>1. lock' = lock /\ Goto(t, "halt")
      BY <1>6 DEF Plan, Continue, manager
    <2>2. pc'[t] = "halt"
      BY <1>1, <2>1, Holder
    <2>3. During(t)'
      BY <1>1, <1>2, <1>3, <1>4, <2>2 DEF During, Switching
    <2> QED BY <1>1, <2>1, <2>3, Keeps
  <1> QED BY <1>5, <1>6

LEMMA HaltInv ==
  ASSUME MInv, NEW t \in Threads, Halt(t), UNCHANGED skipSensor
  PROVE  MInv'
  <1>1. ThreadStep(t) /\ pc[t] = "halt" /\ pc[t] \in InMutex /\ During(t)
    BY Holder DEF ThreadStep, Halt, InMutex
  <1>2. /\ UNCHANGED <<lock, pipeline, worker, cams, fusion, sensor>>
        /\ cmd' = cmd
        /\ \/ pipeline = "none" /\ Goto(t, "halted") /\ stopFlag' = stopFlag
           \/ pipeline # "none" /\ Goto(t, "join")
    BY DEF Halt, outside, Continue, manager
  <1>3. Streaming' = Streaming
    BY <1>2 DEF Streaming
  <1>4. \/ pipeline = "none" /\ pc'[t] = "halted" /\ stopFlag' = stopFlag
        \/ pipeline # "none" /\ pc'[t] = "join"
    BY <1>1, <1>2, Holder
  <1>5. During(t)'
    BY <1>1, <1>2, <1>3, <1>4 DEF During, Switching
  <1> QED BY <1>1, <1>2, <1>5, Keeps

LEMMA JoinInv ==
  ASSUME MInv, NEW t \in Threads, Join(t), UNCHANGED skipSensor
  PROVE  MInv'
  <1>1. ThreadStep(t) /\ pc[t] = "join" /\ pc[t] \in InMutex /\ During(t)
    BY Holder DEF ThreadStep, Join, InMutex
  <1>2. /\ worker = "none" /\ worker' = "none" /\ pipeline' = "none" /\ lock' = lock
        /\ cmd' = cmd /\ Goto(t, "halted")
        /\ cams' = StopCameras(cams, pipeline)
    BY DEF Join, Joinable, Continue, manager
  <1>3. pc'[t] = "halted"
    BY <1>1, <1>2, Holder
  <1>4. Streaming' = {} /\ CamerasOf(pipeline') = {}
    <2>1. \A c \in Cameras : cams[c] \in Camera
      BY DEF MInv, TypeOK, Camera
    <2>2. \A c \in Cameras : c \in CamerasOf(pipeline) \/ ~cams[c].streaming
      BY <1>1 DEF During, Streaming
    <2>3. \A c \in Cameras : ~cams'[c].streaming
      BY <1>2, <2>1, <2>2, CameraFacts DEF StopCameras
    <2> QED BY <1>2, <2>3 DEF Streaming, CamerasOf
  <1>5. During(t)'
    BY <1>2, <1>3, <1>4 DEF During, Switching
  <1> QED BY <1>1, <1>2, <1>5, Keeps

(* A stop ends here with everything down; a switch sets the fusion engine. *)
LEMMA HaltedInv ==
  ASSUME MInv, NEW t \in Threads, Halted(t), UNCHANGED skipSensor
  PROVE  MInv'
  <1>1. ThreadStep(t) /\ pc[t] = "halted" /\ pc[t] \in InMutex /\ During(t)
    BY Holder DEF ThreadStep, Halted, InMutex
  <1>2. UNCHANGED <<pipeline, stopFlag, worker, cams, sensor>> /\ cmd' = cmd
    BY DEF Halted, media, Continue
  <1>3. Streaming' = Streaming
    BY <1>2 DEF Streaming
  <1>4. CASE cmd[t].type = "STOP_STREAM"
    <2>1. stage' = "Idle" /\ lock' = "free"
      BY <1>4 DEF Halted
    <2>2. Between' /\ StageIsTrue'
      BY <1>1, <1>2, <1>3, <2>1 DEF During, Between, StageIsTrue
    <2> QED BY <1>1, <2>1, <2>2, Releases
  <1>5. CASE cmd[t].type # "STOP_STREAM"
    <2>1. /\ fusion' = IF NeedsFusion(cmd[t].mode) THEN cmd[t].mode ELSE fusion
          /\ lock' = lock
          /\ Goto(t, IF NeedsSensor(cmd[t].mode) THEN "sensor" ELSE "open")
      BY <1>5 DEF Halted, Continue, manager
    <2>2. pc'[t] = IF NeedsSensor(cmd[t].mode) THEN "sensor" ELSE "open"
      BY <1>1, <2>1, Holder
    <2>3. During(t)'
      BY <1>1, <1>2, <1>3, <2>1, <2>2 DEF During, Switching
    <2> QED BY <1>1, <2>1, <2>3, Keeps
  <1> QED BY <1>4, <1>5

LEMMA SensorInv ==
  ASSUME MInv, NEW t \in Threads, Sensor(t), UNCHANGED skipSensor
  PROVE  MInv'
  <1>1. ThreadStep(t) /\ pc[t] = "sensor" /\ pc[t] \in InMutex /\ During(t)
    BY Holder DEF ThreadStep, Sensor, InMutex
  <1>2. UNCHANGED <<pipeline, stopFlag, worker, cams, fusion>> /\ cmd' = cmd
    BY DEF Sensor, media, Continue, Fail
  <1>3. Streaming' = Streaming
    BY <1>2 DEF Streaming
  <1>4. CASE Fail(t)
    <2>1. Between'
      BY <1>1, <1>2, <1>3 DEF During, Between
    <2> QED BY <1>1, <1>4, <2>1, Fails
  <1>5. CASE ~Fail(t)
    <2>1. /\ Goto(t, "open") /\ lock' = lock
          /\ skipSensor \/ sensor' = SensorOf(cmd[t].mode)
      BY <1>5 DEF Sensor, Continue, manager
    <2>2. pc'[t] = "open"
      BY <1>1, <2>1, Holder
    <2>3. During(t)'
      BY <1>1, <1>2, <1>3, <2>1, <2>2 DEF During, Switching
    <2> QED BY <1>1, <2>1, <2>3, Keeps
  <1> QED BY <1>4, <1>5

LEMMA OpenInv ==
  ASSUME MInv, NEW t \in Threads, Open(t), UNCHANGED skipSensor
  PROVE  MInv'
  <1>1. ThreadStep(t) /\ pc[t] = "open" /\ pc[t] \in InMutex /\ During(t)
    BY Holder DEF ThreadStep, Open, InMutex
  <1>2. UNCHANGED <<pipeline, stopFlag, worker, fusion, sensor>> /\ cmd' = cmd
    BY DEF Open, media, outside, Continue, Fail
  <1>3. Streaming = {} /\ CamerasOf(pipeline) = {}
    BY <1>1 DEF During, CamerasOf
  <1>4. Streaming' = {}
    <2>1. \A c \in Cameras : cams[c] \in Camera /\ ~cams[c].streaming
      BY <1>3 DEF MInv, TypeOK, Camera, Streaming
    <2>2. \A c \in Cameras : cams'[c] = cams[c] \/ cams'[c] = Opened(cams[c])
      BY DEF Open, MInv, TypeOK
    <2>3. \A c \in Cameras : ~cams'[c].streaming
      BY <2>1, <2>2, CameraFacts
    <2> QED BY <2>3 DEF Streaming
  <1>5. CASE Fail(t)
    <2>1. Between'
      BY <1>1, <1>2, <1>3, <1>4 DEF During, Between
    <2> QED BY <1>1, <1>5, <2>1, Fails
  <1>6. CASE ~Fail(t)
    <2>1. Goto(t, "build") /\ lock' = lock
      BY <1>6 DEF Open, Continue, manager
    <2>2. pc'[t] = "build"
      BY <1>1, <2>1, Holder
    <2>3. During(t)'
      BY <1>1, <1>2, <1>3, <1>4, <2>2 DEF During, Switching
    <2> QED BY <1>1, <2>1, <2>3, Keeps
  <1> QED BY <1>5, <1>6

LEMMA BuildInv ==
  ASSUME MInv, NEW t \in Threads, Build(t), UNCHANGED skipSensor
  PROVE  MInv'
  <1>1. ThreadStep(t) /\ pc[t] = "build" /\ pc[t] \in InMutex /\ During(t)
    BY Holder DEF ThreadStep, Build, InMutex
  <1>2. UNCHANGED <<stopFlag, worker, cams, fusion, sensor>> /\ cmd' = cmd
    BY DEF Build, outside, Continue, Fail
  <1>3. Streaming' = Streaming /\ Streaming = {}
    BY <1>1, <1>2 DEF Streaming, During, CamerasOf
  <1>4. CASE Fail(t) /\ pipeline' = pipeline
    <2>1. Between'
      BY <1>1, <1>2, <1>3, <1>4 DEF During, Between
    <2> QED BY <1>1, <1>4, <2>1, Fails
  <1>5. CASE ~(Fail(t) /\ pipeline' = pipeline)
    <2>1. Goto(t, "start") /\ lock' = lock /\ pipeline' = cmd[t].mode
      BY <1>5 DEF Build, Continue, manager
    <2>2. pc'[t] = "start"
      BY <1>1, <2>1, Holder
    <2>3. During(t)'
      BY <1>1, <1>2, <1>3, <2>1, <2>2 DEF During, Switching
    <2> QED BY <1>1, <2>1, <2>3, Keeps
  <1> QED BY <1>4, <1>5

LEMMA StartInv ==
  ASSUME MInv, NEW t \in Threads, Start(t), UNCHANGED skipSensor
  PROVE  MInv'
  <1>1. ThreadStep(t) /\ pc[t] = "start" /\ pc[t] \in InMutex /\ During(t)
    BY Holder DEF ThreadStep, Start, InMutex
  <1>2. UNCHANGED <<fusion, sensor>> /\ cmd' = cmd
    BY DEF Start, outside, Continue, Fail
  <1>3. \A c \in Cameras : cams[c] \in Camera /\ ~cams[c].streaming
    BY <1>1 DEF MInv, TypeOK, Camera, During, Streaming
  <1>4. CamerasOf(pipeline) \subseteq Cameras /\ CamerasOf("none") = {}
    BY DEF CamerasOf, Cameras
  <1>5. CASE /\ cams' = [c \in Cameras |->
                         IF c \in CamerasOf(pipeline) THEN StreamOn(cams[c]) ELSE cams[c]]
             /\ stopFlag' = FALSE /\ worker' = "loop" /\ pipeline' = pipeline
             /\ Continue(t, "started")
    <2>1. Streaming' = CamerasOf(pipeline)
      BY <1>3, <1>4, <1>5, CameraFacts DEF Streaming
    <2>2. pc'[t] = "started" /\ lock' = lock
      BY <1>1, <1>5, Holder DEF Continue, manager
    <2>3. pipeline # "none"
      <3>1. cmd[t].mode \in WorkModes
        BY <1>1, CommandFacts DEF MInv, MutexOK, Switching, InMutex
      <3> QED BY <1>1, <3>1 DEF During, WorkModes, FusionModes
    <2>4. During(t)'
      BY <1>1, <1>2, <1>5, <2>1, <2>2, <2>3 DEF During, Switching
    <2> QED BY <1>1, <2>2, <2>4, Keeps
  <1>6. ASSUME NEW c \in CamerasOf(pipeline), NEW before \in SUBSET CamerasOf(pipeline),
               cams' = StopCameras([d \in Cameras |->
                          IF d \in before THEN StreamOn(cams[d]) ELSE cams[d]], pipeline),
               pipeline' = "none", worker' = worker, Fail(t)
        PROVE  MInv'
    <2>1. \A d \in Cameras : ~cams'[d].streaming
      <3>1. \A d \in Cameras : StreamOn(cams[d]) \in Camera
        BY <1>3, CameraFacts
      <3> QED BY <1>3, <1>6, <3>1, CameraFacts DEF StopCameras
    <2>2. Between'
      BY <1>1, <1>4, <1>6, <2>1 DEF Between, Streaming, During
    <2> QED BY <1>1, <1>6, <2>2, Fails
  <1>7. CASE \E c \in CamerasOf(pipeline) :
               LET before == IF c = "composite" THEN CamerasOf(pipeline) \ {c} ELSE {}
               IN  /\ before \subseteq EnabledCameras
                   /\ cams' = StopCameras([d \in Cameras |->
                                 IF d \in before THEN StreamOn(cams[d]) ELSE cams[d]], pipeline)
    <2> SUFFICES ASSUME pipeline' = "none", worker' = worker, Fail(t) PROVE MInv'
      BY <1>5, <1>7 DEF Start
    <2>1. PICK c \in CamerasOf(pipeline) :
               LET before == IF c = "composite" THEN CamerasOf(pipeline) \ {c} ELSE {}
               IN  cams' = StopCameras([d \in Cameras |->
                             IF d \in before THEN StreamOn(cams[d]) ELSE cams[d]], pipeline)
      BY <1>7
    <2> DEFINE before == IF c = "composite" THEN CamerasOf(pipeline) \ {c} ELSE {}
    <2>2. before \in SUBSET CamerasOf(pipeline)
      OBVIOUS
    <2>3. cams' = StopCameras([d \in Cameras |->
                     IF d \in before THEN StreamOn(cams[d]) ELSE cams[d]], pipeline)
      BY <2>1
    <2> HIDE DEF before
    <2> QED BY <1>6, <2>2, <2>3
  <1> QED BY <1>5, <1>7 DEF Start

LEMMA StartedInv ==
  ASSUME MInv, NEW t \in Threads, Started(t), UNCHANGED skipSensor
  PROVE  MInv'
  <1>1. ThreadStep(t) /\ pc[t] = "started" /\ pc[t] \in InMutex /\ During(t)
    BY Holder DEF ThreadStep, Started, InMutex
  <1>2. /\ UNCHANGED <<pipeline, stopFlag, worker, cams, fusion, sensor>>
        /\ stage' = "Running" /\ currentMode' = cmd[t].mode /\ lock' = "free"
    BY DEF Started, outside
  <1>3. Streaming' = Streaming
    BY <1>2 DEF Streaming
  <1>4. Between' /\ StageIsTrue'
    BY <1>1, <1>2, <1>3 DEF During, Between, StageIsTrue, Switching
  <1> QED BY <1>1, <1>2, <1>4, Releases

----------------------------------------------------------------------------
LEMMA NextInv == MInv /\ [Next]_<<vars, skipSensor>> => MInv'
  <1> SUFFICES ASSUME MInv, [Next]_<<vars, skipSensor>> PROVE MInv'
    OBVIOUS
  <1>1. CASE UNCHANGED <<vars, skipSensor>>
    BY <1>1 DEF vars, MInv, TypeOK, MutexOK, StageIsTrue, Between, During, Streaming
  <1>2. CASE Next
    BY <1>2, SubmitInv, StreamInv, LockInv, PlanInv, HaltInv, JoinInv, HaltedInv, SensorInv,
       OpenInv, BuildInv, StartInv, StartedInv, WorkerInv
       DEF Next, ThreadStep
  <1> QED BY <1>1, <1>2

(* While a thread holds the mutex, the worker's cameras stream as well.    *)
LEMMA InvSafe == MInv => WorkerHasPipeline /\ CamerasMatchPipeline
  <1> SUFFICES ASSUME MInv PROVE WorkerHasPipeline /\ CamerasMatchPipeline
    OBVIOUS
  <1>1. CASE lock = "free"
    BY <1>1 DEF MInv, Between, Streaming, WorkerHasPipeline, CamerasMatchPipeline
  <1>2. CASE lock # "free"
    <2>1. PICK t \in Threads : lock = t /\ During(t)
      BY <1>2 DEF MInv, TypeOK
    <2>2. worker # "none" => pipeline # "none" /\ Streaming = CamerasOf(pipeline)
      BY <2>1 DEF During
    <2> QED BY <1>2, <2>2 DEF Streaming, WorkerHasPipeline, CamerasMatchPipeline
  <1> QED BY <1>1, <1>2

(* Every step of switchTo(), stop(), the worker and a restart leaves        *)
(* ModeManager, ModeExecutor and the cameras in one of their states.       *)
THEOREM SwitchTypeCorrect == Spec => []TypeOK
  <1>1. MInv => TypeOK
    BY DEF MInv
  <1> QED BY <1>1, InitInv, NextInv, PTL DEF Spec

(* MediaPipeline's worker never runs without its pipeline and its cameras. *)
THEOREM WorkerNeverAlone == Spec => []WorkerHasPipeline
  BY InvSafe, InitInv, NextInv, PTL DEF Spec

(* Wherever a switch fails, the cameras stream exactly for the pipeline    *)
(* that is left when ModeManager's mutex is free again.                    *)
THEOREM CamerasFollowPipeline == Spec => []CamerasMatchPipeline
  BY InvSafe, InitInv, NextInv, PTL DEF Spec

(* What ModeManager::state() and currentMode() report is what runs: only   *)
(* the holder of the mutex has them say otherwise.                         *)
THEOREM ReportIsTrue == Spec => []StageIsTrue
  <1>1. MInv => StageIsTrue
    BY DEF MInv
  <1> QED BY <1>1, InitInv, NextInv, PTL DEF Spec
=============================================================================
