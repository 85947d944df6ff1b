----------------------- MODULE PrivateGatewayProofs --------------------------
(***************************************************************************)
(* Proofs about the board-side control program and the video child it      *)
(* keeps, for any number of requests, of starts and of video children,     *)
(* with a video that may die at any time.                                  *)
(***************************************************************************)
EXTENDS PrivateGateway, TLAPS

----------------------------------------------------------------------------
(* The video child (GstProcess) *)

(* pid_ names the last child forked or none, and children that were not    *)
(* forked yet do nothing.                                                  *)
GInv ==
    /\ GstTypeOK
    /\ NoOrphan
    /\ \A c \in Children : c > forks => proc[c] = "none"

(* isRunning() never loses a child: it forgets pid_ only with the child.   *)
LEMMA ReapKeeps ==
  ASSUME GInv, Reap, UNCHANGED <<forks, source>>,
         step' \in {"none", "starting"} \cup Signals, ret' \in BOOLEAN
  PROVE  GInv'
  <1>1. pid \in 0 .. forks /\ forks \in 0 .. MaxForks /\ MaxForks \in Nat
    BY GstAssumption DEF GInv, GstTypeOK
  <1>2. CASE Running
    BY <1>2 DEF GInv, GstTypeOK, NoOrphan, Reap, Running, Children
  <1>3. CASE ~Running /\ pid = 0
    BY <1>1, <1>3 DEF GInv, GstTypeOK, NoOrphan, Reap, Children
  <1>4. CASE ~Running /\ pid # 0
    <2>1. pid \in Children /\ pid <= forks
      BY <1>1, <1>4 DEF Children
    <2>2. pid' = 0 /\ proc' = [proc EXCEPT ![pid] = "reaped"] /\ forks' = forks /\ source' = source
      BY <1>4 DEF Reap
    <2>3. \A c \in Children : c # pid => proc'[c] = proc[c]
      BY <2>2 DEF GInv, GstTypeOK
    <2>4. proc'[pid] = "reaped" /\ proc' \in [Children -> {"none", "alive", "ended", "reaped"}]
      BY <2>1, <2>2 DEF GInv, GstTypeOK
    <2>5. NoOrphan'
      BY <2>1, <2>3, <2>4 DEF GInv, NoOrphan, Children
    <2>6. \A c \in Children : c > forks' => proc'[c] = "none"
      BY <1>1, <2>1, <2>2, <2>3 DEF GInv, Children
    <2>7. GstTypeOK'
      BY <1>1, <2>2, <2>4 DEF GInv, GstTypeOK, Children
    <2> QED BY <2>5, <2>6, <2>7 DEF GInv
  <1> QED BY <1>2, <1>3, <1>4

LEMMA ForkKeeps ==
  ASSUME GInv, NEW s \in Sources, Fork(s)
  PROVE  GInv'
  <1>1. /\ pid \in 0 .. forks /\ forks \in 0 .. MaxForks /\ MaxForks \in Nat
        /\ forks < MaxForks /\ forks + 1 \in Children
    BY GstAssumption DEF GInv, GstTypeOK, Fork, Children
  <1>2. /\ forks' = forks + 1 /\ pid' = forks + 1 /\ step' = "starting" /\ ret' = ret
        /\ source' = [source EXCEPT ![forks + 1] = s]
        /\ ~Running
    BY DEF Fork, MayFork
  <1>3. \A c \in Children :
          proc'[c] = IF c = forks + 1 THEN "alive" ELSE IF c = pid THEN "reaped" ELSE proc[c]
    BY <1>2 DEF Fork
  <1>4. proc' \in [Children -> {"none", "alive", "ended", "reaped"}]
    BY DEF Fork, GInv, GstTypeOK
  <1>5. GstTypeOK'
    BY <1>1, <1>2, <1>4 DEF GInv, GstTypeOK, Children
  <1>6. NoOrphan'
    BY <1>1, <1>2, <1>3 DEF GInv, NoOrphan, Children
  <1>7. \A c \in Children : c > forks' => proc'[c] = "none"
    <2> SUFFICES ASSUME NEW c \in Children, c > forks + 1 PROVE proc'[c] = "none"
      BY <1>2 DEF Children
    <2>1. c # forks + 1 /\ c # pid /\ c > forks
      BY <1>1 DEF Children
    <2> QED BY <1>3, <2>1 DEF GInv
  <1> QED BY <1>5, <1>6, <1>7 DEF GInv

LEMMA GstInitInv == GstInit => GInv
  BY GstAssumption DEF GstInit, GInv, GstTypeOK, NoOrphan, Children

(* Every step of the caller and of the children keeps GInv.                *)
LEMMA GstNextInv == GInv /\ [GstNext]_gstVars => GInv'
  <1> SUFFICES ASSUME GInv, [GstNext]_gstVars PROVE GInv'
    OBVIOUS
  <1>0. step \in {"none", "starting"} \cup Signals /\ ret \in BOOLEAN /\ Running \in BOOLEAN
    BY DEF GInv, GstTypeOK, Running
  <1>1. CASE IsRunning
    BY <1>0, <1>1, ReapKeeps DEF IsRunning
  <1>2. CASE StartBusy
    BY <1>2 DEF StartBusy, GInv, GstTypeOK, NoOrphan
  <1>3. ASSUME NEW s \in Sources, Fork(s) PROVE GInv'
    BY <1>3, ForkKeeps
  <1>4. CASE ForkFails
    BY <1>0, <1>4, ReapKeeps DEF ForkFails
  <1>5. CASE Started
    BY <1>0, <1>5, ReapKeeps DEF Started
  <1>6. CASE StopNothing
    BY <1>0, <1>6, ReapKeeps DEF StopNothing
  <1>7. CASE StopSignal
    BY <1>7 DEF StopSignal, GInv, GstTypeOK, NoOrphan, Signals
  <1>8. CASE StopDone
    BY <1>0, <1>8, ReapKeeps DEF StopDone
  <1>9. CASE StopTimeout
    <2>1. step' \in {"none", "starting"} \cup Signals /\ ret' \in BOOLEAN
      BY <1>0, <1>9 DEF StopTimeout, Escalated, Signals
    <2> QED BY <1>9, <2>1 DEF StopTimeout, GInv, GstTypeOK, NoOrphan
  <1>10. ASSUME NEW c \in Children, ChildExits(c) PROVE GInv'
    BY <1>10 DEF ChildExits, GInv, GstTypeOK, NoOrphan, Children
  <1>11. CASE UNCHANGED gstVars
    BY <1>11 DEF gstVars, GInv, GstTypeOK, NoOrphan
  <1> QED BY <1>1, <1>2, <1>3, <1>4, <1>5, <1>6, <1>7, <1>8, <1>9, <1>10, <1>11
         DEF GstNext, GstStart, GstStop, GstWaits

(* However often the video is started, stopped and polled, and whenever it *)
(* dies, there is at most one gst-launch and the object knows it.          *)
THEOREM NeverOrphaned == GstSpec => [](GstTypeOK /\ NoOrphan)
  <1>1. GInv => GstTypeOK /\ NoOrphan
    BY DEF GInv
  <1> QED BY <1>1, GstInitInv, GstNextInv, PTL DEF GstSpec

(* A stop() that returns true after signalling has ended the child.        *)
THEOREM StopTrueIsTrue == GstSpec => StopTrueMeansGone
  <1>1. ASSUME GInv, [GstNext]_gstVars
        PROVE  [(step \in Signals /\ step' = "none" /\ ret')
                  => (\A c \in Children : proc'[c] # "alive")]_gstVars
    <2>1. SUFFICES ASSUME GstNext, step \in Signals, step' = "none", ret'
                   PROVE  \A c \in Children : proc'[c] # "alive"
      BY <1>1
    <2>2. step # "none" /\ step # "starting" /\ step' # step
      BY <2>1 DEF Signals
    <2>3. CASE StopDone
      BY <1>1, <2>3 DEF StopDone, Reap, Running, GInv, NoOrphan, GstTypeOK, Children
    <2>4. CASE StopTimeout
      BY <2>1, <2>4 DEF StopTimeout, Escalated, Signals
    <2> QED BY <2>1, <2>2, <2>3, <2>4
           DEF GstNext, GstStart, GstStop, GstWaits, IsRunning, StartBusy, Fork, ForkFails,
               Started, StopNothing, StopSignal, ChildExits
  <1> QED BY <1>1, GstInitInv, GstNextInv, PTL DEF GstSpec, StopTrueMeansGone

----------------------------------------------------------------------------
(* The program around it (PrivateGateway) *)

InSwitch == {"mode", "stopped", "sensor", "restore", "restored", "start", "started"}
Callback == InSwitch \cup {"param", "config"}
Over == {"stopVideo", "stopWait", "exited"}

(* pipelineMutex: held by the server thread in a callback, and by the main *)
(* thread from its look at the video to the end of the program if the      *)
(* video has died.                                                         *)
MutexOK ==
    /\ mutex = "server" <=> srvPc \in Callback
    /\ mutex = "main" <=> mainPc \in {"check", "stopDead", "closeDead", "joinDead"}

(* The life of the server thread: what comes before it, what after it, and *)
(* where it can still be when running_ has been cleared.                   *)
ServerOK ==
    /\ mainPc \in {"boot", "booting"} => srvPc = "off"
    /\ mainPc \in Over => srvPc \in {"off", "ended"}
    /\ running => mainPc \in {"loop", "check", "stop", "stopDead"}
    /\ mainPc # "exited" => controllerUp = serialEnabled
    /\ lateRequests \in {0, 1}
    /\ running \/ srvPc \in {"off", "accept", "accepting", "recv"} => lateRequests = 0

(* The video: who operates on it, and that a video that runs is the one    *)
(* that was configured.  A stop that said true has left none.              *)
VideoOK ==
    /\ VideoOwned
    /\ mainPc = "boot" => pid = 0
    /\ srvPc = "stopped" => step # "starting" /\ (step = "none" /\ ret => ~Running)
    /\ srvPc \in {"sensor", "restore", "start"} => ~Running
    /\ Running => source[pid] = config
    /\ config = SourceOf(currentMode)

(* A switch on its way: which request it serves and how far it has come.   *)
(* While a callback runs, the last answer is not an ok any more.           *)
SwitchOK ==
    /\ srvPc \in InSwitch => request.kind = "mode"
    /\ srvPc \in {"param", "config"} => request.kind = srvPc
    /\ srvPc = "sensor" => NeedsSensor(request.arg)
    /\ srvPc \in {"start", "started"} =>
         (serialEnabled /\ NeedsSensor(request.arg) => sensorMode = request.arg)
    /\ srvPc = "started" => currentMode = request.arg
    /\ srvPc \in Callback \cup {"lock"} => request \in Requests /\ ~answered.ok
    /\ srvPc = "lock" => request.kind \in {"mode", "param", "config"}
    /\ SwitchOkComplete

GatewayInv == TypeOK /\ GInv /\ MutexOK /\ ServerOK /\ VideoOK /\ SwitchOK

----------------------------------------------------------------------------
LEMMA GatewayInit == Init => GatewayInv
  <1> SUFFICES ASSUME Init PROVE GatewayInv
    OBVIOUS
  <1>1. GInv
    BY GstInitInv DEF Init
  <1>2. SourceOf("lowlight_thermal") = "composite" /\ "composite" \in Sources
    BY GatewayAssumption DEF SourceOf
  <1>3. pid = 0 /\ step = "none"
    BY DEF Init, GstInit
  <1>4. TypeOK
    BY <1>1, <1>2, GatewayAssumption DEF Init, TypeOK, GInv, MainLabels, SrvLabels, Modes, NoRequest
  <1>5. VideoOK
    BY <1>3 DEF Init, VideoOK, VideoOwned, Running
  <1>6. MutexOK /\ ServerOK
    BY DEF Init, MutexOK, ServerOK, Over, Callback, InSwitch
  <1>7. SwitchOK
    BY DEF Init, SwitchOK, SwitchOkComplete, Callback, InSwitch
  <1> QED BY <1>1, <1>4, <1>5, <1>6, <1>7 DEF GatewayInv

(* Every step of the program is a step of its GStreamerProcess, or none.   *)
LEMMA StepsOfGst == ASSUME GatewayInv, Next PROVE [GstNext]_gstVars
  <1>1. config \in Sources /\ (srvPc = "start" => SourceOf(request.arg) \in Sources)
    BY GatewayAssumption DEF GatewayInv, TypeOK, SourceOf
  <1>2. \A s \in Sources : VideoStart(s) => GstNext
    BY DEF VideoStart, GstNext, GstStart
  <1>3. GstStop \/ IsRunning \/ GstWaits \/ (\E c \in Children : ChildExits(c)) => GstNext
    BY DEF GstNext
  <1>4. CASE Signal
    BY <1>4 DEF Signal
  <1>5. CASE MainStep
    BY <1>1, <1>2, <1>3, <1>5
       DEF MainStep, Boot, Booted, Loop, Check, StopServer, CloseSocket, Join, StopVideo, Shutdown
  <1>6. CASE ServerStep
    BY <1>1, <1>2, <1>3, <1>6
       DEF ServerStep, SrvLoop, SrvAccept, Lock, SwitchStop, SwitchStopped, SwitchSensor,
           SwitchRestore, SwitchRestored, SwitchStart, SwitchStarted, WriteParam, ReadConfig, NewConfig
  <1>7. CASE Clients
    BY <1>7 DEF Clients, Connect, ClientGone, Receive
  <1>8. CASE VideoWaits \/ VideoEnds
    BY <1>3, <1>8 DEF VideoWaits, VideoEnds
  <1> QED BY <1>4, <1>5, <1>6, <1>7, <1>8 DEF Next

LEMMA KeepsGInv == ASSUME GatewayInv, Next PROVE GInv'
  BY StepsOfGst, GstNextInv DEF GatewayInv

(* What the operations of the video child mean for a video that runs.      *)
LEMMA ReapFacts ==
  ASSUME Reap, UNCHANGED source
  PROVE  Running' = Running /\ (Running => pid' = pid /\ source'[pid'] = source[pid])
  <1>1. CASE Running
    BY <1>1 DEF Reap, Running
  <1>2. CASE ~Running
    BY <1>2 DEF Reap, Running
  <1> QED BY <1>1, <1>2

LEMMA StartFacts ==
  ASSUME GInv, NEW s \in Sources, VideoStart(s)
  PROVE  /\ Running' => source'[pid'] = s
         /\ step = "none" /\ step' \in {"none", "starting"}
  <1>1. CASE Fork(s)
    <2>1. forks + 1 \in Children /\ pid' = forks + 1 /\ source' = [source EXCEPT ![forks + 1] = s]
      BY <1>1, GstAssumption DEF Fork, GInv, GstTypeOK, Children
    <2> QED BY <1>1, <2>1 DEF GInv, GstTypeOK, Fork
  <1>2. CASE ForkFails
    BY <1>2, ReapFacts DEF ForkFails, MayFork
  <1> QED BY <1>1, <1>2 DEF VideoStart

LEMMA StopFacts ==
  ASSUME GInv, GstStop
  PROVE  /\ step = "none" /\ step' \in {"none", "SIGINT"}
         /\ step' = "none" => ~Running'
         /\ Running' => Running /\ source'[pid'] = source[pid]
  <1>1. CASE StopNothing
    BY <1>1, ReapFacts DEF StopNothing
  <1>2. CASE StopSignal
    BY <1>2 DEF StopSignal, Running
  <1> QED BY <1>1, <1>2 DEF GstStop

LEMMA WaitFacts ==
  ASSUME GInv, GstWaits
  PROVE  /\ step # "none"
         /\ step' # "starting"
         /\ step # "starting" /\ step' = "none" /\ ret' => ~Running'
         /\ Running' => Running /\ source'[pid'] = source[pid]
  <1>1. CASE Started
    BY <1>1, ReapFacts DEF Started
  <1>2. CASE StopDone
    BY <1>2, ReapFacts DEF StopDone, Signals
  <1>3. CASE StopTimeout
    <2>1. step \in Signals /\ step' = Escalated(step) /\ (step = "SIGKILL" => ret' = FALSE)
      BY <1>3 DEF StopTimeout
    <2>2. step' \in {"SIGTERM", "SIGKILL", "none"} /\ (step' = "none" => step = "SIGKILL")
      BY <2>1 DEF Escalated, Signals
    <2> QED BY <1>3, <2>1, <2>2 DEF StopTimeout, Signals, Running
  <1> QED BY <1>1, <1>2, <1>3 DEF GstWaits

LEMMA ExitFacts ==
  ASSUME GInv, NEW c \in Children, ChildExits(c)
  PROVE  step' = step /\ ret' = ret /\ (Running' => Running) /\ pid' = pid /\ source' = source
  <1>1. Running' => Running
    BY DEF ChildExits, Running, GInv, GstTypeOK, Children
  <1> QED BY <1>1 DEF ChildExits

----------------------------------------------------------------------------

(* Types *)

LEMMA RequestFacts ==
  ASSUME NEW r \in Requests
  PROVE  /\ r.kind \in {"mode", "param", "config", "status", "bad"}
         /\ r.kind = "mode" => r.arg \in Modes
         /\ r.kind = "param" => r.arg \in ParamValues
  BY DEF Requests

LEMMA TypeKept == ASSUME GatewayInv, Next PROVE TypeOK'
  <1>1. GstTypeOK'
    BY KeepsGInv DEF GInv
  <1>2. TypeOK /\ config \in Sources /\ (\A m \in Modes : SourceOf(m) \in Sources)
    BY GatewayAssumption DEF GatewayInv, TypeOK, SourceOf
  <1>3. srvPc = "lock" => request.kind \in {"mode", "param", "config"}
    BY DEF GatewayInv, SwitchOK
  <1>4. /\ request \in Requests \cup {NoRequest}
        /\ request.kind = "mode" => request.arg \in Modes
        /\ request.kind = "param" => request.arg \in ParamValues
        /\ srvPc = "sensor" => request.arg # "visible"
        /\ srvPc \in InSwitch => request.kind = "mode"
        /\ srvPc = "param" => request.kind = "param"
    <2>1. request \in Requests \cup {NoRequest} /\ SwitchOK
      BY DEF GatewayInv, TypeOK
    <2> QED BY <2>1, RequestFacts DEF SwitchOK, NeedsSensor, NoRequest
  <1>5. CASE Signal
    BY <1>1, <1>2, <1>5 DEF Signal, TypeOK, viewVars, srvVars, history
  <1>6. CASE MainStep
    <2>1. /\ UNCHANGED <<viewVars, request, history, serialEnabled, gStopRequested>>
          /\ mainPc' \in MainLabels /\ srvPc' \in SrvLabels /\ mutex' \in {"free", "main", "server"}
          /\ controllerUp' \in BOOLEAN /\ running' \in BOOLEAN /\ listening' \in BOOLEAN
      BY <1>2, <1>6, ZenonT(30)
         DEF MainStep, Boot, Booted, Loop, Check, StopServer, CloseSocket, Join, StopVideo,
             Shutdown, Goto, TypeOK, srvVars, MainLabels, SrvLabels
    <2> QED BY <1>1, <1>2, <2>1 DEF TypeOK, viewVars, history
  <1>7. CASE ServerStep
    <2>1. /\ UNCHANGED <<mainVars, running, listening, request, requests, lateRequests>>
          /\ srvPc' \in SrvLabels /\ mutex' \in {"free", "main", "server"}
      BY <1>2, <1>3, <1>7
         DEF ServerStep, SrvLoop, SrvAccept, Lock, SwitchStop, SwitchStopped, SwitchSensor,
             SwitchRestore, SwitchRestored, SwitchStart, SwitchStarted, WriteParam, ReadConfig,
             Answer, SrvGoto, ParamApplied, ParamFailed, AfterFailedSwitch, TypeOK, mainVars,
             history, SrvLabels
    <2>2. config' \in Sources /\ currentMode' \in Modes /\ statusMode' \in Modes
      BY <1>2, <1>4, <1>7
         DEF ServerStep, SrvLoop, SrvAccept, Lock, SwitchStop, SwitchStopped, SwitchSensor,
             SwitchRestore, SwitchRestored, SwitchStart, SwitchStarted, WriteParam, ReadConfig,
             NewConfig, Answer, ParamApplied, ParamFailed, TypeOK, viewVars, InSwitch
    <2>3. sensorMode' \in Modes \ {"visible"} /\ sensorParam' \in ParamValues
          /\ statusParam' \in ParamValues
      BY <1>2, <1>4, <1>7, RequestFacts
         DEF ServerStep, SrvLoop, SrvAccept, Lock, SwitchStop, SwitchStopped, SwitchSensor,
             SwitchRestore, SwitchRestored, SwitchStart, SwitchStarted, WriteParam, ReadConfig,
             Answer, ParamApplied, ParamFailed, TypeOK, viewVars, InSwitch
    <2>4. answered' \in [request : Requests \cup {NoRequest}, ok : BOOLEAN]
      <3>1. \A ok \in BOOLEAN : Answer(ok)
               => answered' \in [request : Requests \cup {NoRequest}, ok : BOOLEAN]
        BY <1>4 DEF Answer
      <3>2. ret \in BOOLEAN
        BY <1>2 DEF TypeOK, GstTypeOK
      <3> QED BY <1>2, <1>7, <3>1, <3>2
              DEF ServerStep, SrvLoop, SrvAccept, Lock, SwitchStop, SwitchStopped, SwitchSensor,
                  SwitchRestore, SwitchRestored, SwitchStart, SwitchStarted, WriteParam, ReadConfig,
                  ParamApplied, ParamFailed, TypeOK, history
    <2> QED BY <1>1, <1>2, <2>1, <2>2, <2>3, <2>4 DEF TypeOK, mainVars
  <1>8. CASE Clients
    <2>1. /\ UNCHANGED <<mainVars, mutex, viewVars, running, listening>>
          /\ srvPc' \in SrvLabels /\ request' \in Requests \cup {NoRequest}
          /\ requests' \in Nat /\ lateRequests' \in Nat
      BY <1>2, <1>8 DEF Clients, Connect, ClientGone, Receive, SrvGoto, TypeOK, history, SrvLabels
    <2>2. [request |-> NoRequest, ok |-> FALSE] \in [request : Requests \cup {NoRequest}, ok : BOOLEAN]
      OBVIOUS
    <2>3. answered' = answered \/ answered' = [request |-> NoRequest, ok |-> FALSE]
      BY <1>8 DEF Clients, Connect, ClientGone, Receive, history
    <2>4. answered' \in [request : Requests \cup {NoRequest}, ok : BOOLEAN]
      BY <1>2, <2>2, <2>3 DEF TypeOK
    <2> QED BY <1>1, <1>2, <2>1, <2>4 DEF TypeOK, mainVars, viewVars
  <1>9. CASE VideoWaits \/ VideoEnds
    BY <1>1, <1>2, <1>9 DEF VideoWaits, VideoEnds, TypeOK, mainVars, viewVars, srvVars, history
  <1> QED BY <1>5, <1>6, <1>7, <1>8, <1>9 DEF Next

(* Control *)
LEMMA ControlKept == ASSUME GatewayInv, Next PROVE MutexOK' /\ ServerOK'
  <1>1. TypeOK /\ MutexOK /\ ServerOK
    BY DEF GatewayInv
  <1>2. srvPc = "lock" => request.kind \in {"mode", "param", "config"}
    BY DEF GatewayInv, SwitchOK
  <1>3. CASE Signal
    BY <1>1, <1>3 DEF Signal, MutexOK, ServerOK, viewVars, srvVars, history
  <1>4. CASE MainStep
    BY <1>1, <1>4
       DEF MainStep, Boot, Booted, Loop, Check, StopServer, CloseSocket, Join, StopVideo, Shutdown,
           Goto, Joinable, MutexOK, ServerOK, srvVars, history, Callback, InSwitch, Over, TypeOK,
           MainLabels, SrvLabels
  <1>5. CASE ServerStep
    BY <1>1, <1>2, <1>5
       DEF ServerStep, SrvLoop, SrvAccept, Lock, SwitchStop, SwitchStopped, SwitchSensor,
           SwitchRestore, SwitchRestored, SwitchStart, SwitchStarted, WriteParam, ReadConfig,
           Answer, SrvGoto, ParamApplied, ParamFailed, KeepServing, AfterFailedSwitch,
           MutexOK, ServerOK, mainVars, history, Callback, InSwitch, Over
  <1>6. CASE Clients
    BY <1>1, <1>6 DEF Clients, Connect, ClientGone, Receive, SrvGoto, MutexOK, ServerOK, mainVars,
       history, Callback, InSwitch, Over
  <1>7. CASE VideoWaits \/ VideoEnds
    BY <1>1, <1>7 DEF VideoWaits, VideoEnds, MutexOK, ServerOK, mainVars, srvVars, history
  <1> QED BY <1>3, <1>4, <1>5, <1>6, <1>7 DEF Next

(* The video *)
LEMMA VideoKept == ASSUME GatewayInv, Next PROVE VideoOK'
  <1>1. TypeOK /\ GInv /\ MutexOK /\ ServerOK /\ VideoOK /\ config \in Sources
        /\ \A m \in Modes : SourceOf(m) \in Sources
    BY GatewayAssumption DEF GatewayInv, TypeOK, SourceOf
  <1>0. /\ srvPc = "lock" => request.kind \in {"mode", "param", "config"}
        /\ srvPc = "start" => request.arg \in Modes
    <2>1. request \in Requests \cup {NoRequest} /\ SwitchOK
      BY DEF GatewayInv, TypeOK
    <2> QED BY <2>1, RequestFacts DEF SwitchOK, InSwitch, Callback
  <1>2. CASE Signal
    BY <1>1, <1>2 DEF Signal, gstVars, viewVars, srvVars, VideoOK, VideoOwned, Running
  <1>3. CASE MainStep
    <2>1. CASE Boot
      BY <1>1, <2>1, StartFacts DEF Boot, Goto, viewVars, srvVars, VideoOK, VideoOwned, ServerOK
    <2>2. CASE Booted \/ Loop \/ StopServer \/ CloseSocket \/ Join \/ Shutdown
      BY <1>1, <2>2 DEF Booted, Loop, StopServer, CloseSocket, Join, Shutdown, Goto, gstVars,
         viewVars, srvVars, VideoOK, VideoOwned, Running, MutexOK, ServerOK, Callback, InSwitch, Over
    <2>3. CASE Check
      BY <1>1, <2>3, ReapFacts DEF Check, IsRunning, Goto, viewVars, srvVars, VideoOK, VideoOwned,
         MutexOK, Callback, InSwitch
    <2>4. CASE StopVideo
      BY <1>1, <2>4, StopFacts DEF StopVideo, Goto, viewVars, srvVars, VideoOK, VideoOwned,
         ServerOK, Over
    <2> QED BY <1>3, <2>1, <2>2, <2>3, <2>4 DEF MainStep
  <1>4. CASE ServerStep
    <2>1. CASE SrvLoop \/ SrvAccept \/ Lock
      BY <1>0, <1>1, <2>1 DEF SrvLoop, SrvAccept, Lock, SrvGoto, gstVars, mainVars, viewVars, VideoOK,
         VideoOwned, Running
    <2>2. CASE SwitchStop
      BY <1>1, <2>2, StopFacts DEF SwitchStop, SrvGoto, mainVars, viewVars, VideoOK, VideoOwned,
         MutexOK, Callback, InSwitch, ServerOK
    <2>3. CASE SwitchStopped
      BY <1>1, <2>3 DEF SwitchStopped, StopFailed, Answer, SrvGoto, gstVars, mainVars, VideoOK,
         VideoOwned, Running
    <2>4. CASE SwitchSensor
      BY <1>1, <2>4 DEF SwitchSensor, AfterFailedSwitch, SrvGoto, gstVars, mainVars, VideoOK,
         VideoOwned, Running
    <2>5. CASE SwitchRestore
      BY <1>1, <2>5, StartFacts DEF SwitchRestore, SrvGoto, mainVars, viewVars, VideoOK, VideoOwned,
         MutexOK, Callback, InSwitch, ServerOK
    <2>6. CASE SwitchStart
      BY <1>0, <1>1, <2>6, StartFacts DEF SwitchStart, NewConfig, SrvGoto, mainVars, VideoOK,
         VideoOwned, MutexOK, Callback, InSwitch, ServerOK
    <2>7. CASE SwitchRestored \/ SwitchStarted \/ WriteParam \/ ReadConfig
      BY <1>1, <2>7 DEF SwitchRestored, SwitchStarted, WriteParam, ReadConfig, ParamApplied,
         ParamFailed, Answer, SrvGoto, gstVars, mainVars, VideoOK, VideoOwned, Running,
         MutexOK, Callback, InSwitch
    <2> QED BY <1>4, <2>1, <2>2, <2>3, <2>4, <2>5, <2>6, <2>7 DEF ServerStep
  <1>5. CASE Clients
    BY <1>1, <1>5 DEF Clients, Connect, ClientGone, Receive, SrvGoto, gstVars, mainVars, viewVars,
       VideoOK, VideoOwned, Running
  <1>6. CASE VideoWaits
    BY <1>1, <1>6, WaitFacts DEF VideoWaits, mainVars, viewVars, srvVars, VideoOK, VideoOwned,
       MutexOK, ServerOK, Callback, InSwitch
  <1>7. CASE VideoEnds
    BY <1>1, <1>7, ExitFacts DEF VideoEnds, mainVars, viewVars, srvVars, VideoOK, VideoOwned
  <1> QED BY <1>2, <1>3, <1>4, <1>5, <1>6, <1>7 DEF Next

(* A switch on its way *)

LEMMA SwitchKept == ASSUME GatewayInv, Next PROVE SwitchOK'
  <1>1. TypeOK /\ SwitchOK /\ VideoOK'
    BY VideoKept DEF GatewayInv
  <1>2. CASE UNCHANGED <<viewVars, serialEnabled, srvPc, request, answered>>
    BY <1>1, <1>2 DEF viewVars, SwitchOK, SwitchOkComplete, VideoOK, SourceOf, NeedsSensor,
       Callback, InSwitch
  <1>3. CASE MainStep
    <2>1. CASE Booted /\ srvPc' # srvPc
      BY <1>1, <2>1 DEF Booted, viewVars, srvVars, history, SwitchOK, SwitchOkComplete, VideoOK,
         SourceOf, NeedsSensor, Callback, InSwitch
    <2> QED BY <1>2, <1>3, <2>1
            DEF MainStep, Boot, Booted, Loop, Check, StopServer, CloseSocket, Join, StopVideo,
                Shutdown, srvVars, history
  <1>4. CASE ServerStep
    <2>1. CASE SrvLoop \/ SrvAccept
      BY <1>1, <2>1 DEF SrvLoop, SrvAccept, SrvGoto, mainVars, viewVars, history, SwitchOK,
         SwitchOkComplete, VideoOK, SourceOf, NeedsSensor, Callback, InSwitch
    <2>2. CASE Lock
      <3>1. ~answered.ok /\ answered' = answered /\ request \in Requests
            /\ request' = request /\ srvPc' = request.kind
        BY <1>1, <2>2 DEF Lock, SrvGoto, SwitchOK, history
      <3> QED BY <1>1, <2>2, <3>1 DEF Lock, SwitchOK, SwitchOkComplete, Callback, InSwitch
    <2>3. CASE SwitchStop \/ SwitchRestore
      BY <1>1, <2>3 DEF SwitchStop, SwitchRestore, SrvGoto, mainVars, viewVars, history, SwitchOK,
         SwitchOkComplete, Callback, InSwitch
    <2>4. CASE SwitchStopped \/ SwitchRestored
      BY <1>1, <2>4 DEF SwitchStopped, SwitchRestored, Answer, SrvGoto, mainVars, history, SwitchOK,
         SwitchOkComplete, Callback, InSwitch
    <2>5. CASE SwitchSensor
      BY <1>1, <2>5 DEF SwitchSensor, AfterFailedSwitch, SrvGoto, mainVars, history, SwitchOK,
         SwitchOkComplete, Callback, InSwitch
    <2>6. CASE SwitchStart
      BY <1>1, <2>6 DEF SwitchStart, SrvGoto, mainVars, history, SwitchOK,
         SwitchOkComplete, Callback, InSwitch
    <2>7. CASE SwitchStarted
      BY <1>1, <2>7 DEF SwitchStarted, Answer, SrvGoto, mainVars, SwitchOK, VideoOK,
         SwitchOkComplete, Callback, InSwitch
    <2>8. CASE WriteParam \/ ReadConfig
      BY <1>1, <2>8 DEF WriteParam, ReadConfig, ParamApplied, ParamFailed, Answer, SrvGoto, mainVars,
         SwitchOK, SwitchOkComplete, Callback, InSwitch
    <2> QED BY <1>4, <2>1, <2>2, <2>3, <2>4, <2>5, <2>6, <2>7, <2>8 DEF ServerStep
  <1>5. CASE Clients
    <2>1. CASE Connect \/ ClientGone
      BY <1>1, <2>1 DEF Connect, ClientGone, SrvGoto, mainVars, viewVars, history, SwitchOK,
         SwitchOkComplete, VideoOK, SourceOf, NeedsSensor, Callback, InSwitch
    <2>2. ASSUME NEW r \in Requests, Receive(r) PROVE SwitchOK'
      BY <1>1, <2>2, RequestFacts DEF Receive, mainVars, viewVars, SwitchOK,
         SwitchOkComplete, VideoOK, SourceOf, NeedsSensor, Callback, InSwitch, NoRequest
    <2> QED BY <1>5, <2>1, <2>2 DEF Clients
  <1> QED BY <1>2, <1>3, <1>4, <1>5 DEF Next, Signal, VideoWaits, VideoEnds, mainVars, srvVars, history

LEMMA GatewayNext == GatewayInv /\ [Next]_vars => GatewayInv'
  <1>1. ASSUME GatewayInv, Next PROVE GatewayInv'
    BY <1>1, TypeKept, KeepsGInv, ControlKept, VideoKept, SwitchKept DEF GatewayInv
  <1>2. ASSUME GatewayInv, UNCHANGED vars PROVE GatewayInv'
    <2>1. GInv'
      BY <1>2, GstNextInv DEF GatewayInv, vars, gstVars
    <2>2. TypeOK'
      BY <1>2, <2>1 DEF GatewayInv, vars, TypeOK, GInv
    <2>3. MutexOK' /\ ServerOK'
      BY <1>2 DEF GatewayInv, vars, MutexOK, ServerOK
    <2>4. VideoOK'
      BY <1>2 DEF GatewayInv, vars, VideoOK, VideoOwned, Running
    <2>5. SwitchOK'
      BY <1>2 DEF GatewayInv, vars, SwitchOK, SwitchOkComplete, Running
    <2> QED BY <2>1, <2>2, <2>3, <2>4, <2>5 DEF GatewayInv
  <1> QED BY <1>1, <1>2

----------------------------------------------------------------------------
(* Every step of either thread, of clients, of the signal and of the video *)
(* leaves the program in one of its states.                                *)
THEOREM GatewayTypeCorrect == Spec => []TypeOK
  <1>1. GatewayInv => TypeOK
    BY DEF GatewayInv
  <1> QED BY <1>1, GatewayInit, GatewayNext, PTL DEF Spec

(* A mode or a parameter that switchCallback or compositeControlCallback   *)
(* has answered with ok is in force, whatever happened on the way.         *)
THEOREM OkMeansSwitched == Spec => []SwitchOkComplete
  <1>1. GatewayInv => SwitchOkComplete
    BY DEF GatewayInv, SwitchOK
  <1> QED BY <1>1, GatewayInit, GatewayNext, PTL DEF Spec

(* The video that runs shows the mode the probe believes in, also after a  *)
(* switch that failed and started the old one again, and start() is never  *)
(* called while a video runs.                                              *)
THEOREM VideoIsOfTheMode == Spec => []VideoFollowsMode
  <1>1. GatewayInv => VideoFollowsMode
    <2>1. GatewayInv => (mainPc = "boot" => ~Running)
      BY DEF GatewayInv, VideoOK, Running
    <2> QED BY <2>1 DEF GatewayInv, VideoOK, VideoFollowsMode, StartNeverBusy, MayFork
  <1> QED BY <1>1, GatewayInit, GatewayNext, PTL DEF Spec

(* The program comes down in order: the controller after the last callback,*)
(* no more than one request after server.stop() has begun, and one thread  *)
(* at a time at the video.                                                 *)
THEOREM ComesDownInOrder == Spec => []OrderlyShutdown
  <1>1. GatewayInv => OrderlyShutdown
    BY DEF GatewayInv, ServerOK, VideoOK, TypeOK, Over, OrderlyShutdown,
           ControllerOutlivesServer, OneLateRequest
  <1> QED BY <1>1, GatewayInit, GatewayNext, PTL DEF Spec

(* The two threads together use GStreamerProcess the way its own theorems  *)
(* assume: one operation at a time.                                        *)
THEOREM UsesGstProcess == Spec => GstSpec
  <1>1. Init => GstInit
    BY DEF Init
  <1>2. GatewayInv /\ [Next]_vars => [GstNext]_gstVars
    BY StepsOfGst DEF vars, gstVars
  <1> QED BY <1>1, <1>2, GatewayInit, GatewayNext, PTL DEF Spec, GstSpec

(* Hence the control program never loses a gst-launch ...                  *)
THEOREM GatewayNeverOrphans == Spec => []NoOrphan
  BY UsesGstProcess, NeverOrphaned, PTL

(* ... and a stop() it was told true by has ended the video.               *)
THEOREM GatewayStopIsTrue == Spec => StopTrueMeansGone
  BY UsesGstProcess, StopTrueIsTrue, PTL
=============================================================================
