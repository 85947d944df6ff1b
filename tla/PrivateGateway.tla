--------------------------- MODULE PrivateGateway ---------------------------
(***************************************************************************)
(* The board-side control program (tests/l8_private_gstreamer_control_     *)
(* probe, the program the README describes): the main thread, which starts *)
(* the video and watches it, and the thread of PrivateControlServer, which *)
(* serves one HTTP client after another and switches modes in callbacks.   *)
(* They share pipelineMutex, the video child (GstProcess) and the sensor   *)
(* controller.                                                             *)
(*                                                                         *)
(* The sensor is used by its contract (SensorLink): a call that succeeds   *)
(* has been applied, one that fails may have been.  Closing the listening  *)
(* socket does not wake a thread that is blocked in accept on it; the next *)
(* client does.                                                            *)
(***************************************************************************)
EXTENDS GstProcess

CONSTANTS ParamValues,    (* values of a composite parameter               *)
          ChildMayCrash,  (* the video may end without being told to       *)
          MaxRequests     (* bound: requests served before the shutdown    *)

ASSUME GatewayAssumption ==
    /\ ChildMayCrash \in BOOLEAN
    /\ MaxRequests \in Nat
    /\ Sources = {"visible", "composite"}
    /\ "forest" \in ParamValues

VARIABLES
    \* the main thread and what it shares with the server thread
    mainPc,          (* where the main thread is                           *)
    mutex,           (* pipelineMutex: who holds it                        *)
    gStopRequested,  (* set by the signal handler                          *)
    serialEnabled,   (* no --no-serial option                              *)
    controllerUp,    (* compositeController is initialised                 *)
    config,          (* the source of the pipeline's config_               *)
    currentMode,     (* the probe's currentMode                            *)
    \* PrivateControlServer
    running,         (* running_                                           *)
    listening,       (* listenFd_ is open                                  *)
    srvPc,           (* where the server thread is                         *)
    request,         (* the request it serves                              *)
    statusMode,      (* currentMode_, which the status request reports     *)
    statusParam,     (* currentFusionColor_ and the other two              *)
    \* the sensor (external)
    sensorMode, sensorParam,
    \* history variables
    requests,        (* requests received                                  *)
    lateRequests,    (* those received after running_ was cleared          *)
    answered         (* the last request answered, and whether with ok     *)

mainVars == <<mainPc, gStopRequested, serialEnabled, controllerUp>>
viewVars == <<config, currentMode, statusMode, statusParam, sensorMode, sensorParam>>
srvVars  == <<running, listening, srvPc, request>>
history  == <<requests, lateRequests, answered>>
vars     == <<pid, forks, proc, source, step, ret, mainPc, mutex, gStopRequested,
              serialEnabled, controllerUp, config, currentMode, running, listening,
              srvPc, request, statusMode, statusParam, sensorMode, sensorParam,
              requests, lateRequests, answered>>

----------------------------------------------------------------------------
(* Four of the seven private modes: each source and each sensor output. *)
Modes == {"visible", "lowlight", "thermal", "lowlight_thermal"}

(* configForModeCommand and mapPrivateModeToCompositeOutput *)
SourceOf(mode) == IF mode = "visible" THEN "visible" ELSE "composite"
NeedsSensor(mode) == mode # "visible"

Requests ==
         [kind : {"mode"}, arg : Modes]
    \cup [kind : {"param"}, arg : ParamValues]
    \cup [kind : {"config", "status", "bad"}, arg : {"none"}]
NoRequest == [kind |-> "none", arg |-> "none"]

Init ==
    /\ GstInit
    /\ mainPc = "boot" /\ mutex = "free" /\ gStopRequested = FALSE
    /\ serialEnabled \in BOOLEAN /\ controllerUp = serialEnabled
    /\ currentMode = "lowlight_thermal" /\ config = SourceOf("lowlight_thermal")
    /\ running = FALSE /\ listening = FALSE /\ srvPc = "off" /\ request = NoRequest
    /\ statusMode = "lowlight_thermal"
    /\ sensorMode \in Modes \ {"visible"}
    /\ sensorParam \in ParamValues /\ statusParam = "forest"
    /\ requests = 0 /\ lateRequests = 0
    /\ answered = [request |-> NoRequest, ok |-> FALSE]

----------------------------------------------------------------------------
(* The main thread. *)

Goto(label) == mainPc' = label

(* pipeline.start(); that no child runs at the time is StartNeverBusy.     *)
VideoStart(s) == Fork(s) \/ ForkFails

Signal ==
    /\ mainPc # "exited" /\ ~gStopRequested
    /\ gStopRequested' = TRUE
    /\ UNCHANGED <<gstVars, mainPc, serialEnabled, controllerUp, mutex, viewVars, srvVars, history>>

Boot ==
    /\ mainPc = "boot"
    /\ VideoStart(config)
    /\ Goto("booting")
    /\ UNCHANGED <<gStopRequested, serialEnabled, controllerUp, mutex, viewVars, srvVars, history>>

(* The server starts once the video runs; without video, or if the port    *)
(* cannot be opened, the program ends.                                     *)
Booted ==
    /\ mainPc = "booting" /\ step = "none"
    /\ \/ /\ ret
          /\ Goto("loop")
          /\ running' = TRUE /\ listening' = TRUE /\ srvPc' = "loop"
          /\ UNCHANGED <<controllerUp, request>>
       \/ ret /\ Goto("stopVideo") /\ UNCHANGED <<controllerUp, srvVars>>
       \/ ~ret /\ Goto("exited") /\ controllerUp' = FALSE /\ UNCHANGED srvVars
    /\ UNCHANGED <<gstVars, gStopRequested, serialEnabled, mutex, viewVars, history>>

Loop ==
    /\ mainPc = "loop"
    /\ \/ gStopRequested /\ Goto("stop") /\ UNCHANGED mutex
       \/ ~gStopRequested /\ mutex = "free" /\ mutex' = "main" /\ Goto("check")
    /\ UNCHANGED <<gstVars, gStopRequested, serialEnabled, controllerUp, viewVars, srvVars, history>>

Check ==
    /\ mainPc = "check"
    /\ IsRunning
    /\ \/ Running /\ mutex' = "free" /\ Goto("loop")
       \/ ~Running /\ UNCHANGED mutex /\ Goto("stopDead")
    /\ UNCHANGED <<gStopRequested, serialEnabled, controllerUp, viewVars, srvVars, history>>

(* server.stop(): clear running_, close the socket, join the thread.  When *)
(* the video has ended, the main thread does so with the mutex held.       *)
StopServer ==
    /\ mainPc \in {"stop", "stopDead"}
    /\ running' = FALSE
    /\ Goto(IF mainPc = "stop" THEN "close" ELSE "closeDead")
    /\ UNCHANGED <<gstVars, gStopRequested, serialEnabled, controllerUp, mutex, viewVars,
                   listening, srvPc, request, history>>

CloseSocket ==
    /\ mainPc \in {"close", "closeDead"}
    /\ listening' = FALSE
    /\ Goto(IF mainPc = "close" THEN "join" ELSE "joinDead")
    /\ UNCHANGED <<gstVars, gStopRequested, serialEnabled, controllerUp, mutex, viewVars,
                   running, srvPc, request, history>>

JoinableMutant == TRUE
Joinable == srvPc = "ended"
Join ==
    /\ Joinable
    /\ \/ mainPc = "join" /\ Goto("stopVideo") /\ UNCHANGED <<controllerUp, mutex>>
       \/ /\ mainPc = "joinDead"
          /\ controllerUp' = FALSE /\ mutex' = "free"
          /\ Goto("exited")
    /\ UNCHANGED <<gstVars, gStopRequested, serialEnabled, viewVars, srvVars, history>>

StopVideo ==
    /\ mainPc = "stopVideo"
    /\ GstStop
    /\ Goto("stopWait")
    /\ UNCHANGED <<gStopRequested, serialEnabled, controllerUp, mutex, viewVars, srvVars, history>>

Shutdown ==
    /\ mainPc = "stopWait" /\ step = "none"
    /\ controllerUp' = FALSE
    /\ Goto("exited")
    /\ UNCHANGED <<gstVars, gStopRequested, serialEnabled, mutex, viewVars, srvVars, history>>

----------------------------------------------------------------------------
(* The server thread. *)

SrvGoto(label) == srvPc' = label /\ UNCHANGED <<running, listening, request>>

(* while (running_) accept: accept fails at once on a socket that has been *)
(* closed before the call.                                                 *)
KeepServingMutant == TRUE
KeepServing == running
SrvLoop ==
    /\ srvPc = "loop"
    /\ \/ KeepServing /\ SrvGoto("accept")
       \/ ~KeepServing /\ SrvGoto("ended")
    /\ UNCHANGED <<gstVars, mainVars, mutex, viewVars, history>>

SrvAccept ==
    /\ srvPc = "accept"
    /\ \/ listening /\ SrvGoto("accepting")
       \/ ~listening /\ SrvGoto("loop")
    /\ UNCHANGED <<gstVars, mainVars, mutex, viewVars, history>>

(* A client connects; it sends a request, or goes away without one. *)
Connect ==
    /\ srvPc = "accepting"
    /\ requests < MaxRequests \/ ~running
    /\ SrvGoto("recv")
    /\ UNCHANGED <<gstVars, mainVars, mutex, viewVars, history>>

ClientGone ==
    /\ srvPc = "recv"
    /\ SrvGoto("loop")
    /\ UNCHANGED <<gstVars, mainVars, mutex, viewVars, history>>

(* handleHttpRequest: the status and the requests that are refused need no *)
(* lock; the others go into their callback.                                *)
Receive(r) ==
    /\ srvPc = "recv"
    /\ request' = r
    /\ requests' = requests + 1
    /\ lateRequests' = IF running THEN lateRequests ELSE lateRequests + 1
    /\ srvPc' = IF r.kind \in {"status", "bad"} THEN "loop" ELSE "lock"
    /\ answered' = IF r.kind \in {"status", "bad"} THEN answered
                   ELSE [request |-> NoRequest, ok |-> FALSE]
    /\ UNCHANGED <<gstVars, mainVars, mutex, viewVars, running, listening>>

Lock ==
    /\ srvPc = "lock" /\ mutex = "free"
    /\ mutex' = "server"
    /\ SrvGoto(request.kind)
    /\ UNCHANGED <<gstVars, mainVars, viewVars, history>>

(* The callback returns and the server keeps what it reports in a status.  *)
(* currentMode_ and the parameter follow only an answer with ok.           *)
Answer(ok) ==
    /\ mutex' = "free"
    /\ statusMode' = IF ok /\ request.kind = "mode" THEN request.arg ELSE statusMode
    /\ statusParam' = IF ok /\ request.kind = "param" THEN request.arg ELSE statusParam
    /\ answered' = [request |-> request, ok |-> ok]
    /\ SrvGoto("loop")
    /\ UNCHANGED <<requests, lateRequests>>

(* switchCallback: stop the video, switch the sensor, start the new video. *)
SwitchStop ==
    /\ srvPc = "mode"
    /\ GstStop
    /\ SrvGoto("stopped")
    /\ UNCHANGED <<mainVars, mutex, viewVars, history>>

StopFailed == ~ret
SwitchStopped ==
    /\ srvPc = "stopped" /\ step = "none"
    /\ \/ StopFailed /\ Answer(FALSE)
       \/ /\ ~StopFailed
          /\ SrvGoto(IF serialEnabled /\ NeedsSensor(request.arg) THEN "sensor" ELSE "start")
          /\ UNCHANGED <<mutex, statusMode, statusParam, history>>
    /\ UNCHANGED <<gstVars, mainVars, config, currentMode, sensorMode, sensorParam>>

(* setOutputMode; a command that failed may have reached the sensor. *)
AfterFailedSwitchMutant == "start"
AfterFailedSwitch == "restore"
SwitchSensor ==
    /\ srvPc = "sensor"
    /\ \/ sensorMode' = request.arg /\ SrvGoto("start")
       \/ sensorMode' \in {sensorMode, request.arg} /\ SrvGoto(AfterFailedSwitch)
    /\ UNCHANGED <<gstVars, mainVars, mutex, config, currentMode, statusMode, statusParam,
                   sensorParam, history>>

(* After a failed switch the old video is started again, unchecked. *)
SwitchRestore ==
    /\ srvPc = "restore"
    /\ VideoStart(config)
    /\ SrvGoto("restored")
    /\ UNCHANGED <<mainVars, mutex, viewVars, history>>

SwitchRestored ==
    /\ srvPc = "restored" /\ step = "none"
    /\ Answer(FALSE)
    /\ UNCHANGED <<gstVars, mainVars, config, currentMode, sensorMode, sensorParam>>

NewConfigMutant(mode) == config
NewConfig(mode) == SourceOf(mode)
SwitchStart ==
    /\ srvPc = "start"
    /\ config' = NewConfig(request.arg)
    /\ currentMode' = request.arg
    /\ VideoStart(NewConfig(request.arg))
    /\ SrvGoto("started")
    /\ UNCHANGED <<mainVars, mutex, statusMode, statusParam, sensorMode, sensorParam, history>>

SwitchStarted ==
    /\ srvPc = "started" /\ step = "none"
    /\ Answer(ret)
    /\ UNCHANGED <<gstVars, mainVars, config, currentMode, sensorMode, sensorParam>>

(* compositeControlCallback *)
ParamApplied == serialEnabled /\ sensorParam' = request.arg /\ Answer(TRUE)
ParamFailed ==
    /\ sensorParam' \in IF serialEnabled THEN {sensorParam, request.arg} ELSE {sensorParam}
    /\ Answer(FALSE)
WriteParam ==
    /\ srvPc = "param"
    /\ ParamApplied \/ ParamFailed
    /\ UNCHANGED <<gstVars, mainVars, config, currentMode, sensorMode>>

(* compositeConfigQueryCallback reads registers and changes nothing. *)
ReadConfig ==
    /\ srvPc = "config"
    /\ \/ serialEnabled /\ Answer(TRUE)
       \/ Answer(FALSE)
    /\ UNCHANGED <<gstVars, mainVars, config, currentMode, sensorMode, sensorParam>>

----------------------------------------------------------------------------
(* The video child's own steps, and the waits of the thread inside start() *)
(* or stop().                                                              *)
VideoWaits ==
    /\ GstWaits
    /\ UNCHANGED <<mainVars, mutex, viewVars, srvVars, history>>

VideoEnds ==
    /\ step \in Signals \/ ChildMayCrash
    /\ \E c \in Children : ChildExits(c)
    /\ UNCHANGED <<mainVars, mutex, viewVars, srvVars, history>>

MainStep == Boot \/ Booted \/ Loop \/ Check \/ StopServer \/ CloseSocket \/ Join
            \/ StopVideo \/ Shutdown
ServerStep ==
    \/ SrvLoop \/ SrvAccept \/ Lock
    \/ SwitchStop \/ SwitchStopped \/ SwitchSensor \/ SwitchRestore \/ SwitchRestored
    \/ SwitchStart \/ SwitchStarted \/ WriteParam \/ ReadConfig
Clients == Connect \/ ClientGone \/ \E r \in Requests : Receive(r)

Next == Signal \/ MainStep \/ ServerStep \/ Clients \/ VideoWaits \/ VideoEnds

Spec == Init /\ [][Next]_vars

(* The threads of the program run; a mutex that is free again and again is *)
(* given to a thread that waits for it.  Nothing is assumed of clients,    *)
(* and nobody has to press Ctrl+C.                                         *)
ProgramFairness ==
    /\ WF_vars(MainStep) /\ SF_vars(Loop)
    /\ WF_vars(ServerStep) /\ SF_vars(Lock)
    /\ WF_vars(VideoWaits)
FairSpec == Spec /\ ProgramFairness

(* The same with clients that go on connecting and finish what they began. *)
BusyFairSpec == FairSpec /\ WF_vars(Clients)

----------------------------------------------------------------------------
MainLabels == {"boot", "booting", "loop", "check", "stop", "close", "join", "stopDead",
               "closeDead", "joinDead", "stopVideo", "stopWait", "exited"}
SrvLabels  == {"off", "loop", "accept", "accepting", "recv", "lock", "ended", "mode", "param",
               "config", "stopped", "sensor", "restore", "restored", "start", "started"}

TypeOK ==
    /\ GstTypeOK
    /\ mainPc \in MainLabels /\ mutex \in {"free", "main", "server"}
    /\ {gStopRequested, serialEnabled, controllerUp, running, listening} \subseteq BOOLEAN
    /\ config \in Sources /\ {currentMode, statusMode} \subseteq Modes
    /\ srvPc \in SrvLabels /\ request \in Requests \cup {NoRequest}
    /\ sensorMode \in Modes \ {"visible"} /\ {sensorParam, statusParam} \subseteq ParamValues
    /\ requests \in Nat /\ lateRequests \in Nat
    /\ answered \in [request : Requests \cup {NoRequest}, ok : BOOLEAN]

(* A mode switch answered with ok is complete: the sensor shows the mode,  *)
(* the probe and the status request agree on it, and a video that runs is  *)
(* the one of this mode.  A parameter set with ok is the sensor's and the  *)
(* reported one.                                                           *)
SwitchOkComplete ==
    LET asked == answered.request.arg IN
    /\ answered.ok /\ answered.request.kind = "mode" =>
        /\ currentMode = asked /\ statusMode = asked
        /\ serialEnabled /\ NeedsSensor(asked) => sensorMode = asked
        /\ Running => source[pid] = SourceOf(asked)
    /\ answered.ok /\ answered.request.kind = "param" =>
        sensorParam = asked /\ statusParam = asked

(* Outside a mode switch, a running video shows the source of the mode the *)
(* probe believes in, also after a switch that failed half-way; and nobody *)
(* starts a video while the old one still runs, which start() would refuse.*)
StartNeverBusy == mainPc = "boot" \/ srvPc \in {"restore", "start"} => MayFork
VideoFollowsMode ==
    /\ Running /\ srvPc \notin {"start", "started"} => source[pid] = SourceOf(currentMode)
    /\ StartNeverBusy

(* The controller is shut down only when no callback can use it any more.  *)
ControllerOutlivesServer == serialEnabled /\ ~controllerUp => srvPc \in {"off", "ended"}

(* A stop is not ignored for long: at most one client is still served      *)
(* after running_ was cleared.                                             *)
OneLateRequest == lateRequests <= 1

(* Two threads never operate on the video child at the same time: an       *)
(* operation that waits belongs to the thread inside it.                   *)
VideoOwned ==
    step # "none" => \/ mainPc \in {"booting", "stopWait"} /\ srvPc \in {"off", "ended"}
                     \/ mutex = "server" /\ srvPc \in {"stopped", "restored", "started"}

(* Together: the program comes down in order.                              *)
OrderlyShutdown == ControllerOutlivesServer /\ OneLateRequest /\ VideoOwned

(* With clients that go on connecting, Ctrl+C ends the program, unless the *)
(* main thread has found the video ended and takes that way out.           *)
CtrlCExitsWithClients ==
    gStopRequested ~> mainPc \in {"exited", "stopDead", "closeDead", "joinDead"}

(* Ctrl+C ends the program. *)
CtrlCExits == gStopRequested ~> mainPc = "exited"

(* When the video has ended by itself, the program ends (with an error).   *)
DeadVideoExits == mainPc = "stopDead" ~> mainPc = "exited"

(* A composite mode's video runs only with the sensor switched to it.      *)
VideoMatchesSensor ==
    mainPc = "loop" /\ Running /\ serialEnabled /\ NeedsSensor(currentMode)
        => srvPc \in {"stopped", "sensor", "restore", "restored", "start", "started"}
           \/ sensorMode = currentMode
=============================================================================
