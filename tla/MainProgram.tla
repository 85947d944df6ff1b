----------------------------- MODULE MainProgram -----------------------------
(***************************************************************************)
(* main.cpp, the program that publishes one mode by UDP: it initialises    *)
(* its components one after the other, undoes what it has done when one of *)
(* them fails, and otherwise waits for a signal or the end of its time and *)
(* shuts everything down.  The publisher is UdpPublisher; the others are   *)
(* up or not.                                                              *)
(***************************************************************************)
EXTENDS UdpPublisher

CONSTANT CameraFormats   \* camera formats the configuration may name

Formats == {"mjpeg", "mjpg", "MJPG", "yuyv", "YUYV", "yuyv422", "YUYV422", "nv12", "NV12", "yuy2"}
ASSUME CameraFormatsAssumption == CameraFormats \subseteq Formats

VARIABLES
    mainAt,     (* the step main is at                                     *)
    up,         (* what has been initialised and not shut down again       *)
    todo,       (* what an exit still has to shut down, in order           *)
    gStop,      (* g_stop                                                  *)
    setup,      (* the mode asked for and the formats of the two cameras   *)
    exitCode,   (* what main returns                                       *)
    fault,      (* history: something outside the program has failed       *)
    told        (* the arguments ffmpeg was started with                   *)

mainVars == <<mainAt, up, todo, gStop, setup, exitCode, fault, told>>
mainProgramVars == <<pubVars, mainVars>>

Steps == <<"eventBus", "cameras", "controller", "mainStream", "mode", "plan",
           "streamService", "switch", "publisher">>
LastStep == Len(Steps)
Kept == {"eventBus", "cameras", "controller", "mode", "publisher"}

(* What each failure path shuts down before it returns 1. *)
UnwindMutant(step) ==
    CASE step = "eventBus"              -> <<>>
      [] step = "cameras"               -> <<"eventBus">>
      [] step = "controller"            -> <<"cameras", "eventBus">>
      [] step \in {"mainStream", "mode", "switch"} -> <<"controller", "cameras", "eventBus">>
      [] OTHER                          -> <<"mode", "controller", "cameras", "eventBus">>
Unwind(step) ==
    CASE step = "eventBus"              -> <<>>
      [] step = "cameras"               -> <<"eventBus">>
      [] step = "controller"            -> <<"cameras", "eventBus">>
      [] step \in {"mainStream", "mode"} -> <<"controller", "cameras", "eventBus">>
      [] OTHER                          -> <<"mode", "controller", "cameras", "eventBus">>
FullShutdown == <<"publisher", "mode", "controller", "cameras", "eventBus">>

(* makeCaptureFormat: what a camera is opened with, if it can be.          *)
CaptureFormat(format) ==
    CASE format \in {"mjpeg", "mjpg", "MJPG"}                -> {"Mjpeg"}
      [] format \in {"yuyv", "YUYV", "yuyv422", "YUYV422"}   -> {"RawYuyv422"}
      [] format \in {"nv12", "NV12"}                         -> {"Nv12"}
      [] OTHER                                               -> {}

(* pipeInputFormatFromCameraFormat *)
InputFormatMutant(format) == IF format = "mjpeg" THEN "Mjpeg" ELSE "RawYuyv422"
InputFormat(format) ==
    IF format \in {"yuyv", "YUYV", "yuyv422", "YUYV422"} THEN "RawYuyv422" ELSE "Mjpeg"

(* buildFfmpegArgs: what ffmpeg reads, whether it filters, and what it     *)
(* does to the video.  main leaves the encoder at its default.             *)
Encoder == "copy"
FfmpegArgs(format, encoder) ==
    [input |-> format, filter |-> format # "H264AnnexB",
     codec |-> IF format = "H264AnnexB" THEN "copy" ELSE encoder]
NoArgs == [input |-> "none", filter |-> FALSE, codec |-> "none"]

(* Two of the modes of printUsage; the others need an encoder as well, and *)
(* main's runtime context has none.                                        *)
ListedModes == {"VISIBLE_ONLY", "LOWLIGHT_THERMAL_COMPOSITE"}
NeedsEncoder(mode) == mode # "VISIBLE_ONLY"
Endpoint == IF setup.mode = "VISIBLE_ONLY" THEN setup.visible ELSE setup.composite
NoSetup == [mode |-> "none", visible |-> "none", composite |-> "none"]

(* publishFrame without an encoder: raw frames never reach the stream. *)
Publishable == CaptureFormat(Endpoint) = {"Mjpeg"}

MainInit ==
    /\ mainAt = 0 /\ up = {} /\ todo = <<>> /\ gStop = FALSE
    /\ setup = NoSetup /\ exitCode = 0 /\ fault = FALSE /\ told = NoArgs

(* mainAt: 0 before the program is launched, 1 .. 9 the steps, then the    *)
(* loop, the way out and the exit.                                         *)
InLoop  == LastStep + 1
WayOut  == LastStep + 2
Exited  == LastStep + 3

Launch ==
    /\ mainAt = 0
    /\ mainAt' = 1
    /\ setup' \in [mode : ListedModes, visible : CameraFormats, composite : CameraFormats]
    /\ UNCHANGED <<pubVars, up, todo, gStop, exitCode, fault, told>>

Interrupt ==
    /\ mainAt \in 1 .. WayOut /\ ~gStop
    /\ gStop' = TRUE
    /\ UNCHANGED <<pubVars, mainAt, up, todo, setup, exitCode, fault, told>>

FailAt(step) ==
    /\ mainAt' = WayOut /\ exitCode' = 1
    /\ todo' = Unwind(step)
    /\ UNCHANGED up

(* What the program alone decides about a step; whatever it is, something  *)
(* outside (a device, a port, the system) may fail.                        *)
Works(step) ==
    CASE step = "cameras" -> CaptureFormat(setup.visible) # {} /\ CaptureFormat(setup.composite) # {}
      [] step = "switch"  -> ~NeedsEncoder(setup.mode)
      [] OTHER            -> TRUE
InitStep ==
    /\ mainAt \in 1 .. LastStep - 1
    /\ LET step == Steps[mainAt] IN
       \/ /\ Works(step)
          /\ mainAt' = mainAt + 1
          /\ up' = up \cup ({step} \cap Kept)
          /\ UNCHANGED <<todo, exitCode, fault>>
       \/ FailAt(step) /\ fault' = Works(step)
    /\ UNCHANGED <<pubVars, gStop, setup, told>>

(* publisher.start(): the endpoint's format decides what ffmpeg is told. *)
StartPublisher ==
    /\ mainAt = LastStep
    /\ \/ /\ told = NoArgs
          /\ PubStart
          /\ told' = FfmpegArgs(InputFormat(Endpoint), Encoder)
          /\ IF control' = "check" THEN UNCHANGED <<mainAt, up, todo, exitCode, fault>>
             ELSE FailAt("publisher") /\ fault' = TRUE
       \/ /\ PubCheck
          /\ IF control' = "started"
               THEN /\ mainAt' = InLoop /\ up' = up \cup {"publisher"}
                    /\ UNCHANGED <<todo, exitCode, fault>>
               ELSE FailAt("publisher") /\ fault' = TRUE
          /\ UNCHANGED told
    /\ UNCHANGED <<gStop, setup>>

(* The loop only looks at g_stop and the clock, not at the publisher. *)
LoopEndsMutant == FALSE
LoopEnds == gStop
MainLoop ==
    /\ mainAt = InLoop
    /\ mainAt' = WayOut /\ todo' = FullShutdown
    /\ UNCHANGED <<pubVars, up, gStop, setup, exitCode, fault, told>>

ShutDownNext ==
    /\ mainAt = WayOut
    /\ \/ /\ todo # <<>> /\ Head(todo) # "publisher"
          /\ up' = up \ {Head(todo)} /\ todo' = Tail(todo)
          /\ UNCHANGED <<mainAt, pubVars>>
       \/ /\ todo # <<>> /\ Head(todo) = "publisher"
          /\ \/ PubStop /\ UNCHANGED <<up, todo>>
             \/ PubJoin /\ up' = up \ {"publisher"} /\ todo' = Tail(todo)
          /\ UNCHANGED mainAt
       \/ todo = <<>> /\ mainAt' = Exited /\ UNCHANGED <<up, todo, pubVars>>
    /\ UNCHANGED <<gStop, setup, exitCode, fault, told>>

MainStep == InitStep \/ StartPublisher \/ ShutDownNext
Publishing ==
    /\ SenderStep \/ FfmpegStep
    /\ frame'[1] # frame[1] => Publishable
    /\ UNCHANGED mainVars
MainNext == Launch \/ Interrupt \/ MainStep \/ MainLoop \/ Publishing

MainFairness ==
    /\ WF_mainProgramVars(MainStep)
    /\ WF_mainProgramVars(LoopEnds /\ MainLoop)

----------------------------------------------------------------------------
MainTypeOK ==
    /\ mainAt \in 0 .. Exited
    /\ up \subseteq Kept /\ todo \in Seq(Kept)
    /\ gStop \in BOOLEAN
    /\ setup.mode \in ListedModes \cup {"none"} /\ exitCode \in {0, 1} /\ fault \in BOOLEAN
    /\ told \in [input : {"none", "Mjpeg", "RawYuyv422", "H264AnnexB"}, filter : BOOLEAN,
                codec : {"none", "copy", Encoder}]

(* Whichever step fails, nothing is left initialised at the exit, no       *)
(* thread and no open pipe.                                                *)
NothingLeftUp == mainAt = Exited => up = {} /\ sender = "none" /\ writeFd = 0

(* A component is shut down only when none that uses it is up: the pipeline *)
(* worker reads from the cameras, the publisher from the pipeline's stream. *)
UsedAreUp ==
    LET uses == [eventBus |-> {}, cameras |-> {"eventBus"}, controller |-> {"eventBus"},
                 mode |-> {"cameras", "controller", "eventBus"}, publisher |-> {"mode"}]
    IN  \A c \in up : uses[c] \subseteq up

(* ffmpeg is told the format of the frames it is given.                    *)
ToldWhatIsPushed == mainAt > 0 /\ frame[1] > 0 => CaptureFormat(Endpoint) = {told.input}

(* "mode:" of printUsage: main gets as far as publishing any of the modes  *)
(* it lists, with any camera formats, unless something outside it fails.   *)
ListedModesStart == exitCode = 1 => fault

(* Ctrl+C ends the program, wherever it is.                                *)
InterruptEnds == gStop ~> mainAt = Exited

(* Together: the components go up and down in their order, on every path   *)
(* of failure, and all are down at the exit.                               *)
MainSafe == MainTypeOK /\ NothingLeftUp /\ UsedAreUp
=============================================================================
