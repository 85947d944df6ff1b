----------------------------- MODULE MCThreads -----------------------------
(***************************************************************************)
(* The components that run threads of their own and stand on their own, in *)
(* one run: the first state chooses one of them, and only that one moves.  *)
(***************************************************************************)
EXTENDS MainProgram, RtspServer, EventBus, FrameBuffers

VARIABLE part
vars == <<part, mainProgramVars, rtspVars, busVars, queueVars, syncVars>>

Init ==
    /\ part \in {"publisher", "main", "rtsp", "bus", "queue"}
    /\ PubInit /\ MainInit /\ RtspInit /\ EventBusInit /\ FrameInit

(* MainProgram moves the publisher with it. *)
Next ==
    /\ UNCHANGED <<part, syncVars>>
    /\ \/ /\ part = "publisher" /\ PubNext
          /\ UNCHANGED <<mainVars, rtspVars, busVars, queueVars>>
       \/ /\ part = "main" /\ MainNext
          /\ UNCHANGED <<rtspVars, busVars, queueVars>>
       \/ /\ part = "rtsp" /\ RtspNext
          /\ UNCHANGED <<mainProgramVars, busVars, queueVars>>
       \/ /\ part = "bus" /\ EventBusNext
          /\ UNCHANGED <<mainProgramVars, rtspVars, queueVars>>
       \/ /\ part = "queue" /\ QueueNext
          /\ UNCHANGED <<mainProgramVars, rtspVars, busVars>>

Spec ==
    /\ Init /\ [][Next]_vars
    /\ PubFairness /\ MainFairness /\ RtspFairness /\ EventBusFairness
=============================================================================
