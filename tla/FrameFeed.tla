----------------------------- MODULE FrameFeed -----------------------------
(***************************************************************************)
(* What the main stream promises to the publishers downstream (UDP, RTSP,  *)
(* GB28181): frames are numbered by the order in which the pipeline pushes *)
(* them, and every frame that is handed out is newer than all the frames   *)
(* handed out before.  Frames may be skipped, never repeated or reordered. *)
(* A feed that keeps only the newest frame (NewestOnly) never hands out    *)
(* anything but the last frame pushed.                                     *)
(***************************************************************************)
EXTENDS Naturals

CONSTANT NewestOnly    (* TRUE for a low-latency feed         *)

VARIABLES pushed,      (* number of the last frame pushed     *)
          delivered,   (* number of the last frame handed out *)
          count        (* how many frames were handed out     *)

vars == <<pushed, delivered, count>>

Init == pushed = 0 /\ delivered = 0 /\ count = 0

Publish == pushed' = pushed + 1 /\ UNCHANGED <<delivered, count>>

Deliver ==
    /\ delivered' \in (delivered + 1) .. pushed
    /\ NewestOnly => delivered' = pushed
    /\ count' = count + 1
    /\ UNCHANGED pushed

Next == Publish \/ Deliver

Spec == Init /\ [][Next]_vars
=============================================================================
