---------------------------- MODULE MCModeSwitch ----------------------------
(***************************************************************************)
(* The work-mode path with two protocol threads.                           *)
(***************************************************************************)
EXTENDS ModeSwitch

(* A sensor that is never switched may as well be in one mode as another:  *)
(* with skipSensor nothing looks at it.                                    *)
MCInit == Init /\ (skipSensor => sensor = "LowlightThermalComposite")
MCSpec == MCInit /\ [][Next]_<<vars, skipSensor>> /\ Fairness
=============================================================================
