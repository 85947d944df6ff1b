------------------------------- MODULE MCData -------------------------------
(***************************************************************************)
(* The components that keep or transform data and call nobody, in one run: *)
(* the first state chooses one of them, and only that one moves.           *)
(***************************************************************************)
EXTENDS RtpJpeg, ProtocolAccess, ConfigStore, SystemConfig, MppEncoder, FrameBuffers

VARIABLE part
configVars == <<storeVars, yamlVars, settingsVars>>
mediaVars == <<rtpVars, encVars, queueVars, syncVars>>
vars == <<part, accessVars, configVars, mediaVars>>

Init ==
    /\ part \in {"rtp", "access", "store", "yaml", "settings", "encoder", "sync"}
    /\ RtpInit /\ AccessInit /\ StoreInit /\ ConfigInit /\ MppInit /\ FrameInit

Next ==
    /\ UNCHANGED part
    /\ \/ part = "rtp" /\ RtpNext
          /\ UNCHANGED <<accessVars, configVars, encVars, queueVars, syncVars>>
       \/ part = "encoder" /\ MppNext
          /\ UNCHANGED <<accessVars, configVars, rtpVars, queueVars, syncVars>>
       \/ part = "sync" /\ SyncNext
          /\ UNCHANGED <<accessVars, configVars, rtpVars, encVars, queueVars>>
       \/ part = "access" /\ AccessNext /\ UNCHANGED <<configVars, mediaVars>>
       \/ part = "store" /\ StoreNext
          /\ UNCHANGED <<accessVars, yamlVars, settingsVars, mediaVars>>
       \/ part = "yaml" /\ YamlNext
          /\ UNCHANGED <<accessVars, storeVars, settingsVars, mediaVars>>
       \/ part = "settings" /\ SettingsNext
          /\ UNCHANGED <<accessVars, storeVars, yamlVars, mediaVars>>

Spec == Init /\ [][Next]_vars

----------------------------------------------------------------------------
MCScans == {<<>>, <<5>>, <<255, 0, 6>>, [i \in 1 .. 12 |-> i]}
(* The texts: plain, empty, blank, two with a '#' and what is read of      *)
(* them, and one with a line break, whose rest empties the checked text.   *)
X == <<"x">>
HashInside == <<"x", "#", "x">>
HashFirst == <<"\"", "#", "x">>
Broken == <<"x", "\n", "x">>
MCTexts == {X, <<"x", "x">>, <<>>, <<" ">>, HashInside, HashFirst, <<"\"", "x">>, Broken}
MCPorts == {0, 5060, 5061}
MCConfig(enable, text, name, port) ==
    [enable |-> enable, text |-> text, name |-> name, port |-> port, server |-> X]
MCGiven ==
    {MCConfig(TRUE, HashInside, X, 5061), MCConfig(TRUE, HashFirst, X, 5060),
     MCConfig(TRUE, Broken, X, 5060), MCConfig(TRUE, <<" ">>, X, 5060),
     MCConfig(FALSE, <<>>, HashInside, 0)}
MCSpilled == [c \in Configuration |-> [Default EXCEPT !.text = <<>>]]
MCServers == {<<>>, <<"x", "x">>}
MCEndpoints == <<"gb28181", "rtsp">>
=============================================================================
