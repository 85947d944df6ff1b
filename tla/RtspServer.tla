----------------------------- MODULE RtspServer -----------------------------
(***************************************************************************)
(* protocol/rtsp/RtspServer: the thread that starts and stops the server,  *)
(* the accept thread, and a thread per client that answers its requests    *)
(* and, after PLAY, streams frames to it.  stop() shuts the listening      *)
(* socket down, which wakes the accept thread, but it knows no client's    *)
(* socket: a client thread leaves when its peer does something or a frame  *)
(* is sent.  The threads of clients that have left stay in clientThreads_  *)
(* until stop() joins them.                                                *)
(***************************************************************************)
EXTENDS Naturals, FiniteSets

CONSTANTS Peers,      \* bound: connections in a behaviour
          MaxStarts   \* bound: successful start() calls

ASSUME RtspAssumption == MaxStarts \in Nat

VARIABLES
    rtspRunning,    (* running_                                            *)
    listenFd,       (* listenFd_ is open                                   *)
    keeper,         (* where the thread is that starts and stops           *)
    starts,         (* start() calls that succeeded                        *)
    acceptor,       (* acceptThread_: "none" if it is not joinable         *)
    accepted,       (* the connection accept() has returned                *)
    clientThreads,  (* clientThreads_: the connections with a thread in it *)
    client,         (* where each connection's thread is                   *)
    playing,        (* the connections that have sent PLAY                 *)
    closes,         (* how often each connection's socket was closed       *)
    peer            (* the other ends: "away", "there" or "gone"           *)

rtspVars == <<rtspRunning, listenFd, keeper, starts, acceptor, accepted, clientThreads,
              client, playing, closes, peer>>
serverSide == <<rtspRunning, listenFd, keeper, starts>>
acceptSide == <<acceptor, accepted, clientThreads>>
clientSide == <<client, playing, closes, peer>>

NoPeer == "nobody"

RtspInit ==
    /\ rtspRunning = FALSE /\ listenFd = FALSE
    /\ keeper = "stopped" /\ starts = 0
    /\ acceptor = "none" /\ accepted = NoPeer
    /\ clientThreads = {}
    /\ client = [p \in Peers |-> "none"]
    /\ playing = {}
    /\ closes = [p \in Peers |-> 0]
    /\ peer = [p \in Peers |-> "away"]

Alive(p) == client[p] \notin {"none", "ended"}

----------------------------------------------------------------------------
(* start() and stop().  A start() whose socket, bind or listen fails has   *)
(* closed what it opened and changes nothing.                              *)
RtspStart ==
    /\ keeper = "stopped"
    /\ starts < MaxStarts
    /\ starts' = starts + 1
    /\ listenFd' = TRUE /\ rtspRunning' = TRUE
    /\ acceptor' = "loop"
    /\ keeper' = "started"
    /\ UNCHANGED <<accepted, clientThreads, clientSide>>

RtspStop ==
    /\ keeper = "started"
    /\ rtspRunning' = FALSE
    /\ keeper' = "close"
    /\ UNCHANGED <<listenFd, starts, acceptSide, clientSide>>

CloseListener ==
    /\ keeper = "close"
    /\ listenFd' = FALSE
    /\ keeper' = "joinAccept"
    /\ UNCHANGED <<rtspRunning, starts, acceptSide, clientSide>>

AcceptorJoinableMutant == TRUE
AcceptorJoinable == acceptor = "ended"
JoinAcceptor ==
    /\ keeper = "joinAccept"
    /\ AcceptorJoinable
    /\ acceptor' = IF acceptor = "ended" THEN "none" ELSE acceptor
    /\ keeper' = "joinClients"
    /\ UNCHANGED <<rtspRunning, listenFd, starts, accepted, clientThreads, clientSide>>

JoinClients ==
    /\ keeper = "joinClients"
    /\ \A p \in clientThreads : client[p] = "ended"
    /\ clientThreads' = {}
    /\ keeper' = "stopped"
    /\ UNCHANGED <<rtspRunning, listenFd, starts, acceptor, accepted, clientSide>>

----------------------------------------------------------------------------
(* acceptLoop *)
AcceptLoop ==
    /\ acceptor = "loop"
    /\ acceptor' = IF rtspRunning THEN "accept" ELSE "ended"
    /\ UNCHANGED <<serverSide, accepted, clientThreads, clientSide>>

(* accept() on a socket that is closed or shut down fails. *)
AcceptWokenMutant == FALSE
AcceptWoken == ~listenFd
AcceptFails ==
    /\ acceptor = "accept"
    /\ AcceptWoken
    /\ acceptor' = "loop"
    /\ UNCHANGED <<serverSide, accepted, clientThreads, clientSide>>

Accept(p) ==
    /\ acceptor = "accept" /\ listenFd
    /\ peer[p] = "away"
    /\ peer' = [peer EXCEPT ![p] = "there"]
    /\ acceptor' = "push" /\ accepted' = p
    /\ UNCHANGED <<serverSide, clientThreads, client, playing, closes>>

PushClient ==
    /\ acceptor = "push"
    /\ clientThreads' = clientThreads \cup {accepted}
    /\ client' = [client EXCEPT ![accepted] = "loop"]
    /\ acceptor' = "loop" /\ accepted' = NoPeer
    /\ UNCHANGED <<serverSide, playing, closes, peer>>

----------------------------------------------------------------------------
(* clientLoop *)
ClientAt(p, from, to) ==
    /\ client[p] = from
    /\ client' = [client EXCEPT ![p] = to]

(* while (running_) *)
ClientLoop(p) ==
    /\ ClientAt(p, "loop", IF rtspRunning THEN "recv" ELSE "leave")
    /\ UNCHANGED <<serverSide, acceptSide, playing, closes, peer>>

(* A request that is answered; the answer can be sent, or not.  OPTIONS,   *)
(* DESCRIBE, SETUP and unknown methods leave nothing behind.               *)
OtherRequest(p) ==
    /\ peer[p] = "there"
    /\ ClientAt(p, "recv", "loop")
    /\ UNCHANGED <<serverSide, acceptSide, playing, closes, peer>>

PlayRequest(p) ==
    /\ peer[p] = "there"
    /\ ClientAt(p, "recv", "leave")
    /\ playing' = playing \cup {p}
    /\ UNCHANGED <<serverSide, acceptSide, closes, peer>>

(* TEARDOWN closes the socket and returns. *)
AfterTeardown == "ended"
TeardownRequest(p) ==
    /\ peer[p] = "there"
    /\ ClientAt(p, "recv", AfterTeardown)
    /\ closes' = [closes EXCEPT ![p] = @ + 1]
    /\ UNCHANGED <<serverSide, acceptSide, playing, peer>>

(* recv() returns nothing any more, or the answer cannot be sent. *)
ReadFailed(p) == peer[p] = "gone"
RequestFails(p) ==
    /\ ReadFailed(p)
    /\ ClientAt(p, "recv", "leave")
    /\ UNCHANGED <<serverSide, acceptSide, playing, closes, peer>>

(* if (playing && running_) streamMjpegOverTcp *)
ClientLeaves(p) ==
    /\ ClientAt(p, "leave", IF p \in playing /\ rtspRunning THEN "stream" ELSE "close")
    /\ UNCHANGED <<serverSide, acceptSide, playing, closes, peer>>

(* streamMjpegOverTcp, from one frame to the next; sending one takes until *)
(* the peer has read enough of it or is gone.                              *)
NextFrame(p) ==
    /\ rtspRunning
    /\ ClientAt(p, "stream", "send")
    /\ UNCHANGED <<serverSide, acceptSide, playing, closes, peer>>

StreamStops(p) ==
    /\ ~rtspRunning
    /\ ClientAt(p, "stream", "close")
    /\ UNCHANGED <<serverSide, acceptSide, playing, closes, peer>>

PeerReads(p) ==
    /\ peer[p] = "there"
    /\ ClientAt(p, "send", "stream")
    /\ UNCHANGED <<serverSide, acceptSide, playing, closes, peer>>

SendFails(p) ==
    /\ peer[p] = "gone"
    /\ ClientAt(p, "send", "close")
    /\ UNCHANGED <<serverSide, acceptSide, playing, closes, peer>>

CloseClient(p) ==
    /\ ClientAt(p, "close", "ended")
    /\ closes' = [closes EXCEPT ![p] = @ + 1]
    /\ UNCHANGED <<serverSide, acceptSide, playing, peer>>

PeerLeaves(p) ==
    /\ peer[p] = "there"
    /\ peer' = [peer EXCEPT ![p] = "gone"]
    /\ UNCHANGED <<serverSide, acceptSide, client, playing, closes>>

----------------------------------------------------------------------------
KeeperStep == CloseListener \/ JoinAcceptor \/ JoinClients
AcceptorStep == AcceptLoop \/ AcceptFails \/ PushClient
ClientStep(p) ==
    \/ ClientLoop(p) \/ RequestFails(p) \/ ClientLeaves(p) \/ StreamStops(p) \/ SendFails(p)
    \/ CloseClient(p)
PeerStep(p) ==
    \/ OtherRequest(p) \/ PlayRequest(p) \/ TeardownRequest(p)
    \/ PeerReads(p) \/ PeerLeaves(p)
RtspNext ==
    \/ RtspStart \/ RtspStop \/ KeeperStep
    \/ AcceptorStep
    \/ \E p \in Peers : Accept(p) \/ NextFrame(p) \/ ClientStep(p) \/ PeerStep(p)

(* The server's threads run; a peer the server waits for does not stay     *)
(* silent for ever, but sends requests, reads or goes away.  No frame need *)
(* ever come.                                                              *)
RtspFairness ==
    /\ WF_rtspVars(KeeperStep) /\ WF_rtspVars(AcceptorStep)
    /\ \A p \in Peers : /\ WF_rtspVars(ClientStep(p))
                        /\ WF_rtspVars(PeerStep(p) /\ client[p] \in {"recv", "send"})

----------------------------------------------------------------------------
RtspTypeOK ==
    /\ rtspRunning \in BOOLEAN /\ listenFd \in BOOLEAN
    /\ keeper \in {"stopped", "started", "close", "joinAccept", "joinClients"}
    /\ starts \in 0 .. MaxStarts
    /\ acceptor \in {"none", "loop", "accept", "push", "ended"}
    /\ accepted \in Peers \cup {NoPeer}
    /\ clientThreads \subseteq Peers /\ playing \subseteq Peers
    /\ client \in [Peers -> {"none", "loop", "recv", "leave", "stream", "send", "close", "ended"}]
    /\ closes \in [Peers -> 0 .. 2]
    /\ peer \in [Peers -> {"away", "there", "gone"}]

(* After stop() has returned no thread of the server is left that could    *)
(* use the stream service, and start() assigns to a thread that is free:   *)
(* a client accepted while the server stops is joined like any other.      *)
StopLeavesNoThread ==
    keeper = "stopped" => acceptor = "none" /\ \A p \in Peers : ~Alive(p)

(* The thread of a connection closes its socket exactly once, on every way *)
(* out.                                                                    *)
SocketClosedOnce ==
    \A p \in Peers : closes[p] = IF client[p] = "ended" THEN 1 ELSE 0

(* stop() returns if no client stays silent or stops reading.              *)
RtspStopReturns == keeper = "close" ~> keeper = "stopped"

(* The socket of a peer that leaves is closed, unless the thread waits for *)
(* a frame: only sending one would tell it.                                *)
GonePeerReleased ==
    \A p \in Peers : peer[p] = "gone" /\ Alive(p) ~> client[p] \in {"ended", "stream"}

(* Together: stop() takes every thread along, and a thread its socket.     *)
RtspSafe == RtspTypeOK /\ StopLeavesNoThread /\ SocketClosedOnce

(* Together: neither stop() nor a client's thread waits for a peer that    *)
(* has gone.                                                               *)
RtspEnds == RtspStopReturns /\ GonePeerReleased
=============================================================================
