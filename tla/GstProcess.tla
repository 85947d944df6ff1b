----------------------------- MODULE GstProcess -----------------------------
(***************************************************************************)
(* media/gstreamer/GStreamerProcess: the gst-launch child that carries the *)
(* video.  start() forks and looks 100 ms later whether the child is still *)
(* there; stop() escalates SIGINT, SIGTERM, SIGKILL with a bounded wait    *)
(* after each; isRunning() reaps a child that has ended.                   *)
(*                                                                         *)
(* Children are numbered in the order they are forked.  An operation that  *)
(* waits is split at its waits: `step' says where it is, and `ret' is the  *)
(* value the last operation returned.                                      *)
(***************************************************************************)
EXTENDS Naturals

CONSTANTS Sources,      (* what a child may be started to show             *)
          MaxForks      (* bound: children forked in a behaviour           *)

ASSUME GstAssumption == MaxForks \in Nat

VARIABLES
    pid,         (* pid_: the child the object knows, 0 for none           *)
    forks,       (* how many children were forked                          *)
    proc,        (* the state of each child as the kernel sees it          *)
    source,      (* what each child was started with                       *)
    step,        (* where the current operation waits                      *)
    ret          (* what the last operation returned                       *)

gstVars == <<pid, forks, proc, source, step, ret>>

Children == 1 .. MaxForks
Signals  == {"SIGINT", "SIGTERM", "SIGKILL"}

----------------------------------------------------------------------------
GstInit ==
    /\ pid = 0 /\ forks = 0
    /\ proc = [c \in Children |-> "none"]
    /\ source = [c \in Children |-> "none"]
    /\ step = "none" /\ ret = TRUE

(* What isRunning() returns, and what it does to a child that has ended. *)
Running == pid # 0 /\ proc[pid] = "alive"
ReapMutant == UNCHANGED proc /\ pid' = IF Running THEN pid ELSE 0
Reap ==
    /\ pid' = IF Running THEN pid ELSE 0
    /\ proc' = IF pid # 0 /\ ~Running THEN [proc EXCEPT ![pid] = "reaped"] ELSE proc

IsRunning ==
    /\ step = "none"
    /\ ret' = Running
    /\ Reap
    /\ UNCHANGED <<forks, source, step>>

(* start(): a child that runs already is left alone. *)
MayFork == ~Running

StartBusy ==
    /\ step = "none"
    /\ ~MayFork
    /\ ret' = FALSE
    /\ UNCHANGED <<pid, forks, proc, source, step>>

Fork(s) ==
    /\ step = "none"
    /\ MayFork
    /\ forks < MaxForks
    /\ forks' = forks + 1
    /\ pid' = forks + 1
    /\ proc' = [c \in Children |->
                  IF c = forks + 1 THEN "alive"
                  ELSE IF c = pid /\ ~Running THEN "reaped" ELSE proc[c]]
    /\ source' = [source EXCEPT ![forks + 1] = s]
    /\ step' = "starting"
    /\ UNCHANGED ret

ForkFails ==
    /\ step = "none"
    /\ MayFork
    /\ Reap
    /\ ret' = FALSE
    /\ UNCHANGED <<forks, source, step>>

(* The look after 100 ms. *)
Started ==
    /\ step = "starting"
    /\ ret' = Running
    /\ Reap
    /\ step' = "none"
    /\ UNCHANGED <<forks, source>>

(* stop() of a child that has ended, or of none. *)
StopNothing ==
    /\ step = "none"
    /\ ~Running
    /\ Reap
    /\ ret' = TRUE
    /\ UNCHANGED <<forks, source, step>>

StopSignal ==
    /\ step = "none"
    /\ Running
    /\ step' = "SIGINT"
    /\ UNCHANGED <<pid, forks, proc, source, ret>>

(* waitForExit() returns true: the child has ended and is reaped. *)
StopDone ==
    /\ step \in Signals
    /\ ~Running
    /\ Reap
    /\ step' = "none" /\ ret' = TRUE
    /\ UNCHANGED <<forks, source>>

(* waitForExit() returns false: the next signal, or the end. *)
EscalatedNever(s) == "none"
EscalatedPast(s) ==
    IF s = "SIGINT" THEN "SIGTERM" ELSE IF s = "SIGTERM" THEN "SIGKILL" ELSE "SIGSTOP"
Escalated(s) ==
    IF s = "SIGINT" THEN "SIGTERM" ELSE IF s = "SIGTERM" THEN "SIGKILL" ELSE "none"
StopTimeout ==
    /\ step \in Signals
    /\ Running
    /\ step' = Escalated(step)
    /\ ret' = IF step = "SIGKILL" THEN FALSE ELSE ret
    /\ UNCHANGED <<pid, forks, proc, source>>

(* A child ends, for a signal or by itself. *)
ChildExits(c) ==
    /\ proc[c] = "alive"
    /\ proc' = [proc EXCEPT ![c] = "ended"]
    /\ UNCHANGED <<pid, forks, source, step, ret>>

----------------------------------------------------------------------------
GstWaits == Started \/ StopDone \/ StopTimeout
GstStart(s) == StartBusy \/ Fork(s) \/ ForkFails
GstStop  == StopNothing \/ StopSignal

GstNext ==
    \/ \E s \in Sources : GstStart(s)
    \/ GstStop \/ IsRunning \/ GstWaits
    \/ \E c \in Children : ChildExits(c)

GstSpec == GstInit /\ [][GstNext]_gstVars

(* The waits are bounded by timeouts, so the calling thread goes on. *)
GstFairSpec == GstSpec /\ WF_gstVars(GstWaits)

----------------------------------------------------------------------------
GstTypeOK ==
    /\ forks \in 0 .. MaxForks /\ pid \in 0 .. forks
    /\ proc \in [Children -> {"none", "alive", "ended", "reaped"}]
    /\ source \in [Children -> Sources \cup {"none"}]
    /\ step \in {"none", "starting"} \cup Signals
    /\ ret \in BOOLEAN

(* No child is ever out of the object's sight: one that lives or waits to  *)
(* be reaped is the one pid_ names.  So two gst-launch never fight for the *)
(* camera, and no zombie is left behind.                                   *)
NoOrphan == \A c \in Children : proc[c] \in {"alive", "ended"} => c = pid

(* A stop() that gives up says so: it never returns true with a living     *)
(* child, so nobody starts a second child after a stop that failed.        *)
StopTrueMeansGone ==
    [][(step \in Signals /\ step' = "none" /\ ret')
          => (\A c \in Children : proc'[c] # "alive")]_gstVars
=============================================================================
