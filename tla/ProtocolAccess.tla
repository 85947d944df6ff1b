--------------------------- MODULE ProtocolAccess ---------------------------
(***************************************************************************)
(* Which protocol may use the device: service/ProtocolService keeps the    *)
(* active protocol of the configuration and the current owner; the         *)
(* ProtocolManager acquires ownership for the protocol it starts, and each *)
(* command of a protocol adapter acquires it again for as long as the      *)
(* command bus takes to execute it (ScopedProtocolOwner).  The owner is    *)
(* one name, not a count: whoever releases it first clears it for all.     *)
(***************************************************************************)
EXTENDS Naturals

CONSTANTS Callers,       \* threads that bring in requests
          ActiveTexts,   \* protocol.active, as the configuration may spell it
          Enabled        \* protocols whose endpoint is enabled and valid

Protocols == {"gb28181", "onvif", "private", "rtsp"}
Nobody == ""
Spellings == [gb28181 |-> {"gb28181", "GB28181", "gb-28181", "gb"},
              onvif   |-> {"onvif", "ONVIF"},
              private |-> {"private", "private_api", "http"},
              rtsp    |-> {"rtsp", "RTSP"}]
Other == "other"    \* a text that normalizes to none of them

ASSUME AccessAssumption ==
    /\ ActiveTexts \subseteq UNION {Spellings[p] : p \in Protocols} \cup {Other}
    /\ Enabled \subseteq Protocols

VARIABLES
    active,        (* protocol.active                                      *)
    allowMulti,    (* protocol.allow_multi_online                          *)
    managed,       (* ProtocolManager's initialized_                       *)
    endpoint,      (* states_ of the manager                               *)
    owner,         (* activeOwner_                                         *)
    caller,        (* where each caller is                                 *)
    command        (* the protocol and command type of its request         *)

accessVars == <<active, allowMulti, managed, endpoint, owner, caller, command>>

----------------------------------------------------------------------------
(* protocolKindFromString drops blanks, '_', '-' and '.' and the case of   *)
(* the letters before it compares: a sample of the spellings of each kind. *)
KindOf(text) ==
    IF \E p \in Protocols : text \in Spellings[p]
      THEN CHOOSE p \in Protocols : text \in Spellings[p]
      ELSE "unknown"

(* The three control adapters: the command type of a request, if it has    *)
(* one.                                                                    *)
CommandTypes == {"QUERY_STATUS", "GET_WORK_MODE", "SET_WORK_MODE", "START_STREAM", "STOP_STREAM"}
Actions == CommandTypes \cup {"SET_WORK_MODE without mode", "unknown"}
TypeOf(action) == {type \in CommandTypes : type = action}
NoCommand == [protocol |-> Nobody, type |-> "none"]

AccessInit ==
    /\ active = Nobody /\ allowMulti = FALSE /\ managed = FALSE
    /\ endpoint = [p \in Protocols |-> "Stopped"]
    /\ owner = Nobody
    /\ caller = [t \in Callers |-> "idle"]
    /\ command = [t \in Callers |-> NoCommand]

(* ProtocolService::init, and ProtocolManager::init, which may refuse.     *)
Configure(text, multi) ==
    /\ active = Nobody
    /\ active' = text /\ allowMulti' = multi
    /\ managed' = (KindOf(text) \in Enabled)
    /\ UNCHANGED <<endpoint, owner, caller, command>>

----------------------------------------------------------------------------
(* acquire: nobody else owns the device, and the protocol is the active    *)
(* one, letter by letter.                                                  *)
MayAcquireMutant(p) == allowMulti \/ owner \in {Nobody, p}
MayAcquire(p) ==
    /\ allowMulti \/ owner \in {Nobody, p}
    /\ active = p
Released(p) == IF owner = p THEN Nobody ELSE owner

StartedState(p) == IF MayAcquire(p) THEN "Running" ELSE "Error"
StartActiveProtocol ==
    LET p == KindOf(active) IN
    /\ managed
    /\ owner' = IF MayAcquire(p) THEN p ELSE owner
    /\ endpoint' = [endpoint EXCEPT ![p] = StartedState(p)]
    /\ UNCHANGED <<active, allowMulti, managed, caller, command>>

StopAll ==
    /\ managed
    /\ endpoint' = [p \in Protocols |-> "Stopped"]
    /\ owner' = Released(KindOf(active))
    /\ UNCHANGED <<active, allowMulti, managed, caller, command>>

----------------------------------------------------------------------------
(* A request: one without a command type is refused before anything is     *)
(* acquired, one whose protocol may not acquire the device right after.    *)
Request(t, p, action) ==
    /\ active # Nobody
    /\ caller[t] = "idle"
    /\ \E type \in TypeOf(action) :
         /\ MayAcquire(p)
         /\ owner' = p
         /\ caller' = [caller EXCEPT ![t] = "executing"]
         /\ command' = [command EXCEPT ![t] = [protocol |-> p, type |-> type]]
    /\ UNCHANGED <<active, allowMulti, managed, endpoint>>

(* The bus has executed the command, or it failed: the scope ends.         *)
ScopeEnds(t) ==
    /\ caller[t] = "executing"
    /\ owner' = Released(command[t].protocol)
    /\ caller' = [caller EXCEPT ![t] = "idle"]
    /\ command' = [command EXCEPT ![t] = NoCommand]
    /\ UNCHANGED <<active, allowMulti, managed, endpoint>>

AccessNext ==
    \/ \E text \in ActiveTexts, multi \in BOOLEAN : Configure(text, multi)
    \/ StartActiveProtocol \/ StopAll
    \/ \E t \in Callers : \/ \E p \in Protocols, a \in Actions : Request(t, p, a)
                          \/ ScopeEnds(t)

----------------------------------------------------------------------------
AccessTypeOK ==
    /\ active \in ActiveTexts \cup {Nobody} /\ allowMulti \in BOOLEAN /\ managed \in BOOLEAN
    /\ endpoint \in [Protocols -> {"Stopped", "Running", "Error"}]
    /\ owner \in Protocols \cup {Nobody}
    /\ caller \in [Callers -> {"idle", "executing"}]
    /\ command \in [Callers -> [protocol : Protocols \cup {Nobody},
                                type : CommandTypes \cup {"none"}]]

Executing == {t \in Callers : caller[t] = "executing"}

(* Commands of two protocols are never executed at the same time, although *)
(* the first command that ends takes the ownership from the others, and    *)
(* even where allow_multi_online is set.                                   *)
OneProtocolAtATime ==
    \A t, u \in Executing : command[t].protocol = command[u].protocol

(* A protocol that is shown as running is one whose commands are accepted, *)
(* whoever owns the device at the time.                                    *)
RunningIsAccepted ==
    \A p \in Protocols : endpoint[p] = "Running" => MayAcquire(p)

(* Ownership does not leak: an owner is a protocol that runs, or one with  *)
(* a command under way.                                                    *)
OwnerHasReason ==
    owner # Nobody =>
        endpoint[owner] = "Running" \/ \E t \in Executing : command[t].protocol = owner

(* Together: one protocol uses the device, and what the manager and the    *)
(* service say of it is true.                                              *)
AccessSafe == AccessTypeOK /\ OneProtocolAtATime /\ RunningIsAccepted /\ OwnerHasReason
=============================================================================
