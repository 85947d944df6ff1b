---------------------------- MODULE ConfigStore ----------------------------
(***************************************************************************)
(* protocol/ProtocolConfigStore and ProtocolConfigLoader: the endpoints'   *)
(* configurations in memory and one YAML file for each.  The store guards  *)
(* its memory with mutex_, but load() reads the files and an update writes *)
(* its file outside it; only save() holds it while it writes.              *)
(*                                                                         *)
(* A configuration stands for what the code tells apart in it: whether it  *)
(* is enabled, a text that must not be blank (for gb28181 in the local     *)
(* part), one that is not looked at (a name, a password), its port, and    *)
(* the checked texts of the server part.  Texts are kept as characters,    *)
(* because the files are written without escapes: a '#' ends the line that *)
(* is read, and a line break makes lines of the text's rest, which can be  *)
(* read as any key of the file.                                            *)
(***************************************************************************)
EXTENDS Naturals, Sequences, FiniteSetsExt

CONSTANTS Writers,     \* threads that use the store
          Endpoints,   \* the endpoints, in the order they are loaded and saved
          Texts,       \* texts a configuration may have
          Ports,       \* ports it may have
          Given,       \* configurations callers put in
          Servers,     \* server parts callers put in
          Spilled,     \* what a file with a broken text in it is read as
          MaxCalls     \* bound: calls of the store

Configuration == [enable : BOOLEAN, text : Texts, name : Texts, port : Ports, server : Texts]

Quote == "\""
Hash == "#"
Break == "\n"
Space == " "
Char == {"x", Space, Quote, Hash, Break}     \* "x": any other
HasNone(text, char) == \A i \in 1 .. Len(text) : text[i] # char
Unbroken(c) == \A text \in {c.text, c.name, c.server} : HasNone(text, Break)
Plain(c) == Unbroken(c) /\ \A text \in {c.text, c.name, c.server} : HasNone(text, Hash)

(* parseSimpleYaml() cuts a line at '#' and trims it; unquote() takes the  *)
(* quotes that quote() put around the text, if both are left.              *)
Quoted(text) == <<Quote>> \o text \o <<Quote>>
CutAtHash(line) ==
    SubSeq(line, 1, Min({n \in 0 .. Len(line) : n = Len(line) \/ line[n + 1] = Hash}))
TrimRight(line) ==
    SubSeq(line, 1, Max({n \in 0 .. Len(line) : n = 0 \/ line[n] # Space}))
Unquote(value) ==
    IF Len(value) >= 2 /\ value[1] = Quote /\ value[Len(value)] = Quote
      THEN SubSeq(value, 2, Len(value) - 1) ELSE value
TextRead(text) == Unquote(TrimRight(CutAtHash(Quoted(text))))

ASSUME StoreAssumption ==
    /\ Endpoints \in Seq({"gb28181", "onvif", "private_api", "rtsp"}) /\ Endpoints # <<>>
    /\ "nobody" \notin Writers
    /\ Given \subseteq Configuration /\ Servers \subseteq Texts
    /\ MaxCalls \in Nat
ASSUME TextAssumption ==
    /\ Texts \subseteq Seq(Char) /\ <<"x">> \in Texts
    /\ \A text \in Texts : HasNone(text, Break) => TextRead(text) \in Texts
ASSUME PortAssumption == Ports \subseteq Nat /\ 5060 \in Ports
ASSUME SpillAssumption ==
    \A c \in Configuration :
        Spilled[c] \in Configuration /\ Plain(Spilled[c]) /\ Spilled[c].port > 0

VARIABLES
    loaded,    (* loaded_                                                  *)
    memory,    (* config_                                                  *)
    files,     (* what is written in each file, if anything                *)
    lock,      (* who holds mutex_ over several steps                      *)
    writer,    (* where each thread is                                     *)
    calls,     (* calls of the store                                       *)
    apart      (* history: endpoints whose file and memory need not agree  *)

storeVars == <<loaded, memory, files, lock, writer, calls, apart>>

Endpoint == {Endpoints[i] : i \in 1 .. Len(Endpoints)}
NoWriter == "nobody"
----------------------------------------------------------------------------
(* Configurations, and what a file gives back *)
Default ==
    [enable |-> TRUE, text |-> <<"x">>, name |-> <<"x">>, port |-> 5060, server |-> <<"x">>]
Missing == {}

(* validateGb28181 and the others: a disabled endpoint is not looked at.   *)
Blank(text) == \A i \in 1 .. Len(text) : text[i] \in {Space, Break}
Valid(c) == c.enable => ~Blank(c.text) /\ ~Blank(c.server) /\ c.port > 0
RefusesMutant(c) == c.enable /\ (Blank(c.text) \/ c.port = 0)
Refuses(c) == ~Valid(c)

(* saveGb28181 ... saveRtsp write every field.  A port out of range gives  *)
(* the default; a text never does, because its line keeps the first quote. *)
PortRead(port) == IF port > 0 THEN port ELSE Default.port
LinesRead(c) ==
    [enable |-> c.enable, text |-> TextRead(c.text), name |-> TextRead(c.name),
     port |-> PortRead(c.port), server |-> TextRead(c.server)]
ReadBack(file) ==
    IF file = Missing THEN Default
    ELSE LET c == CHOOSE c \in file : TRUE
         IN  IF Unbroken(c) THEN LinesRead(c) ELSE Spilled[c]

Idle == [at |-> "idle"]
StoreInit ==
    /\ loaded = FALSE
    /\ memory = [e \in Endpoint |-> Default]
    /\ files = [e \in Endpoint |-> Missing]
    /\ lock = NoWriter
    /\ writer = [t \in Writers |-> Idle]
    /\ calls = 0 /\ apart = {}

Calls(t) == writer[t] = Idle /\ calls < MaxCalls /\ calls' = calls + 1
Goes(t, to) == writer' = [writer EXCEPT ![t] = to]
Free == lock = NoWriter
Writes(u, e) == writer[u].at \in {"open", "write"} /\ writer[u].endpoint = e

----------------------------------------------------------------------------
(* load(): each file is read and checked, and only if all of them are good *)
(* does the store take them, all at once.                                  *)
LoadBegins(t) ==
    /\ Calls(t)
    /\ Goes(t, [at |-> "load", read |-> <<>>])
    /\ UNCHANGED <<loaded, memory, files, lock, apart>>
LoadOne(t) ==
    /\ writer[t].at = "load" /\ Len(writer[t].read) < Len(Endpoints)
    /\ LET c == ReadBack(files[Endpoints[Len(writer[t].read) + 1]]) IN
       IF Valid(c) THEN Goes(t, [writer[t] EXCEPT !.read = Append(@, c)])
       ELSE Goes(t, Idle)
    /\ UNCHANGED <<loaded, memory, files, lock, calls, apart>>
StaleSinceRead(t) ==
    {Endpoints[i] : i \in {j \in 1 .. Len(Endpoints) :
                             ReadBack(files[Endpoints[j]]) # writer[t].read[j]}}
LoadStores(t) ==
    /\ writer[t].at = "load" /\ Len(writer[t].read) = Len(Endpoints)
    /\ Free
    /\ memory' = [e \in Endpoint |->
                    writer[t].read[CHOOSE i \in 1 .. Len(Endpoints) : Endpoints[i] = e]]
    /\ loaded' = TRUE
    /\ apart' = StaleSinceRead(t) \cup {e \in Endpoint : \E u \in Writers : Writes(u, e)}
    /\ Goes(t, Idle)
    /\ UNCHANGED <<files, lock, calls>>

----------------------------------------------------------------------------
(* update...(): the configuration is checked, stored under mutex_, and     *)
(* written to its file, if that is asked for, after mutex_ is released.    *)
Stored(e, c) == [memory EXCEPT ![e] = c]
Stores(t, e, c, persist) ==
    /\ Free
    /\ IF Refuses(c) THEN Goes(t, Idle) /\ UNCHANGED <<memory, apart>>
       ELSE /\ memory' = Stored(e, c)
            /\ apart' = IF persist /\ \A u \in Writers : ~Writes(u, e)
                          THEN apart \ {e} ELSE apart \cup {e}
            /\ Goes(t, IF persist THEN [at |-> "open", endpoint |-> e, config |-> c, next |-> <<>>]
                       ELSE Idle)
    /\ UNCHANGED <<loaded, files, lock>>

Update(t, e, c, persist) ==
    /\ Calls(t)
    /\ Stores(t, e, c, persist)

(* updateGb28181Server(): the rest of the configuration is copied in a     *)
(* critical section of its own.                                            *)
ServerCopied(t, server, persist) ==
    /\ Calls(t) /\ "gb28181" \in Endpoint
    /\ Free
    /\ Goes(t, [at |-> "copied", config |-> [memory["gb28181"] EXCEPT !.server = server],
                persist |-> persist])
    /\ UNCHANGED <<loaded, memory, files, lock, apart>>
ServerStored(t) ==
    /\ writer[t].at = "copied"
    /\ Stores(t, "gb28181", writer[t].config, writer[t].persist)
    /\ UNCHANGED calls

(* save(): all of the files in order, mutex_ held, up to the first that    *)
(* cannot be written.                                                      *)
SaveFrom(rest) ==
    [at |-> "open", endpoint |-> Head(rest), config |-> memory[Head(rest)], next |-> Tail(rest)]
Save(t) ==
    /\ Calls(t)
    /\ Free /\ loaded
    /\ lock' = t
    /\ Goes(t, SaveFrom(Endpoints))
    /\ apart' = apart \cup {e \in Endpoint : \E u \in Writers : Writes(u, e)}
    /\ UNCHANGED <<loaded, memory, files>>

----------------------------------------------------------------------------
(* writeText(): opening the file empties it, and closing it writes it.     *)
Unlocked(t) == IF lock = t THEN NoWriter ELSE lock
OpenFile(t) ==
    /\ writer[t].at = "open"
    /\ files' = [files EXCEPT ![writer[t].endpoint] = Missing]
    /\ Goes(t, [writer[t] EXCEPT !.at = "write"])
    /\ UNCHANGED <<loaded, memory, lock, calls, apart>>
OpenFails(t) ==
    /\ writer[t].at = "open"
    /\ apart' = apart \cup {writer[t].endpoint}
    /\ lock' = Unlocked(t)
    /\ Goes(t, Idle)
    /\ UNCHANGED <<loaded, memory, files, calls>>
WrittenFile(t) == writer[t].config
WriteFile(t) ==
    /\ writer[t].at = "write"
    /\ files' = [files EXCEPT ![writer[t].endpoint] = {WrittenFile(t)}]
    /\ IF writer[t].next # <<>>
         THEN Goes(t, SaveFrom(writer[t].next)) /\ UNCHANGED lock
         ELSE Goes(t, Idle) /\ lock' = Unlocked(t)
    /\ apart' = IF lock = t /\ \A u \in Writers \ {t} : ~Writes(u, writer[t].endpoint)
                  THEN apart \ {writer[t].endpoint} ELSE apart
    /\ UNCHANGED <<loaded, memory, calls>>

(* The program ends, anywhere, and starts again. *)
Restart ==
    /\ loaded' = FALSE
    /\ memory' = [e \in Endpoint |-> Default]
    /\ lock' = NoWriter
    /\ writer' = [t \in Writers |-> Idle]
    /\ apart' = Endpoint
    /\ UNCHANGED <<files, calls>>

StoreNext ==
    \/ Restart
    \/ \E t \in Writers :
         \/ LoadBegins(t) \/ LoadOne(t) \/ LoadStores(t)
         \/ \E e \in Endpoint, c \in Given, persist \in BOOLEAN : Update(t, e, c, persist)
         \/ \E server \in Servers, persist \in BOOLEAN : ServerCopied(t, server, persist)
         \/ ServerStored(t) \/ Save(t) \/ OpenFile(t) \/ OpenFails(t) \/ WriteFile(t)

----------------------------------------------------------------------------
StoreTypeOK ==
    /\ loaded \in BOOLEAN /\ calls \in 0 .. MaxCalls /\ lock \in Writers \cup {NoWriter}
    /\ memory \in [Endpoint -> Configuration]
    /\ \A e \in Endpoint : files[e] \subseteq Configuration
    /\ \A t \in Writers : writer[t].at \in {"idle", "load", "copied", "open", "write"}
    /\ apart \subseteq Endpoint

(* The store never hands out a configuration that is not valid, and it can *)
(* read its own files again: what was written loads, and so does what is   *)
(* left if the program ended between emptying a file and writing it.  Only *)
(* a text with a '#' or a line break, which every check lets pass, can     *)
(* come back as a file that load() refuses.                                *)
AlwaysUsable ==
    \A e \in Endpoint :
        /\ Valid(memory[e])
        /\ (\A c \in files[e] : Plain(c)) => Valid(ReadBack(files[e]))

(* At rest, a restart would give what is in memory, as it would be read    *)
(* from a file of its own, unless updates of the endpoint overlapped, were *)
(* not to be saved or failed, or nothing has been loaded: then memory and  *)
(* file can stay different for good.  What was plain, with a port, comes   *)
(* back as it was put in.                                                  *)
RestartKeepsMemory ==
    (\A t \in Writers : writer[t] = Idle) =>
        \A e \in Endpoint \ apart :
            /\ ReadBack(files[e]) = ReadBack({memory[e]})
            /\ Plain(memory[e]) /\ memory[e].port > 0 => ReadBack(files[e]) = memory[e]

(* Together: a restart, planned or not, finds a usable configuration, and  *)
(* at rest the one it left.                                                *)
StoreSafe == StoreTypeOK /\ AlwaysUsable /\ RestartKeepsMemory
=============================================================================
