------------------------ MODULE ConfigurationProofs --------------------------
(***************************************************************************)
(* Proofs about what is configured and who may use it, for any number of   *)
(* callers and of writers, any configuration, any crash between two steps  *)
(* of a save, and configuration files of any lines in any number.          *)
(***************************************************************************)
EXTENDS ProtocolAccess, ConfigStore, SystemConfig, Integers,
        FiniteSetTheorems, SequenceTheorems, WellFoundedInduction, TLAPS

----------------------------------------------------------------------------
(* Who owns the device (ProtocolAccess) *)

AccessSpec == AccessInit /\ [][AccessNext]_accessVars

(* Why it is safe that a command takes the ownership away from others: the *)
(* ownership never matters to anyone but the active protocol, which is     *)
(* configured once, and acquire() compares with it letter by letter.       *)
ActiveOnly ==
    /\ managed => KindOf(active) \in Protocols
    /\ owner # Nobody => owner = active
    /\ \A p \in Protocols : endpoint[p] = "Running" => p = active
    /\ \A t \in Executing : command[t].protocol = active /\ active \in Protocols

AInv == AccessTypeOK /\ ActiveOnly /\ OwnerHasReason

(* A protocol is spelled as itself; nothing is spelled as two of them, and *)
(* no protocol has the empty name.                                         *)
LEMMA KindFacts ==
  /\ \A p \in Protocols : KindOf(p) = p
  /\ Nobody \notin Protocols
  <1>1. \A p, q \in Protocols : p \in Spellings[q] => p = q
    BY DEF Protocols, Spellings
  <1>2. \A p \in Protocols : p \in Spellings[p]
    BY DEF Protocols, Spellings
  <1>3. ASSUME NEW p \in Protocols PROVE KindOf(p) = p
    <2>1. \E q \in Protocols : p \in Spellings[q]
      BY <1>2
    <2>2. /\ (CHOOSE q \in Protocols : p \in Spellings[q]) \in Protocols
          /\ p \in Spellings[CHOOSE q \in Protocols : p \in Spellings[q]]
      BY <2>1
    <2> QED BY <1>1, <2>1, <2>2 DEF KindOf
  <1> QED BY <1>3 DEF Nobody, Protocols

LEMMA AccessInitInv == AccessInit => AInv
  <1> SUFFICES ASSUME AccessInit PROVE AInv
    OBVIOUS
  <1>1. AccessTypeOK
    BY DEF AccessInit, AccessTypeOK, NoCommand
  <1>2. Executing = {} /\ ~managed /\ owner = Nobody
    BY DEF AccessInit, Executing
  <1>3. \A p \in Protocols : endpoint[p] # "Running"
    BY DEF AccessInit
  <1> QED BY <1>1, <1>2, <1>3 DEF AInv, ActiveOnly, OwnerHasReason

----------------------------------------------------------------------------
LEMMA ConfigureInv ==
  ASSUME AInv, NEW text \in ActiveTexts, NEW multi \in BOOLEAN, Configure(text, multi)
  PROVE  AInv'
  <1>1. active = Nobody /\ active' = text /\ allowMulti' = multi
        /\ managed' = (KindOf(text) \in Enabled)
        /\ UNCHANGED <<endpoint, owner, caller, command>>
    BY DEF Configure
  <1>2. AccessTypeOK'
    BY <1>1 DEF AInv, AccessTypeOK
  <1>3. managed' => KindOf(active') \in Protocols
    <2>1. Enabled \subseteq Protocols
      BY AccessAssumption
    <2>2. ASSUME managed' PROVE KindOf(text) \in Enabled
      BY <1>1, <2>2
    <2> QED BY <1>1, <2>1, <2>2
  <1>4. owner = Nobody /\ \A p \in Protocols : endpoint[p] # "Running"
    BY <1>1, KindFacts DEF AInv, ActiveOnly
  <1>5. Executing = {}
    BY <1>1, KindFacts DEF AInv, ActiveOnly
  <1>6. ActiveOnly' /\ OwnerHasReason'
    BY <1>1, <1>3, <1>4, <1>5 DEF ActiveOnly, OwnerHasReason, Executing
  <1> QED BY <1>2, <1>6 DEF AInv

LEMMA ManagerInv ==
  ASSUME AInv, StartActiveProtocol \/ StopAll
  PROVE  AInv'
  <1> DEFINE k == KindOf(active)
  <1>0. owner \in Protocols \cup {Nobody} /\ endpoint \in [Protocols -> {"Stopped", "Running", "Error"}]
    BY DEF AInv, AccessTypeOK
  <1>1. owner # Nobody => owner = active /\ owner \in Protocols /\ k = owner
    BY <1>0, KindFacts DEF AInv, ActiveOnly
  <1>2. UNCHANGED <<active, allowMulti, managed, caller, command>>
    BY DEF StartActiveProtocol, StopAll
  <1>3. CASE StartActiveProtocol
    <2>1. /\ owner' = IF MayAcquire(k) THEN k ELSE owner
          /\ endpoint' = [endpoint EXCEPT ![k] = IF MayAcquire(k) THEN "Running" ELSE "Error"]
      BY <1>3 DEF StartActiveProtocol, StartedState
    <2>2. k \in Protocols
      BY <1>3 DEF StartActiveProtocol, AInv, ActiveOnly
    <2> HIDE DEF k
    <2>3. CASE MayAcquire(k)
      <3>1. k = active /\ owner' = k /\ endpoint' = [endpoint EXCEPT ![k] = "Running"]
        BY <2>1, <2>3 DEF MayAcquire
      <3>2. endpoint'[k] = "Running" /\ \A p \in Protocols : p # k => endpoint'[p] = endpoint[p]
        BY <1>0, <2>2, <3>1
      <3>3. AccessTypeOK'
        BY <1>0, <1>2, <2>2, <3>1 DEF AInv, AccessTypeOK
      <3>4. ActiveOnly'
        BY <1>2, <3>1, <3>2 DEF AInv, ActiveOnly, Executing
      <3>5. OwnerHasReason'
        BY <3>1, <3>2 DEF OwnerHasReason
      <3> QED BY <3>3, <3>4, <3>5 DEF AInv
    <2>4. CASE ~MayAcquire(k)
      <3>1. owner' = owner /\ endpoint' = [endpoint EXCEPT ![k] = "Error"]
        BY <2>1, <2>4
      <3>2. owner = Nobody
        BY <1>1, <2>4 DEF MayAcquire, k
      <3>3. endpoint'[k] = "Error" /\ \A p \in Protocols : p # k => endpoint'[p] = endpoint[p]
        BY <1>0, <2>2, <3>1
      <3>4. AccessTypeOK'
        BY <1>0, <1>2, <2>2, <3>1 DEF AInv, AccessTypeOK
      <3>5. ActiveOnly' /\ OwnerHasReason'
        BY <1>2, <3>1, <3>2, <3>3 DEF AInv, ActiveOnly, OwnerHasReason, Executing
      <3> QED BY <3>4, <3>5 DEF AInv
    <2> QED BY <2>3, <2>4
  <1>4. CASE StopAll
    <2>1. endpoint' = [p \in Protocols |-> "Stopped"] /\ owner' = Released(k)
      BY <1>4 DEF StopAll
    <2>2. owner' = Nobody
      BY <1>1, <2>1 DEF Released
    <2>3. AccessTypeOK'
      BY <1>2, <2>1, <2>2 DEF AInv, AccessTypeOK
    <2>4. ActiveOnly' /\ OwnerHasReason'
      BY <1>2, <2>1, <2>2 DEF AInv, ActiveOnly, OwnerHasReason, Executing
    <2> QED BY <2>3, <2>4 DEF AInv
  <1> QED BY <1>3, <1>4

LEMMA RequestInv ==
  ASSUME AInv, NEW t \in Callers, NEW p \in Protocols, NEW a \in Actions, Request(t, p, a)
  PROVE  AInv'
  <1>1. PICK type \in TypeOf(a) :
           /\ MayAcquire(p) /\ owner' = p
           /\ caller' = [caller EXCEPT ![t] = "executing"]
           /\ command' = [command EXCEPT ![t] = [protocol |-> p, type |-> type]]
    BY DEF Request
  <1>2. UNCHANGED <<active, allowMulti, managed, endpoint>>
    BY DEF Request
  <1>3. type \in CommandTypes /\ p = active
    BY <1>1 DEF TypeOf, MayAcquire
  <1>4. AccessTypeOK'
    BY <1>1, <1>2, <1>3 DEF AInv, AccessTypeOK
  <1>5. /\ Executing' = Executing \cup {t}
        /\ command'[t].protocol = p
        /\ \A u \in Callers : u # t => command'[u] = command[u]
    BY <1>1 DEF AInv, AccessTypeOK, Executing
  <1>6. ActiveOnly'
    BY <1>1, <1>2, <1>3, <1>5 DEF AInv, ActiveOnly, Executing
  <1>7. OwnerHasReason'
    BY <1>1, <1>5 DEF OwnerHasReason
  <1> QED BY <1>4, <1>6, <1>7 DEF AInv

LEMMA ScopeEndsInv ==
  ASSUME AInv, NEW t \in Callers, ScopeEnds(t)
  PROVE  AInv'
  <1>1. /\ caller' = [caller EXCEPT ![t] = "idle"]
        /\ command' = [command EXCEPT ![t] = NoCommand]
        /\ UNCHANGED <<active, allowMulti, managed, endpoint>>
        /\ t \in Executing
    BY DEF ScopeEnds, Executing
  <1>2. owner' = Nobody
    BY <1>1 DEF ScopeEnds, Released, AInv, ActiveOnly
  <1>3. AccessTypeOK'
    BY <1>1, <1>2 DEF AInv, AccessTypeOK, NoCommand
  <1>4. /\ Executing' = Executing \ {t}
        /\ \A u \in Callers : u # t => command'[u] = command[u]
    BY <1>1 DEF AInv, AccessTypeOK, Executing
  <1>5. ActiveOnly' /\ OwnerHasReason'
    BY <1>1, <1>2, <1>4 DEF AInv, ActiveOnly, OwnerHasReason, Executing
  <1> QED BY <1>3, <1>5 DEF AInv

LEMMA AccessNextInv == AInv /\ [AccessNext]_accessVars => AInv'
  <1> SUFFICES ASSUME AInv, [AccessNext]_accessVars PROVE AInv'
    OBVIOUS
  <1>1. CASE UNCHANGED accessVars
    BY <1>1 DEF accessVars, AInv, AccessTypeOK, ActiveOnly, OwnerHasReason, Executing
  <1> QED BY <1>1, ConfigureInv, ManagerInv, RequestInv, ScopeEndsInv DEF AccessNext

LEMMA AccessInvSafe == AInv => AccessSafe
  BY DEF AInv, ActiveOnly, AccessSafe, OneProtocolAtATime, RunningIsAccepted, MayAcquire,
         Executing

(* However the ownership is acquired, taken over and released by commands  *)
(* of several protocols and by the manager: commands of two protocols are  *)
(* never executed at once, a running endpoint's commands are accepted, and *)
(* the ownership never stays with a protocol that neither runs nor acts.   *)
THEOREM OneProtocolServed == AccessSpec => []AccessSafe
  BY AccessInitInv, AccessNextInv, AccessInvSafe, PTL DEF AccessSpec

----------------------------------------------------------------------------
(* Numbers *)
LEMMA LeastNumber ==
  ASSUME NEW T, T \subseteq Nat, T # {}
  PROVE  \E m \in T : \A n \in T : m <= n
  <1> DEFINE U == {0 .. n - 1 : n \in T}
  <1>1. \A n \in T : 0 .. n - 1 \in SUBSET Nat /\ IsFiniteSet(0 .. n - 1)
    BY FS_Interval
  <1>2. U \subseteq FiniteSubsetsOf(Nat) /\ U # {}
    BY <1>1 DEF FiniteSubsetsOf
  <1> HIDE DEF U
  <1>3. PICK x \in U : \A y \in U : <<y, x>> \notin StrictSubsetOrdering(Nat)
    BY <1>2, FS_StrictSubsetOrderingWellFounded, WFMin
  <1>4. PICK m \in T : x = 0 .. m - 1
    BY DEF U
  <1>5. ASSUME NEW n \in T, n < m PROVE FALSE
    <2>1. 0 .. n - 1 \in U /\ 0 .. n - 1 \in SUBSET Nat /\ x \in SUBSET Nat
      BY <1>4 DEF U
    <2>2. 0 .. n - 1 \subseteq x /\ n \in x /\ n \notin 0 .. n - 1
      BY <1>4, <1>5
    <2> QED BY <1>3, <2>1, <2>2 DEF StrictSubsetOrdering
  <1> QED BY <1>5

LEMMA GreatestNumber ==
  ASSUME NEW N \in Nat, NEW T, T \subseteq 0 .. N, T # {}
  PROVE  \E m \in T : \A n \in T : n <= m
  <1> DEFINE U == {N - n : n \in T}
  <1>1. U \subseteq Nat /\ U # {}
    <2>1. \A n \in T : N - n \in Nat
      OBVIOUS
    <2> QED BY <2>1
  <1> HIDE DEF U
  <1>2. PICK u \in U : \A v \in U : u <= v
    BY <1>1, LeastNumber
  <1>3. PICK m \in T : u = N - m
    BY DEF U
  <1>4. \A n \in T : N - n \in U
    BY DEF U
  <1>5. \A n \in T : N - m <= N - n
    BY <1>2, <1>3, <1>4
  <1> QED BY <1>3, <1>5

----------------------------------------------------------------------------
(* The stored configuration (ConfigStore) *)

StoreSpec == StoreInit /\ [][StoreNext]_storeVars

(* What may be in memory, in a file or on its way to one. *)
GoodConfig == {c \in Configuration : Valid(c)}
Loading == [at : {"load"}, read : Seq(GoodConfig)]
Copied  == {w \in [at : {"copied"}, config : Configuration, persist : BOOLEAN] :
              "gb28181" \in Endpoint}
Writing == [at : {"open", "write"}, endpoint : Endpoint, config : GoodConfig, next : Seq(Endpoint)]
Resting == {Idle} \cup Loading \cup Copied

StoreTypes ==
    /\ loaded \in BOOLEAN /\ calls \in 0 .. MaxCalls /\ lock \in Writers \cup {NoWriter}
    /\ memory \in [Endpoint -> GoodConfig]
    /\ files \in [Endpoint -> SUBSET GoodConfig]
    /\ writer \in [Writers -> Resting \cup Writing]
    /\ apart \subseteq Endpoint

(* Who holds mutex_ over several steps saves what is in memory, and nobody *)
(* else's write can be of an endpoint that is to agree.                    *)
SaverAlone ==
    /\ lock \in Writers =>
         /\ writer[lock] \in Writing
         /\ writer[lock].config = memory[writer[lock].endpoint]
         /\ \A t \in Writers \ {lock} : \A e \in Endpoint : Writes(t, e) => e \in apart
    /\ \A t \in Writers \ {lock} : writer[t] \in Writing => writer[t].next = <<>>

(* An endpoint whose file is to agree with the memory does, or the one     *)
(* thread that writes the file has what is in memory.                      *)
Agrees(e) == ReadBack(files[e]) = ReadBack({memory[e]})
OneWrites(e) ==
    \E t \in Writers :
        /\ Writes(t, e) /\ writer[t].config = memory[e]
        /\ \A u \in Writers : Writes(u, e) => u = t
Settled ==
    \A e \in Endpoint \ apart : OneWrites(e) \/ (Agrees(e) /\ \A t \in Writers : ~Writes(t, e))

StoreInv == StoreTypes /\ SaverAlone /\ Settled

----------------------------------------------------------------------------
(* A part of a line has no character the line does not have. *)
LEMMA Piece ==
  ASSUME NEW line \in Seq(Char), NEW a \in Nat \ {0}, NEW b \in 0 .. Len(line)
  PROVE  /\ SubSeq(line, a, b) \in Seq(Char)
         /\ Len(SubSeq(line, a, b)) = IF a <= b THEN b - a + 1 ELSE 0
         /\ \A i \in 1 .. Len(SubSeq(line, a, b)) : SubSeq(line, a, b)[i] = line[a + i - 1]
         /\ \A char : HasNone(line, char) => HasNone(SubSeq(line, a, b), char)
  <1> DEFINE part == SubSeq(line, a, b)
  <1>0. Len(line) \in Nat /\ a \in Int /\ b \in Int /\ b <= Len(line) /\ 1 <= a
    OBVIOUS
  <1>1. \A i \in a .. b : line[i] \in Char
    <2>1. \A i \in a .. b : i \in 1 .. Len(line)
      BY <1>0
    <2> QED BY <2>1, ElementOfSeq
  <1>2. /\ part \in Seq(Char)
        /\ Len(part) = IF a <= b THEN b - a + 1 ELSE 0
        /\ \A i \in 1 .. b - a + 1 : part[i] = line[a + i - 1]
    BY <1>0, <1>1, SubSeqProperties
  <1> HIDE DEF part
  <1>3. \A i \in 1 .. Len(part) : i \in 1 .. b - a + 1 /\ a + i - 1 \in 1 .. Len(line)
    BY <1>0, <1>2
  <1>4. \A i \in 1 .. Len(part) : part[i] = line[a + i - 1]
    BY <1>2, <1>3
  <1>5. \A char : HasNone(line, char) => HasNone(part, char)
    BY <1>3, <1>4 DEF HasNone
  <1>6. part \in Seq(Char) /\ (Len(part) = IF a <= b THEN b - a + 1 ELSE 0)
    BY <1>2
  <1> QED BY <1>4, <1>5, <1>6 DEF part

LEMMA Whole ==
  ASSUME NEW line \in Seq(Char)
  PROVE  SubSeq(line, 1, Len(line)) = line
  OBVIOUS

(* A line is cut before its first '#', if it has one. *)
LEMMA CutHolds ==
  ASSUME NEW line \in Seq(Char)
  PROVE  /\ CutAtHash(line) \in Seq(Char)
         /\ HasNone(CutAtHash(line), Hash)
         /\ \A char : HasNone(line, char) => HasNone(CutAtHash(line), char)
         /\ HasNone(line, Hash) => CutAtHash(line) = line
  <1> DEFINE Ends == {n \in 0 .. Len(line) : n = Len(line) \/ line[n + 1] = Hash}
             m == Min(Ends)
  <1>0. Len(line) \in Nat
    OBVIOUS
  <1>1. Ends \subseteq Nat /\ Ends # {}
    <2>1. Len(line) \in Ends
      BY <1>0
    <2> QED BY <1>0, <2>1
  <1>2. m \in Ends /\ \A n \in Ends : m <= n
    <2> HIDE DEF Ends
    <2>1. \E x \in Ends : \A n \in Ends : x <= n
      BY <1>1, LeastNumber
    <2> QED BY <2>1 DEF Min
  <1>3. m \in 0 .. Len(line) /\ (m = Len(line) \/ line[m + 1] = Hash)
    BY <1>2
  <1>4. \A i \in 1 .. Len(line) : line[i] = Hash => m <= i - 1
    <2> SUFFICES ASSUME NEW i \in 1 .. Len(line), line[i] = Hash PROVE m <= i - 1
      OBVIOUS
    <2>1. i - 1 \in 0 .. Len(line) /\ (i - 1) + 1 = i
      BY <1>0
    <2>2. i - 1 \in Ends
      BY <2>1
    <2> HIDE DEF m, Ends
    <2> QED BY <1>2, <2>2
  <1>5. CutAtHash(line) = SubSeq(line, 1, m)
    BY DEF CutAtHash
  <1> HIDE DEF m, Ends
  <1>6. /\ SubSeq(line, 1, m) \in Seq(Char)
        /\ Len(SubSeq(line, 1, m)) = IF 1 <= m THEN m - 1 + 1 ELSE 0
        /\ \A i \in 1 .. Len(SubSeq(line, 1, m)) : SubSeq(line, 1, m)[i] = line[1 + i - 1]
        /\ \A char : HasNone(line, char) => HasNone(SubSeq(line, 1, m), char)
    BY <1>3, Piece
  <1>7. HasNone(SubSeq(line, 1, m), Hash)
    <2> SUFFICES ASSUME NEW i \in 1 .. Len(SubSeq(line, 1, m)), SubSeq(line, 1, m)[i] = Hash
                 PROVE  FALSE
      BY DEF HasNone
    <2>1. i \in 1 .. Len(line) /\ i <= m /\ 1 + i - 1 = i
      BY <1>0, <1>3, <1>6
    <2>2. line[i] = Hash
      BY <1>6, <2>1
    <2>3. m <= i - 1
      BY <1>4, <2>1, <2>2
    <2> QED BY <1>3, <2>1, <2>3
  <1>8. HasNone(line, Hash) => m = Len(line)
    <2>1. m # Len(line) => m + 1 \in 1 .. Len(line)
      BY <1>0, <1>3
    <2> QED BY <1>3, <2>1 DEF HasNone
  <1>9. HasNone(line, Hash) => SubSeq(line, 1, m) = line
    BY <1>8, Whole
  <1> QED BY <1>5, <1>6, <1>7, <1>9

LEMMA TrimHolds ==
  ASSUME NEW line \in Seq(Char)
  PROVE  /\ TrimRight(line) \in Seq(Char)
         /\ \A char : HasNone(line, char) => HasNone(TrimRight(line), char)
         /\ line # <<>> /\ line[Len(line)] # Space => TrimRight(line) = line
  <1> DEFINE Ends == {n \in 0 .. Len(line) : n = 0 \/ line[n] # Space}
             m == Max(Ends)
  <1>0. Len(line) \in Nat
    OBVIOUS
  <1>1. Ends \subseteq 0 .. Len(line) /\ Ends # {}
    <2>1. 0 \in Ends
      BY <1>0
    <2> QED BY <2>1
  <1>2. m \in Ends /\ \A n \in Ends : n <= m
    <2> HIDE DEF Ends
    <2>1. \E x \in Ends : \A n \in Ends : n <= x
      BY <1>0, <1>1, GreatestNumber
    <2>2. \E x \in Ends : \A n \in Ends : x >= n
      BY <1>0, <1>1, <2>1
    <2>3. m \in Ends /\ \A n \in Ends : m >= n
      BY <2>2 DEF Max
    <2> QED BY <1>0, <1>1, <2>3
  <1>3. m \in 0 .. Len(line)
    BY <1>2
  <1>4. line # <<>> /\ line[Len(line)] # Space => m = Len(line)
    <2> SUFFICES ASSUME line[Len(line)] # Space PROVE m = Len(line)
      OBVIOUS
    <2>1. Len(line) \in 0 .. Len(line)
      BY <1>0
    <2>2. Len(line) \in Ends
      BY <2>1
    <2> HIDE DEF m, Ends
    <2>3. Len(line) <= m
      BY <1>2, <2>2
    <2> QED BY <1>0, <1>3, <2>3
  <1>5. TrimRight(line) = SubSeq(line, 1, m)
    BY DEF TrimRight
  <1> HIDE DEF m, Ends
  <1>6. /\ SubSeq(line, 1, m) \in Seq(Char)
        /\ \A char : HasNone(line, char) => HasNone(SubSeq(line, 1, m), char)
    BY <1>3, Piece
  <1>7. m = Len(line) => SubSeq(line, 1, m) = line
    BY Whole
  <1> QED BY <1>4, <1>5, <1>6, <1>7

LEMMA QuotedIs ==
  ASSUME NEW text \in Seq(Char)
  PROVE  /\ Quoted(text) \in Seq(Char)
         /\ Len(Quoted(text)) = Len(text) + 2
         /\ Quoted(text)[1] = Quote /\ Quoted(text)[Len(text) + 2] = Quote
         /\ \A i \in 1 .. Len(text) : Quoted(text)[i + 1] = text[i]
         /\ \A char : char # Quote /\ HasNone(text, char) => HasNone(Quoted(text), char)
  <1> DEFINE q == <<Quote>>
  <1>0. q \in Seq(Char) /\ Len(q) = 1 /\ q[1] = Quote
    <2>1. Quote \in Char
      BY DEF Char
    <2> QED BY <2>1
  <1>1. Len(text) \in Nat
    OBVIOUS
  <1> HIDE DEF q
  <1>2. /\ q \o text \in Seq(Char) /\ Len(q \o text) = 1 + Len(text)
        /\ \A i \in 1 .. 1 + Len(text) :
             (q \o text)[i] = IF i <= 1 THEN q[i] ELSE text[i - 1]
    <2>1. /\ q \o text \in Seq(Char) /\ Len(q \o text) = Len(q) + Len(text)
          /\ \A i \in 1 .. Len(q) + Len(text) :
               (q \o text)[i] = IF i <= Len(q) THEN q[i] ELSE text[i - Len(q)]
      BY <1>0, ConcatProperties
    <2> QED BY <1>0, <2>1
  <1> DEFINE all == (q \o text) \o q
  <1>3. /\ all \in Seq(Char) /\ Len(all) = (1 + Len(text)) + 1
        /\ \A i \in 1 .. (1 + Len(text)) + 1 :
             all[i] = IF i <= 1 + Len(text) THEN (q \o text)[i] ELSE q[i - (1 + Len(text))]
    BY <1>0, <1>2, ConcatProperties
  <1>4. Quoted(text) = all
    BY DEF Quoted, q
  <1> HIDE DEF all
  <1>5. all[1] = Quote
    <2>1. all[1] = (q \o text)[1] /\ (q \o text)[1] = q[1]
      BY <1>1, <1>2, <1>3
    <2> QED BY <1>0, <2>1
  <1>6. all[Len(text) + 2] = Quote
    <2>1. /\ Len(text) + 2 \in 1 .. (1 + Len(text)) + 1 /\ ~(Len(text) + 2 <= 1 + Len(text))
          /\ (Len(text) + 2) - (1 + Len(text)) = 1
      BY <1>1
    <2>2. all[Len(text) + 2] = q[1]
      BY <1>3, <2>1
    <2> QED BY <1>0, <2>2
  <1>7. ASSUME NEW i \in 1 .. Len(text) PROVE all[i + 1] = text[i]
    <2>1. /\ i + 1 \in 1 .. (1 + Len(text)) + 1 /\ i + 1 <= 1 + Len(text)
          /\ i + 1 \in 1 .. 1 + Len(text) /\ ~(i + 1 <= 1) /\ (i + 1) - 1 = i
      BY <1>1
    <2> QED BY <1>2, <1>3, <2>1
  <1>8. ASSUME NEW char, char # Quote, HasNone(text, char) PROVE HasNone(all, char)
    <2> SUFFICES ASSUME NEW i \in 1 .. Len(all) PROVE all[i] # char
      BY DEF HasNone
    <2>1. i = 1 \/ i = Len(text) + 2 \/ (i - 1 \in 1 .. Len(text) /\ (i - 1) + 1 = i)
      BY <1>1, <1>3
    <2>2. ASSUME i - 1 \in 1 .. Len(text), (i - 1) + 1 = i PROVE all[i] # char
      <3>1. all[i] = text[i - 1]
        BY <1>7, <2>2
      <3>2. text[i - 1] # char
        BY <1>8, <2>2 DEF HasNone
      <3> QED BY <3>1, <3>2
    <2> QED BY <1>5, <1>6, <1>8, <2>1, <2>2
  <1> QED BY <1>1, <1>3, <1>4, <1>5, <1>6, <1>7, <1>8

LEMMA UnquoteHolds ==
  /\ \A value \in Seq(Char) :
       /\ Unquote(value) \in Seq(Char)
       /\ \A char : HasNone(value, char) => HasNone(Unquote(value), char)
  /\ \A text \in Seq(Char) : Unquote(Quoted(text)) = text
  <1>1. ASSUME NEW value \in Seq(Char)
        PROVE  /\ Unquote(value) \in Seq(Char)
               /\ \A char : HasNone(value, char) => HasNone(Unquote(value), char)
    <2>1. Len(value) \in Nat
      OBVIOUS
    <2>2. CASE Len(value) >= 2 /\ value[1] = Quote /\ value[Len(value)] = Quote
      <3>1. Len(value) - 1 \in 0 .. Len(value) /\ 2 \in Nat \ {0}
        BY <2>1, <2>2
      <3>2. Unquote(value) = SubSeq(value, 2, Len(value) - 1)
        BY <2>2 DEF Unquote
      <3> QED BY <3>1, <3>2, Piece
    <2>3. CASE ~(Len(value) >= 2 /\ value[1] = Quote /\ value[Len(value)] = Quote)
      BY <2>3 DEF Unquote
    <2> QED BY <2>2, <2>3
  <1>2. ASSUME NEW text \in Seq(Char) PROVE Unquote(Quoted(text)) = text
    <2> DEFINE line == Quoted(text)
               part == SubSeq(line, 2, Len(line) - 1)
    <2>0. Len(text) \in Nat
      OBVIOUS
    <2>1. /\ line \in Seq(Char) /\ Len(line) = Len(text) + 2
          /\ line[1] = Quote /\ line[Len(line)] = Quote
          /\ \A i \in 1 .. Len(text) : line[i + 1] = text[i]
      BY QuotedIs
    <2>2. Unquote(line) = part
      BY <2>0, <2>1 DEF Unquote
    <2> HIDE DEF line
    <2>3. /\ Len(line) - 1 \in 0 .. Len(line) /\ 2 \in Nat \ {0}
          /\ Len(line) - 1 = Len(text) + 1
      BY <2>0, <2>1
    <2>4. /\ part \in Seq(Char)
          /\ Len(part) = IF 2 <= Len(line) - 1 THEN (Len(line) - 1) - 2 + 1 ELSE 0
          /\ \A i \in 1 .. Len(part) : part[i] = line[2 + i - 1]
      BY <2>1, <2>3, Piece
    <2> HIDE DEF part
    <2>5. Len(part) = Len(text)
      BY <2>0, <2>3, <2>4
    <2>6. \A i \in 1 .. Len(text) : part[i] = text[i]
      <3>1. \A i \in 1 .. Len(text) : 2 + i - 1 = i + 1
        OBVIOUS
      <3> QED BY <2>1, <2>4, <2>5, <3>1
    <2>7. part = text
      <3>1. part \in [1 .. Len(text) -> Char] /\ text \in [1 .. Len(text) -> Char]
        BY <2>4, <2>5, LenProperties
      <3> QED BY <2>6, <3>1
    <2> QED BY <2>2, <2>7 DEF line
  <1> QED BY <1>1, <1>2

(* What is read of a text never has a '#'; a text without one, and without *)
(* a line break, is read as it was written.                                *)
LEMMA TextIsRead ==
  ASSUME NEW text \in Texts
  PROVE  /\ HasNone(text, Break) => TextRead(text) \in Texts /\ HasNone(TextRead(text), Break)
         /\ HasNone(TextRead(text), Hash)
         /\ HasNone(text, Hash) => TextRead(text) = text
  <1> DEFINE line == Quoted(text)
             cut == CutAtHash(line)
             value == TrimRight(cut)
  <1>0. /\ text \in Seq(Char) /\ Hash # Quote /\ Break # Quote /\ Quote # Space
        /\ TextRead(text) = Unquote(value)
    <2>1. text \in Seq(Char)
      BY TextAssumption
    <2>2. Hash # Quote /\ Break # Quote /\ Quote # Space
      BY DEF Hash, Quote, Break, Space
    <2>3. TextRead(text) = Unquote(value)
      BY DEF TextRead
    <2> QED BY <2>1, <2>2, <2>3
  <1>1. /\ line \in Seq(Char) /\ line # <<>> /\ line[Len(line)] = Quote
        /\ \A char : char # Quote /\ HasNone(text, char) => HasNone(line, char)
    <2>1. Len(text) \in Nat
      BY <1>0, LenProperties
    <2>2. /\ line \in Seq(Char) /\ Len(line) = Len(text) + 2
          /\ line[Len(text) + 2] = Quote
          /\ \A char : char # Quote /\ HasNone(text, char) => HasNone(line, char)
      BY <1>0, QuotedIs
    <2> HIDE DEF line
    <2>3. line # <<>>
      BY <2>1, <2>2
    <2> QED BY <2>2, <2>3
  <1>2. HasNone(text, Break) => HasNone(line, Break)
    BY <1>0, <1>1
  <1>3. HasNone(text, Hash) => HasNone(line, Hash)
    BY <1>0, <1>1
  <1>4. Unquote(line) = text
    BY <1>0, UnquoteHolds
  <1> HIDE DEF line
  <1>5. /\ cut \in Seq(Char) /\ HasNone(cut, Hash)
        /\ \A char : HasNone(line, char) => HasNone(cut, char)
        /\ HasNone(line, Hash) => cut = line
    BY <1>1, CutHolds
  <1> HIDE DEF cut
  <1>6. /\ value \in Seq(Char)
        /\ \A char : HasNone(cut, char) => HasNone(value, char)
        /\ cut # <<>> /\ cut[Len(cut)] # Space => value = cut
    BY <1>5, TrimHolds
  <1> HIDE DEF value
  <1>7. \A char : HasNone(value, char) => HasNone(Unquote(value), char)
    BY <1>6, UnquoteHolds
  <1>8. HasNone(text, Break) => TextRead(text) \in Texts /\ HasNone(TextRead(text), Break)
    <2>1. HasNone(text, Break) => TextRead(text) \in Texts
      BY TextAssumption
    <2>2. HasNone(text, Break) => HasNone(Unquote(value), Break)
      BY <1>2, <1>5, <1>6, <1>7
    <2> QED BY <1>0, <2>1, <2>2
  <1>9. HasNone(TextRead(text), Hash)
    BY <1>0, <1>5, <1>6, <1>7
  <1>10. HasNone(text, Hash) => value = line
    BY <1>0, <1>1, <1>3, <1>5, <1>6
  <1> QED BY <1>0, <1>4, <1>8, <1>9, <1>10

(* What the lines of one file are read as. *)
LEMMA ReadOne ==
  ASSUME NEW c \in Configuration
  PROVE  ReadBack({c}) =
           IF Unbroken(c)
             THEN [enable |-> c.enable, text |-> TextRead(c.text), name |-> TextRead(c.name),
                   port |-> PortRead(c.port), server |-> TextRead(c.server)]
             ELSE Spilled[c]
  <1>1. (CHOOSE d \in {c} : TRUE) = c /\ {c} # Missing
    BY DEF Missing
  <1>2. ReadBack({c}) = IF Unbroken(c) THEN LinesRead(c) ELSE Spilled[c]
    BY <1>1 DEF ReadBack
  <1> QED BY <1>2 DEF LinesRead

LEMMA PortIsRead ==
  \A p \in Ports : /\ PortRead(p) \in Ports /\ PortRead(p) > 0
                   /\ p > 0 => PortRead(p) = p
  <1>1. Default.port = 5060
    BY DEF Default
  <1>2. 5060 \in Ports /\ \A p \in Ports : p \in Nat
    BY PortAssumption
  <1> QED BY <1>1, <1>2 DEF PortRead

(* A plain configuration with a port is read as itself. *)
Settles == {c \in Configuration : Plain(c) /\ c.port > 0}
LEMMA ReadPlain ==
  ASSUME NEW c \in Configuration, Plain(c), c.port > 0
  PROVE  ReadBack({c}) = c
  <1>1. /\ c.text \in Texts /\ c.name \in Texts /\ c.server \in Texts /\ c.port \in Ports
        /\ c = [enable |-> c.enable, text |-> c.text, name |-> c.name, port |-> c.port,
                server |-> c.server]
    BY DEF Configuration
  <1>2. TextRead(c.text) = c.text /\ TextRead(c.name) = c.name /\ TextRead(c.server) = c.server
    BY <1>1, TextIsRead DEF Plain
  <1>3. PortRead(c.port) = c.port
    BY <1>1, PortIsRead
  <1>4. ReadBack({c}) = [enable |-> c.enable, text |-> TextRead(c.text), name |-> TextRead(c.name),
                         port |-> PortRead(c.port), server |-> TextRead(c.server)]
    BY ReadOne DEF Plain
  <1> QED BY <1>1, <1>2, <1>3, <1>4

(* Whatever is written, what is read is such a configuration. *)
LEMMA ReadSettles ==
  ASSUME NEW c \in Configuration
  PROVE  ReadBack({c}) \in Settles
  <1> DEFINE r == ReadBack({c})
  <1>1. CASE ~Unbroken(c)
    BY <1>1, ReadOne, SpillAssumption DEF Settles
  <1>2. CASE Unbroken(c)
    <2>1. /\ c.enable \in BOOLEAN /\ c.port \in Ports
          /\ c.text \in Texts /\ c.name \in Texts /\ c.server \in Texts
      BY DEF Configuration
    <2>2. \A text \in {c.text, c.name, c.server} :
            /\ TextRead(text) \in Texts
            /\ HasNone(TextRead(text), Break) /\ HasNone(TextRead(text), Hash)
      BY <1>2, <2>1, TextIsRead DEF Unbroken
    <2>3. PortRead(c.port) \in Ports /\ PortRead(c.port) > 0
      BY <2>1, PortIsRead
    <2>4. r = [enable |-> c.enable, text |-> TextRead(c.text), name |-> TextRead(c.name),
               port |-> PortRead(c.port), server |-> TextRead(c.server)]
      BY <1>2, ReadOne
    <2> HIDE DEF r
    <2>5. r \in Configuration
      BY <2>1, <2>2, <2>3, <2>4 DEF Configuration
    <2>6. /\ r.text = TextRead(c.text) /\ r.name = TextRead(c.name)
          /\ r.server = TextRead(c.server) /\ r.port = PortRead(c.port)
      BY <2>4
    <2>7. Plain(r)
      BY <2>2, <2>6 DEF Plain, Unbroken
    <2>8. r \in Settles
      BY <2>3, <2>5, <2>6, <2>7 DEF Settles
    <2> QED BY <2>8 DEF r
  <1> QED BY <1>1, <1>2

LEMMA DefaultGood == Default \in GoodConfig /\ Default \in Settles /\ ReadBack({Default}) = Default
  <1> DEFINE x == <<"x">>
  <1>0. x \in Texts /\ 5060 \in Ports /\ 5060 > 0 /\ TRUE \in BOOLEAN
    BY TextAssumption, PortAssumption
  <1>1. /\ Default = [enable |-> TRUE, text |-> x, name |-> x, port |-> 5060, server |-> x]
        /\ Default.text = x /\ Default.name = x /\ Default.server = x /\ Default.port = 5060
    BY DEF Default
  <1>2. Len(x) = 1 /\ x[1] = "x"
    OBVIOUS
  <1> HIDE DEF x
  <1>3. Default \in Configuration
    BY <1>0, <1>1 DEF Configuration
  <1>4. HasNone(x, Hash) /\ HasNone(x, Break) /\ ~Blank(x)
    <2>1. \A i \in 1 .. Len(x) : x[i] = "x"
      BY <1>2
    <2>2. "x" # Hash /\ "x" # Break /\ "x" \notin {Space, Break} /\ 1 \in 1 .. Len(x)
      BY <1>2 DEF Hash, Break, Space
    <2> QED BY <2>1, <2>2 DEF HasNone, Blank
  <1>5. Valid(Default)
    BY <1>0, <1>1, <1>4 DEF Valid
  <1>6. Plain(Default)
    BY <1>1, <1>4 DEF Plain, Unbroken
  <1>7. Default \in Settles
    BY <1>0, <1>1, <1>3, <1>6 DEF Settles
  <1> QED BY <1>3, <1>5, <1>7, ReadPlain DEF GoodConfig, Settles

(* A file is read as a configuration that a file of it would give again;   *)
(* if what is in it is plain and valid, as a valid one.                    *)
LEMMA ReadSet ==
  ASSUME NEW S \in SUBSET GoodConfig
  PROVE  /\ ReadBack(S) \in Settles
         /\ (\A c \in S : Plain(c)) => Valid(ReadBack(S))
  <1>1. CASE S = {}
    <2>1. ReadBack(S) = Default
      BY <1>1 DEF ReadBack, Missing
    <2> QED BY <2>1, DefaultGood DEF GoodConfig
  <1>2. CASE S # {}
    <2> DEFINE c == CHOOSE c \in S : TRUE
    <2>1. c \in S /\ c \in GoodConfig
      BY <1>2
    <2>2. (CHOOSE d \in {c} : TRUE) = c
      OBVIOUS
    <2>3. ReadBack(S) = ReadBack({c})
      BY <1>2, <2>2 DEF ReadBack, Missing
    <2> HIDE DEF c
    <2>4. c \in Configuration /\ Valid(c)
      BY <2>1 DEF GoodConfig
    <2>5. ASSUME Plain(c) PROVE Valid(ReadBack({c}))
      <3>1. CASE c.port > 0
        BY <2>4, <2>5, <3>1, ReadPlain
      <3>2. CASE ~(c.port > 0)
        <4>1. ~c.enable
          BY <2>4, <3>2 DEF Valid
        <4>2. ReadBack({c}) = [enable |-> c.enable, text |-> TextRead(c.text),
                               name |-> TextRead(c.name), port |-> PortRead(c.port),
                               server |-> TextRead(c.server)]
          BY <2>4, <2>5, ReadOne DEF Plain
        <4>3. ReadBack({c}).enable = c.enable
          BY <4>2
        <4> QED BY <4>1, <4>3 DEF Valid
      <3> QED BY <3>1, <3>2
    <2> QED BY <2>1, <2>3, <2>4, <2>5, ReadSettles
  <1> QED BY <1>1, <1>2

LEMMA FileRead ==
  ASSUME StoreTypes, NEW e \in Endpoint
  PROVE  /\ ReadBack(files[e]) \in Settles
         /\ ReadBack({ReadBack(files[e])}) = ReadBack(files[e])
         /\ (\A c \in files[e] : Plain(c)) => Valid(ReadBack(files[e]))
  <1>1. files[e] \in SUBSET GoodConfig
    BY DEF StoreTypes
  <1>2. /\ ReadBack(files[e]) \in Settles
        /\ (\A c \in files[e] : Plain(c)) => Valid(ReadBack(files[e]))
    BY <1>1, ReadSet
  <1> QED BY <1>2, ReadPlain DEF Settles

----------------------------------------------------------------------------
LEMMA WriterKinds ==
  /\ \A w \in Writing : w \notin Resting /\ w.at \in {"open", "write"}
  /\ \A w \in Resting : w.at \notin {"open", "write"}
  /\ \A w \in Loading : w.at = "load"
  /\ \A w \in Resting \cup Writing : w.at = "load" => w \in Loading
  /\ \A w \in Resting \cup Writing : w.at = "copied" => w \in Copied
  /\ Idle.at = "idle"
  BY DEF Writing, Resting, Loading, Copied, Idle

(* What a thread does changes nobody else's place. *)
LEMMA Moves ==
  ASSUME StoreTypes, NEW t \in Writers, NEW w \in Resting \cup Writing, Goes(t, w)
  PROVE  /\ writer' \in [Writers -> Resting \cup Writing]
         /\ writer'[t] = w
         /\ \A u \in Writers \ {t} : writer'[u] = writer[u]
         /\ \A u \in Writers \ {t} : \A e \in Endpoint : Writes(u, e)' <=> Writes(u, e)
  <1>1. writer \in [Writers -> Resting \cup Writing] /\ writer' = [writer EXCEPT ![t] = w]
    BY DEF StoreTypes, Goes
  <1>2. writer' \in [Writers -> Resting \cup Writing] /\ writer'[t] = w
    BY <1>1
  <1>3. \A u \in Writers \ {t} : writer'[u] = writer[u]
    BY <1>1
  <1> QED BY <1>2, <1>3 DEF Writes

(* A thread that writes no file before or after its step, and leaves the   *)
(* memory, the files and mutex_ alone, disturbs nothing.                   *)
LEMMA QuietInv ==
  ASSUME StoreInv, NEW t \in Writers, NEW w \in Resting, Goes(t, w), writer[t] \in Resting,
         UNCHANGED <<memory, files, lock, apart>>, loaded' = loaded,
         calls' \in 0 .. MaxCalls
  PROVE  StoreInv'
  <1>0. StoreTypes /\ SaverAlone /\ Settled
    BY DEF StoreInv
  <1>1. /\ writer' \in [Writers -> Resting \cup Writing] /\ writer'[t] = w
        /\ \A u \in Writers \ {t} : writer'[u] = writer[u]
        /\ \A u \in Writers \ {t} : \A e \in Endpoint : Writes(u, e)' <=> Writes(u, e)
    BY <1>0, Moves
  <1>2. \A e \in Endpoint : ~Writes(t, e) /\ ~Writes(t, e)'
    BY <1>1, WriterKinds DEF Writes
  <1>3. \A u \in Writers : \A e \in Endpoint : Writes(u, e)' <=> Writes(u, e)
    BY <1>1, <1>2
  <1>4. \A u \in Writers : writer'[u] \in Writing => writer'[u] = writer[u]
    BY <1>1, WriterKinds
  <1>5. lock # t
    BY <1>0, WriterKinds DEF SaverAlone
  <1>6. StoreTypes'
    BY <1>0, <1>1 DEF StoreTypes
  <1>7. SaverAlone'
    BY <1>0, <1>1, <1>3, <1>4, <1>5 DEF SaverAlone
  <1>8. \A e \in Endpoint : OneWrites(e) => OneWrites(e)'
    <2>1. \A u \in Writers : \A e \in Endpoint : Writes(u, e) => writer'[u] = writer[u]
      BY <1>1, <1>2
    <2> QED BY <1>3, <2>1 DEF OneWrites
  <1>9. Settled'
    BY <1>0, <1>3, <1>8 DEF Settled, Agrees
  <1> QED BY <1>6, <1>7, <1>9 DEF StoreInv

----------------------------------------------------------------------------
LEMMA EndpointsAre == Endpoints \in Seq(Endpoint) /\ Endpoints # <<>>
  <1>1. \A i \in 1 .. Len(Endpoints) : Endpoints[i] \in Endpoint
    BY DEF Endpoint
  <1> DEFINE Files == {"gb28181", "onvif", "private_api", "rtsp"}
  <1>2. Endpoints \in Seq(Files) /\ Endpoints # <<>>
    BY StoreAssumption
  <1> HIDE DEF Files
  <1>3. /\ Len(Endpoints) \in Nat
        /\ Endpoints = [i \in 1 .. Len(Endpoints) |-> Endpoints[i]]
    BY <1>2
  <1> QED BY <1>1, <1>2, <1>3

LEMMA CallsOK ==
  ASSUME StoreInv, NEW t \in Writers, Calls(t)
  PROVE  calls' \in 0 .. MaxCalls
  <1>1. calls \in 0 .. MaxCalls /\ calls < MaxCalls /\ calls' = calls + 1 /\ MaxCalls \in Nat
    BY StoreAssumption DEF Calls, StoreInv, StoreTypes
  <1> QED BY <1>1

(* load() *)
LEMMA LoadBeginsInv ==
  ASSUME StoreInv, NEW t \in Writers, LoadBegins(t)
  PROVE  StoreInv'
  <1>1. <<>> \in Seq(GoodConfig)
    OBVIOUS
  <1>2. [at |-> "load", read |-> <<>>] \in Resting
    BY <1>1 DEF Loading, Resting
  <1>3. calls' \in 0 .. MaxCalls
    BY CallsOK DEF LoadBegins
  <1>4. writer[t] \in Resting
    BY DEF LoadBegins, Calls, Resting
  <1> QED BY <1>2, <1>3, <1>4, QuietInv DEF LoadBegins

LEMMA LoadOneInv ==
  ASSUME StoreInv, NEW t \in Writers, LoadOne(t)
  PROVE  StoreInv'
  <1>0. StoreTypes /\ writer[t] \in Resting \cup Writing
    BY DEF StoreInv, StoreTypes
  <1>1. writer[t] \in Loading /\ writer[t] \in Resting
    BY <1>0, WriterKinds DEF LoadOne, Resting
  <1> DEFINE n == Len(writer[t].read) + 1
             c == ReadBack(files[Endpoints[n]])
  <1>2. writer[t].read \in Seq(GoodConfig) /\ n \in 1 .. Len(Endpoints)
    <2>1. writer[t].read \in Seq(GoodConfig)
      BY <1>1 DEF Loading
    <2>2. Len(writer[t].read) \in Nat /\ Len(Endpoints) \in Nat
      BY <2>1, EndpointsAre
    <2>3. Len(writer[t].read) < Len(Endpoints)
      BY DEF LoadOne
    <2> QED BY <2>1, <2>2, <2>3
  <1>3. Endpoints[n] \in Endpoint
    BY <1>2 DEF Endpoint
  <1>4. c \in Configuration
    BY <1>0, <1>3, FileRead DEF Settles
  <1>5. /\ Valid(c) => Goes(t, [writer[t] EXCEPT !.read = Append(@, c)])
        /\ ~Valid(c) => Goes(t, Idle)
    BY DEF LoadOne
  <1> HIDE DEF c, n
  <1>6. UNCHANGED <<memory, files, lock, apart>> /\ loaded' = loaded /\ calls' \in 0 .. MaxCalls
    BY <1>0 DEF LoadOne, StoreTypes
  <1>7. CASE Valid(c)
    <2>1. c \in GoodConfig
      BY <1>4, <1>7 DEF GoodConfig
    <2>2. Append(writer[t].read, c) \in Seq(GoodConfig)
      BY <1>2, <2>1
    <2>3. [writer[t] EXCEPT !.read = Append(@, c)] \in Resting
      BY <1>1, <2>2 DEF Loading, Resting
    <2> QED BY <1>1, <1>5, <1>6, <1>7, <2>3, QuietInv
  <1>8. CASE ~Valid(c)
    <2>1. Idle \in Resting
      BY DEF Resting
    <2> QED BY <1>1, <1>5, <1>6, <1>8, <2>1, QuietInv
  <1> QED BY <1>7, <1>8

LEMMA LoadStoresInv ==
  ASSUME StoreInv, NEW t \in Writers, LoadStores(t)
  PROVE  StoreInv'
  <1>0. StoreTypes /\ SaverAlone /\ writer[t] \in Resting \cup Writing
    BY DEF StoreInv, StoreTypes
  <1>1. writer[t] \in Loading /\ writer[t] \in Resting
    BY <1>0, WriterKinds DEF LoadStores, Resting
  <1>2. writer[t].read \in Seq(GoodConfig) /\ Len(writer[t].read) = Len(Endpoints)
    BY <1>1 DEF LoadStores, Loading
  <1>3. Idle \in Resting /\ Idle \in Resting \cup Writing /\ Goes(t, Idle)
    BY DEF Resting, LoadStores
  <1>4. /\ writer' \in [Writers -> Resting \cup Writing] /\ writer'[t] = Idle
        /\ \A u \in Writers \ {t} : writer'[u] = writer[u]
        /\ \A u \in Writers \ {t} : \A e \in Endpoint : Writes(u, e)' <=> Writes(u, e)
    BY <1>0, <1>3, Moves
  <1>5. \A e \in Endpoint : ~Writes(t, e) /\ ~Writes(t, e)'
    BY <1>1, <1>3, <1>4, WriterKinds DEF Writes
  <1> DEFINE At(e) == CHOOSE i \in 1 .. Len(Endpoints) : Endpoints[i] = e
  <1>6. ASSUME NEW e \in Endpoint
        PROVE  /\ At(e) \in 1 .. Len(Endpoints) /\ Endpoints[At(e)] = e
               /\ memory'[e] = writer[t].read[At(e)] /\ memory'[e] \in GoodConfig
    <2>1. \E i \in 1 .. Len(Endpoints) : Endpoints[i] = e
      BY DEF Endpoint
    <2>2. At(e) \in 1 .. Len(Endpoints) /\ Endpoints[At(e)] = e
      BY <2>1
    <2>3. memory'[e] = writer[t].read[At(e)]
      BY DEF LoadStores
    <2> HIDE DEF At
    <2>4. writer[t].read[At(e)] \in GoodConfig
      BY <1>2, <2>2, ElementOfSeq
    <2> QED BY <2>2, <2>3, <2>4
  <1>7. memory' \in [Endpoint -> GoodConfig]
    <2>1. memory' = [e \in Endpoint |-> memory'[e]]
      BY DEF LoadStores
    <2> QED BY <1>6, <2>1
  <1>8. StoreTypes'
    <2>1. apart' \subseteq Endpoint
      BY DEF LoadStores, StaleSinceRead, Endpoint
    <2>2. /\ loaded' = TRUE /\ calls' = calls /\ lock' = lock /\ files' = files
      BY DEF LoadStores
    <2> QED BY <1>0, <1>4, <1>7, <2>1, <2>2 DEF StoreTypes
  <1>9. SaverAlone'
    <2>1. lock' = NoWriter /\ NoWriter \notin Writers /\ lock = NoWriter
      BY StoreAssumption DEF LoadStores, Free, NoWriter
    <2>2. \A u \in Writers : writer'[u] \in Writing => writer'[u] = writer[u]
      BY <1>3, <1>4, WriterKinds
    <2> QED BY <1>0, <2>1, <2>2 DEF SaverAlone
  <1>10. Settled'
    <2> SUFFICES ASSUME NEW e \in Endpoint, e \notin apart'
                 PROVE  Agrees(e)' /\ \A u \in Writers : ~Writes(u, e)'
      BY DEF Settled
    <2>1. e \notin StaleSinceRead(t) /\ \A u \in Writers : ~Writes(u, e)
      BY DEF LoadStores
    <2>2. \A u \in Writers : ~Writes(u, e)'
      BY <1>4, <1>5, <2>1
    <2>3. ReadBack(files[e]) = memory'[e]
      BY <1>6, <2>1 DEF StaleSinceRead
    <2>4. files' = files
      BY DEF LoadStores
    <2>5. ReadBack({memory'[e]}) = memory'[e]
      BY <1>0, <2>3, FileRead
    <2> QED BY <2>2, <2>3, <2>4, <2>5 DEF Agrees
  <1> QED BY <1>8, <1>9, <1>10 DEF StoreInv

(* update...() and the second half of updateGb28181Server() *)
LEMMA StoresInv ==
  ASSUME StoreInv, NEW t \in Writers, NEW e \in Endpoint, NEW c \in Configuration,
         NEW persist \in BOOLEAN, writer[t] \in Resting, Stores(t, e, c, persist),
         calls' \in 0 .. MaxCalls
  PROVE  StoreInv'
  <1>0. StoreTypes /\ SaverAlone /\ Settled
    BY DEF StoreInv
  <1>1. loaded' = loaded /\ files' = files /\ lock' = lock /\ lock = NoWriter
    BY DEF Stores, Free
  <1>2. CASE Refuses(c)
    <2>1. Goes(t, Idle) /\ memory' = memory /\ apart' = apart /\ Idle \in Resting
      BY <1>2 DEF Stores, Resting
    <2> QED BY <1>1, <2>1, QuietInv
  <1>3. CASE ~Refuses(c)
    <2>1. c \in GoodConfig
      BY <1>3 DEF Refuses, GoodConfig
    <2> DEFINE w == IF persist THEN [at |-> "open", endpoint |-> e, config |-> c, next |-> <<>>]
                               ELSE Idle
    <2>2. /\ memory' = [memory EXCEPT ![e] = c] /\ Goes(t, w)
          /\ apart' = IF persist /\ \A u \in Writers : ~Writes(u, e)
                        THEN apart \ {e} ELSE apart \cup {e}
      BY <1>3 DEF Stores, Stored
    <2>3. w \in Resting \cup Writing
      <3>1. <<>> \in Seq(Endpoint)
        OBVIOUS
      <3> QED BY <2>1, <3>1 DEF Resting, Writing
    <2>4. /\ w.at = IF persist THEN "open" ELSE "idle"
          /\ persist => w.endpoint = e /\ w.config = c /\ w.next = <<>>
      BY DEF Idle
    <2> HIDE DEF w
    <2>5. /\ writer' \in [Writers -> Resting \cup Writing] /\ writer'[t] = w
          /\ \A u \in Writers \ {t} : writer'[u] = writer[u]
          /\ \A u \in Writers \ {t} : \A d \in Endpoint : Writes(u, d)' <=> Writes(u, d)
      BY <1>0, <2>2, <2>3, Moves
    <2>6. memory' \in [Endpoint -> GoodConfig] /\ memory'[e] = c
          /\ \A d \in Endpoint \ {e} : memory'[d] = memory[d]
      BY <1>0, <2>1, <2>2 DEF StoreTypes
    <2>7. StoreTypes'
      BY <1>0, <1>1, <2>2, <2>5, <2>6 DEF StoreTypes
    <2>8. SaverAlone'
      <3>1. NoWriter \notin Writers
        BY StoreAssumption DEF NoWriter
      <3>2. writer'[t] \in Writing => writer'[t].next = <<>>
        BY <2>4, <2>5, WriterKinds
      <3> QED BY <1>0, <1>1, <2>5, <3>1, <3>2 DEF SaverAlone
    <2>9. /\ \A d \in Endpoint : ~Writes(t, d)
          /\ \A d \in Endpoint : Writes(t, d)' <=> persist /\ d = e
      BY <2>4, <2>5, WriterKinds DEF Writes
    <2>10. Settled'
      <3> SUFFICES ASSUME NEW d \in Endpoint, d \notin apart'
                   PROVE  OneWrites(d)' \/ (Agrees(d)' /\ \A u \in Writers : ~Writes(u, d)')
        BY DEF Settled
      <3>1. CASE d = e
        <4>1. persist /\ \A u \in Writers : ~Writes(u, e)
          BY <2>2, <3>1
        <4>2. Writes(t, e)' /\ \A u \in Writers \ {t} : ~Writes(u, e)'
          BY <2>5, <2>9, <4>1
        <4>3. writer'[t].config = memory'[e]
          BY <2>4, <2>5, <2>6, <4>1
        <4> QED BY <3>1, <4>2, <4>3 DEF OneWrites
      <3>2. CASE d # e
        <4>1. d \notin apart /\ memory'[d] = memory[d]
          BY <2>2, <2>6, <3>2
        <4>2. \A u \in Writers : Writes(u, d)' <=> Writes(u, d)
          BY <2>5, <2>9, <3>2
        <4>3. CASE OneWrites(d)
          <5>1. PICK u \in Writers : /\ Writes(u, d) /\ writer[u].config = memory[d]
                                     /\ \A v \in Writers : Writes(v, d) => v = u
            BY <4>3 DEF OneWrites
          <5>2. u # t /\ writer'[u] = writer[u]
            BY <2>5, <2>9, <5>1
          <5> QED BY <4>1, <4>2, <5>1, <5>2 DEF OneWrites
        <4>4. CASE Agrees(d) /\ \A u \in Writers : ~Writes(u, d)
          BY <1>1, <4>1, <4>2, <4>4 DEF Agrees
        <4> QED BY <1>0, <4>1, <4>3, <4>4 DEF Settled
      <3> QED BY <3>1, <3>2
    <2> QED BY <2>7, <2>8, <2>10 DEF StoreInv
  <1> QED BY <1>2, <1>3

LEMMA UpdateInv ==
  ASSUME StoreInv, NEW t \in Writers, NEW e \in Endpoint, NEW c \in Given, NEW persist \in BOOLEAN,
         Update(t, e, c, persist)
  PROVE  StoreInv'
  <1>1. c \in Configuration
    BY StoreAssumption
  <1>2. writer[t] \in Resting /\ calls' \in 0 .. MaxCalls
    BY CallsOK DEF Update, Calls, Resting
  <1> QED BY <1>1, <1>2, StoresInv DEF Update

LEMMA ServerCopiedInv ==
  ASSUME StoreInv, NEW t \in Writers, NEW server \in Servers, NEW persist \in BOOLEAN,
         ServerCopied(t, server, persist)
  PROVE  StoreInv'
  <1> DEFINE c == [memory["gb28181"] EXCEPT !.server = server]
  <1>1. memory["gb28181"] \in Configuration
    BY DEF ServerCopied, StoreInv, StoreTypes, GoodConfig
  <1>2. server \in Texts
    BY StoreAssumption
  <1>3. c \in Configuration
    BY <1>1, <1>2 DEF Configuration
  <1>4. Goes(t, [at |-> "copied", config |-> c, persist |-> persist])
    BY DEF ServerCopied
  <1> HIDE DEF c
  <1>5. [at |-> "copied", config |-> c, persist |-> persist] \in Resting
    BY <1>3 DEF Copied, Resting, ServerCopied
  <1>6. calls' \in 0 .. MaxCalls /\ writer[t] \in Resting
    BY CallsOK DEF ServerCopied, Calls, Resting
  <1> QED BY <1>4, <1>5, <1>6, QuietInv DEF ServerCopied

LEMMA ServerStoredInv ==
  ASSUME StoreInv, NEW t \in Writers, ServerStored(t)
  PROVE  StoreInv'
  <1>1. writer[t] \in Resting \cup Writing /\ calls \in 0 .. MaxCalls
    BY DEF StoreInv, StoreTypes
  <1>2. writer[t] \in Copied /\ writer[t] \in Resting
    BY <1>1, WriterKinds DEF ServerStored, Resting
  <1>3. writer[t].config \in Configuration /\ writer[t].persist \in BOOLEAN
    BY <1>2 DEF Copied
  <1>4. Stores(t, "gb28181", writer[t].config, writer[t].persist) /\ calls' = calls
    BY DEF ServerStored
  <1>5. "gb28181" \in Endpoint
    BY <1>2 DEF Copied
  <1> QED BY <1>1, <1>2, <1>3, <1>4, <1>5, StoresInv

----------------------------------------------------------------------------
(* save() *)
LEMMA Rest ==
  ASSUME StoreTypes, NEW rest \in Seq(Endpoint), rest # <<>>
  PROVE  /\ SaveFrom(rest) \in Writing
         /\ SaveFrom(rest).at = "open" /\ SaveFrom(rest).endpoint = Head(rest)
         /\ SaveFrom(rest).endpoint \in Endpoint
         /\ SaveFrom(rest).config = memory[SaveFrom(rest).endpoint]
  <1>1. Head(rest) \in Endpoint /\ Tail(rest) \in Seq(Endpoint)
    OBVIOUS
  <1>2. memory[Head(rest)] \in GoodConfig
    BY <1>1 DEF StoreTypes
  <1>3. SaveFrom(rest) \in Writing
    BY <1>1, <1>2 DEF SaveFrom, Writing
  <1> QED BY <1>1, <1>3 DEF SaveFrom

LEMMA SaveInv ==
  ASSUME StoreInv, NEW t \in Writers, Save(t)
  PROVE  StoreInv'
  <1>0. StoreTypes /\ SaverAlone /\ Settled
    BY DEF StoreInv
  <1> DEFINE w == SaveFrom(Endpoints)
  <1>1. /\ w \in Writing /\ w.at = "open" /\ w.endpoint \in Endpoint
        /\ w.config = memory[w.endpoint]
    BY <1>0, Rest, EndpointsAre
  <1>2. /\ loaded' = loaded /\ memory' = memory /\ files' = files /\ lock' = t
        /\ lock = NoWriter /\ Goes(t, w)
        /\ apart' = apart \cup {e \in Endpoint : \E u \in Writers : Writes(u, e)}
        /\ writer[t] = Idle
    BY DEF Save, Free, Calls
  <1> HIDE DEF w
  <1>3. calls' \in 0 .. MaxCalls
    BY CallsOK DEF Save
  <1>4. /\ writer' \in [Writers -> Resting \cup Writing] /\ writer'[t] = w
        /\ \A u \in Writers \ {t} : writer'[u] = writer[u]
        /\ \A u \in Writers \ {t} : \A e \in Endpoint : Writes(u, e)' <=> Writes(u, e)
    BY <1>0, <1>1, <1>2, Moves
  <1>5. \A e \in Endpoint : Writes(t, e)' <=> e = w.endpoint
    BY <1>1, <1>4 DEF Writes
  <1>6. StoreTypes'
    BY <1>0, <1>2, <1>3, <1>4 DEF StoreTypes
  <1>7. \A e \in Endpoint \ apart' : \A u \in Writers : ~Writes(u, e)
    BY <1>2
  <1>8. SaverAlone'
    <2>1. writer'[t] \in Writing /\ writer'[t].config = memory'[writer'[t].endpoint]
      BY <1>1, <1>2, <1>4
    <2>2. \A u \in Writers \ {t} : \A e \in Endpoint : Writes(u, e)' => e \in apart'
      BY <1>4, <1>7
    <2>3. \A u \in Writers \ {t} : writer'[u] \in Writing => writer'[u].next = <<>>
      BY <1>0, <1>2, <1>4, StoreAssumption DEF SaverAlone, NoWriter
    <2> QED BY <1>2, <2>1, <2>2, <2>3 DEF SaverAlone
  <1>9. Settled'
    <2> SUFFICES ASSUME NEW e \in Endpoint, e \notin apart'
                 PROVE  OneWrites(e)' \/ (Agrees(e)' /\ \A u \in Writers : ~Writes(u, e)')
      BY DEF Settled
    <2>1. \A u \in Writers \ {t} : ~Writes(u, e)'
      BY <1>4, <1>7
    <2>2. CASE e = w.endpoint
      <3>1. Writes(t, e)' /\ writer'[t].config = memory'[e]
        BY <1>1, <1>2, <1>4, <1>5, <2>2
      <3> QED BY <2>1, <3>1 DEF OneWrites
    <2>3. CASE e # w.endpoint
      <3>1. e \notin apart /\ \A u \in Writers : ~Writes(u, e)
        BY <1>2, <1>7
      <3>2. Agrees(e)
        BY <1>0, <3>1 DEF Settled, OneWrites
      <3> QED BY <1>2, <1>5, <2>1, <2>3, <3>2 DEF Agrees
    <2> QED BY <2>2, <2>3
  <1> QED BY <1>6, <1>8, <1>9 DEF StoreInv

----------------------------------------------------------------------------
(* writeText() *)

(* Others than t, and the endpoints t does not write, are as settled as    *)
(* before, if only t's file and place change.                              *)
LEMMA OthersSettled ==
  ASSUME StoreInv, NEW t \in Writers, NEW e \in Endpoint \ apart,
         memory' = memory, files'[e] = files[e], ~Writes(t, e), ~Writes(t, e)',
         \A u \in Writers \ {t} : writer'[u] = writer[u]
  PROVE  OneWrites(e)' \/ (Agrees(e)' /\ \A u \in Writers : ~Writes(u, e)')
  <1>1. \A u \in Writers : Writes(u, e)' <=> Writes(u, e)
    BY DEF Writes
  <1>2. CASE OneWrites(e)
    <2>1. PICK u \in Writers : /\ Writes(u, e) /\ writer[u].config = memory[e]
                               /\ \A v \in Writers : Writes(v, e) => v = u
      BY <1>2 DEF OneWrites
    <2> QED BY <1>1, <2>1 DEF OneWrites
  <1>3. CASE Agrees(e) /\ \A u \in Writers : ~Writes(u, e)
    BY <1>1, <1>3 DEF Agrees
  <1> QED BY <1>2, <1>3 DEF StoreInv, Settled

(* An endpoint that is to agree has one writer at most, with what is in    *)
(* memory.                                                                 *)
LEMMA OnlyWriter ==
  ASSUME StoreInv, NEW t \in Writers, NEW e \in Endpoint \ apart, Writes(t, e)
  PROVE  writer[t].config = memory[e] /\ \A u \in Writers \ {t} : ~Writes(u, e)
  BY DEF StoreInv, Settled, OneWrites

LEMMA OpenFileInv ==
  ASSUME StoreInv, NEW t \in Writers, OpenFile(t)
  PROVE  StoreInv'
  <1>0. StoreTypes /\ SaverAlone /\ Settled /\ writer[t] \in Resting \cup Writing
    BY DEF StoreInv, StoreTypes
  <1>1. writer[t] \in Writing /\ writer[t].at = "open"
    BY <1>0, WriterKinds DEF OpenFile
  <1> DEFINE e == writer[t].endpoint
             w == [writer[t] EXCEPT !.at = "write"]
  <1>2. /\ w \in Writing /\ w.at = "write" /\ w.endpoint = e /\ e \in Endpoint
        /\ w.config = writer[t].config /\ w.next = writer[t].next
    BY <1>1 DEF Writing
  <1>3. /\ loaded' = loaded /\ memory' = memory /\ lock' = lock /\ calls' = calls
        /\ apart' = apart /\ files' = [files EXCEPT ![e] = Missing] /\ Goes(t, w)
    BY DEF OpenFile
  <1> HIDE DEF w, e
  <1>4. /\ writer' \in [Writers -> Resting \cup Writing] /\ writer'[t] = w
        /\ \A u \in Writers \ {t} : writer'[u] = writer[u]
        /\ \A u \in Writers \ {t} : \A d \in Endpoint : Writes(u, d)' <=> Writes(u, d)
    BY <1>0, <1>2, <1>3, Moves
  <1>5. \A d \in Endpoint : (Writes(t, d)' <=> d = e) /\ (Writes(t, d) <=> d = e)
    BY <1>1, <1>2, <1>4 DEF Writes, e
  <1>6. /\ files' \in [Endpoint -> SUBSET GoodConfig]
        /\ \A d \in Endpoint \ {e} : files'[d] = files[d]
    BY <1>0, <1>2, <1>3 DEF StoreTypes, Missing
  <1>7. StoreTypes'
    BY <1>0, <1>3, <1>4, <1>6 DEF StoreTypes
  <1>8. SaverAlone'
    <2>1. \A u \in Writers : writer'[u] \in Writing =>
             writer[u] \in Writing /\ writer'[u].next = writer[u].next
      BY <1>1, <1>2, <1>4
    <2>2. lock \in Writers =>
             /\ writer'[lock] \in Writing
             /\ writer'[lock].config = writer[lock].config
             /\ writer'[lock].endpoint = writer[lock].endpoint
      BY <1>0, <1>2, <1>4 DEF SaverAlone, e
    <2>3. \A u \in Writers : \A d \in Endpoint : Writes(u, d)' <=> Writes(u, d)
      BY <1>4, <1>5
    <2> QED BY <1>0, <1>3, <2>1, <2>2, <2>3 DEF SaverAlone
  <1>9. Settled'
    <2> SUFFICES ASSUME NEW d \in Endpoint, d \notin apart
                 PROVE  OneWrites(d)' \/ (Agrees(d)' /\ \A u \in Writers : ~Writes(u, d)')
      BY <1>3 DEF Settled
    <2>1. CASE d = e
      <3>1. writer[t].config = memory[d] /\ \A u \in Writers \ {t} : ~Writes(u, d)
        BY <1>5, <2>1, OnlyWriter
      <3> QED BY <1>2, <1>3, <1>4, <1>5, <2>1, <3>1 DEF OneWrites
    <2>2. CASE d # e
      BY <1>3, <1>4, <1>5, <1>6, <2>2, OthersSettled
    <2> QED BY <2>1, <2>2
  <1> QED BY <1>7, <1>8, <1>9 DEF StoreInv

LEMMA OpenFailsInv ==
  ASSUME StoreInv, NEW t \in Writers, OpenFails(t)
  PROVE  StoreInv'
  <1>0. StoreTypes /\ SaverAlone /\ Settled /\ writer[t] \in Resting \cup Writing
    BY DEF StoreInv, StoreTypes
  <1>1. writer[t] \in Writing /\ writer[t].endpoint \in Endpoint
    BY <1>0, WriterKinds DEF OpenFails, Writing
  <1> DEFINE e == writer[t].endpoint
  <1>2. /\ loaded' = loaded /\ memory' = memory /\ lock' = Unlocked(t) /\ calls' = calls
        /\ apart' = apart \cup {e} /\ files' = files /\ Goes(t, Idle)
    BY DEF OpenFails
  <1>3. Idle \in Resting /\ Idle \in Resting \cup Writing
    BY DEF Resting
  <1>4. /\ writer' \in [Writers -> Resting \cup Writing] /\ writer'[t] = Idle
        /\ \A u \in Writers \ {t} : writer'[u] = writer[u]
        /\ \A u \in Writers \ {t} : \A d \in Endpoint : Writes(u, d)' <=> Writes(u, d)
    BY <1>0, <1>2, <1>3, Moves
  <1>5. \A d \in Endpoint : ~Writes(t, d)' /\ (Writes(t, d) => d = e)
    BY <1>3, <1>4, WriterKinds DEF Writes
  <1>6. lock' = NoWriter \/ (lock' = lock /\ lock # t)
    BY <1>2 DEF Unlocked
  <1>7. StoreTypes'
    BY <1>0, <1>1, <1>2, <1>4, <1>6 DEF StoreTypes
  <1>8. SaverAlone'
    <2>1. \A u \in Writers : writer'[u] \in Writing => u # t /\ writer'[u] = writer[u]
      BY <1>3, <1>4, WriterKinds
    <2>2. NoWriter \notin Writers
      BY StoreAssumption DEF NoWriter
    <2>3. \A u \in Writers : \A d \in Endpoint : Writes(u, d)' => Writes(u, d)
      BY <1>4, <1>5
    <2>4. \A u \in Writers \ {lock'} : writer'[u] \in Writing => writer'[u].next = <<>>
      <3> SUFFICES ASSUME NEW u \in Writers, u # lock', writer'[u] \in Writing
                   PROVE  writer[u].next = <<>> /\ writer'[u] = writer[u]
        OBVIOUS
      <3>1. u # t /\ writer'[u] = writer[u]
        BY <2>1
      <3>2. u # lock
        BY <1>2, <3>1 DEF Unlocked
      <3> QED BY <1>0, <3>1, <3>2 DEF SaverAlone
    <2>5. lock' \in Writers =>
            /\ writer'[lock'] \in Writing
            /\ writer'[lock'].config = memory'[writer'[lock'].endpoint]
            /\ \A u \in Writers \ {lock'} : \A d \in Endpoint : Writes(u, d)' => d \in apart'
      <3> SUFFICES ASSUME lock' = lock, lock # t, lock \in Writers
                   PROVE  /\ writer'[lock] \in Writing
                          /\ writer'[lock].config = memory'[writer'[lock].endpoint]
                          /\ \A u \in Writers \ {lock} : \A d \in Endpoint : Writes(u, d)' => d \in apart'
        BY <1>6, <2>2
      <3> QED BY <1>0, <1>2, <1>4, <2>3 DEF SaverAlone
    <2> QED BY <2>4, <2>5 DEF SaverAlone
  <1>9. Settled'
    <2> SUFFICES ASSUME NEW d \in Endpoint, d \notin apart'
                 PROVE  OneWrites(d)' \/ (Agrees(d)' /\ \A u \in Writers : ~Writes(u, d)')
      BY DEF Settled
    <2>1. d \notin apart /\ d # e
      BY <1>2
    <2> QED BY <1>2, <1>4, <1>5, <2>1, OthersSettled
  <1> QED BY <1>7, <1>8, <1>9 DEF StoreInv

LEMMA WriteFileInv ==
  ASSUME StoreInv, NEW t \in Writers, WriteFile(t)
  PROVE  StoreInv'
  <1>0. StoreTypes /\ SaverAlone /\ Settled /\ writer[t] \in Resting \cup Writing
    BY DEF StoreInv, StoreTypes
  <1>1. writer[t] \in Writing /\ writer[t].at = "write"
    BY <1>0, WriterKinds DEF WriteFile
  <1> DEFINE e    == writer[t].endpoint
             c    == writer[t].config
             rest == writer[t].next
             w    == IF rest # <<>> THEN SaveFrom(rest) ELSE Idle
  <1>2. e \in Endpoint /\ c \in GoodConfig /\ rest \in Seq(Endpoint)
    BY <1>1 DEF Writing
  <1>3. /\ loaded' = loaded /\ memory' = memory /\ calls' = calls
        /\ files' = [files EXCEPT ![e] = {c}] /\ Goes(t, w)
        /\ lock' = IF rest # <<>> THEN lock ELSE Unlocked(t)
        /\ apart' = IF lock = t /\ \A u \in Writers \ {t} : ~Writes(u, e)
                      THEN apart \ {e} ELSE apart
    BY DEF WriteFile, WrittenFile
  <1>4. /\ w \in Resting \cup Writing
        /\ rest # <<>> => /\ w \in Writing /\ w.at = "open" /\ w.endpoint \in Endpoint
                          /\ w.config = memory[w.endpoint]
        /\ rest = <<>> => w = Idle
    BY <1>0, <1>2, Rest DEF Resting
  <1>5. /\ lock # t => rest = <<>>
        /\ lock = t => c = memory[e]
    BY <1>0, <1>1 DEF SaverAlone
  <1>6. Writes(t, e) /\ \A d \in Endpoint : Writes(t, d) => d = e
    BY <1>1 DEF Writes
  <1> HIDE DEF w, e, c, rest
  <1>7. /\ writer' \in [Writers -> Resting \cup Writing] /\ writer'[t] = w
        /\ \A u \in Writers \ {t} : writer'[u] = writer[u]
        /\ \A u \in Writers \ {t} : \A d \in Endpoint : Writes(u, d)' <=> Writes(u, d)
    BY <1>0, <1>3, <1>4, Moves
  <1>8. \A d \in Endpoint : Writes(t, d)' <=> rest # <<>> /\ d = w.endpoint
    BY <1>4, <1>7, WriterKinds DEF Writes
  <1>9. /\ files' \in [Endpoint -> SUBSET GoodConfig] /\ files'[e] = {c}
        /\ \A d \in Endpoint \ {e} : files'[d] = files[d]
    BY <1>0, <1>2, <1>3 DEF StoreTypes
  <1>10. lock' \in {lock, NoWriter} /\ (lock' = t => lock = t /\ rest # <<>>) /\ (lock' = NoWriter \/ lock' = lock)
         /\ (lock # t => lock' = lock) /\ (lock = t /\ rest # <<>> => lock' = t)
    BY <1>3, <1>5, StoreAssumption DEF Unlocked, NoWriter
  <1>11. StoreTypes'
    BY <1>0, <1>3, <1>7, <1>9, <1>10 DEF StoreTypes
  <1>12. ASSUME NEW d \in Endpoint, d \in apart, d \notin apart'
         PROVE  d = e /\ lock = t /\ \A u \in Writers \ {t} : ~Writes(u, e)
    BY <1>3, <1>12
  <1>13. SaverAlone'
    <2>1. CASE lock = t /\ rest # <<>>
      <3>1. lock' = t /\ writer'[t] \in Writing /\ writer'[t].config = memory'[writer'[t].endpoint]
        BY <1>3, <1>4, <1>7, <1>10, <2>1
      <3>2. \A u \in Writers \ {t} : \A d \in Endpoint : Writes(u, d)' => d \in apart'
        BY <1>0, <1>7, <1>12, <2>1 DEF SaverAlone
      <3>3. \A u \in Writers \ {t} : writer'[u] \in Writing => writer'[u].next = <<>>
        BY <1>0, <1>7, <2>1 DEF SaverAlone
      <3> QED BY <3>1, <3>2, <3>3 DEF SaverAlone
    <2>2. CASE lock = t /\ rest = <<>>
      <3>1. lock' = NoWriter /\ NoWriter \notin Writers
        BY <1>3, <2>2, StoreAssumption DEF Unlocked, NoWriter
      <3>2. \A u \in Writers : writer'[u] \in Writing => writer'[u].next = <<>>
        BY <1>0, <1>4, <1>7, <2>2, WriterKinds DEF SaverAlone, Resting
      <3> QED BY <3>1, <3>2 DEF SaverAlone
    <2>3. CASE lock # t
      <3>1. lock' = lock /\ apart' = apart /\ rest = <<>> /\ w = Idle
        BY <1>3, <1>4, <1>5, <1>10, <2>3
      <3>2. lock \in Writers => writer'[lock] = writer[lock]
        BY <1>7, <2>3
      <3>3. \A u \in Writers : writer'[u] \in Writing => u # t
        BY <1>7, <3>1, WriterKinds DEF Resting
      <3>4. \A u \in Writers : \A d \in Endpoint : Writes(u, d)' => Writes(u, d)
        BY <1>7, <1>8, <3>1
      <3>5. \A u \in Writers \ {lock'} : writer'[u] \in Writing => writer'[u].next = <<>>
        BY <1>0, <1>7, <3>1, <3>3 DEF SaverAlone
      <3> QED BY <1>0, <1>3, <3>1, <3>2, <3>4, <3>5 DEF SaverAlone
    <2> QED BY <2>1, <2>2, <2>3
  <1>14. Settled'
    <2> SUFFICES ASSUME NEW d \in Endpoint, d \notin apart'
                 PROVE  OneWrites(d)' \/ (Agrees(d)' /\ \A u \in Writers : ~Writes(u, d)')
      BY DEF Settled
    <2>1. ASSUME rest # <<>>, d = w.endpoint PROVE OneWrites(d)'
      <3>1. Writes(t, d)' /\ writer'[t].config = memory'[d] /\ lock = t
        BY <1>3, <1>4, <1>5, <1>7, <1>8, <2>1
      <3>2. \A u \in Writers \ {t} : ~Writes(u, d)
        BY <1>0, <1>12, <3>1 DEF SaverAlone
      <3> QED BY <1>7, <3>1, <3>2 DEF OneWrites
    <2>2. ASSUME ~(rest # <<>> /\ d = w.endpoint), d = e
          PROVE  Agrees(d)' /\ \A u \in Writers : ~Writes(u, d)'
      <3>1. \A u \in Writers \ {t} : ~Writes(u, e)
        BY <1>2, <1>6, <1>12, <2>2, OnlyWriter
      <3>2. c = memory[e]
        <4>1. CASE d \in apart
          BY <1>5, <1>12, <4>1
        <4>2. CASE d \notin apart
          BY <1>2, <1>6, <2>2, <4>2, OnlyWriter DEF c
        <4> QED BY <4>1, <4>2
      <3>3. Agrees(d)'
        BY <1>3, <1>9, <2>2, <3>2 DEF Agrees
      <3>4. ~Writes(t, d)'
        BY <1>8, <2>2
      <3> QED BY <1>7, <2>2, <3>1, <3>3, <3>4
    <2>3. ASSUME ~(rest # <<>> /\ d = w.endpoint), d # e
          PROVE  OneWrites(d)' \/ (Agrees(d)' /\ \A u \in Writers : ~Writes(u, d)')
      <3>1. d \in Endpoint \ apart
        BY <1>12, <2>3
      <3>2. ~Writes(t, d) /\ ~Writes(t, d)'
        BY <1>6, <1>8, <2>3
      <3>3. files'[d] = files[d] /\ \A u \in Writers \ {t} : writer'[u] = writer[u]
        BY <1>7, <1>9, <2>3
      <3> QED BY <1>3, <3>1, <3>2, <3>3, OthersSettled
    <2> QED BY <2>1, <2>2, <2>3
  <1> QED BY <1>11, <1>13, <1>14 DEF StoreInv

----------------------------------------------------------------------------
LEMMA RestartInv ==
  ASSUME StoreInv, Restart
  PROVE  StoreInv'
  <1>1. StoreTypes'
    BY DefaultGood DEF StoreInv, StoreTypes, Restart, Resting
  <1>2. SaverAlone'
    <2>1. NoWriter \notin Writers /\ Idle \notin Writing
      BY StoreAssumption, WriterKinds DEF NoWriter, Resting
    <2> QED BY <2>1 DEF Restart, SaverAlone
  <1> QED BY <1>1, <1>2 DEF StoreInv, Settled, Restart

LEMMA StoreInitInv == StoreInit => StoreInv
  <1> SUFFICES ASSUME StoreInit PROVE StoreInv
    OBVIOUS
  <1>1. StoreTypes
    <2>1. calls = 0 /\ 0 \in 0 .. MaxCalls
      <3>1. MaxCalls \in Nat
        BY StoreAssumption
      <3>2. calls = 0
        BY DEF StoreInit
      <3> QED BY <3>1, <3>2
    <2>2. memory \in [Endpoint -> GoodConfig] /\ files \in [Endpoint -> SUBSET GoodConfig]
      BY DefaultGood DEF StoreInit, Missing
    <2>3. writer \in [Writers -> Resting \cup Writing]
      BY DEF StoreInit, Resting
    <2> QED BY <2>1, <2>2, <2>3 DEF StoreInit, StoreTypes
  <1>2. NoWriter \notin Writers /\ Idle \notin Writing
    BY StoreAssumption, WriterKinds DEF NoWriter, Resting
  <1>3. SaverAlone
    BY <1>2 DEF StoreInit, SaverAlone
  <1>4. \A e \in Endpoint : Agrees(e)
    BY DefaultGood DEF StoreInit, Agrees, ReadBack, Missing
  <1>5. \A e \in Endpoint, t \in Writers : ~Writes(t, e)
    BY WriterKinds DEF StoreInit, Writes
  <1> QED BY <1>1, <1>3, <1>4, <1>5 DEF StoreInv, Settled

LEMMA StoreNextInv == StoreInv /\ [StoreNext]_storeVars => StoreInv'
  <1> SUFFICES ASSUME StoreInv, [StoreNext]_storeVars PROVE StoreInv'
    OBVIOUS
  <1>1. CASE UNCHANGED storeVars
    <2>1. StoreTypes'
      BY <1>1 DEF storeVars, StoreInv, StoreTypes
    <2>2. SaverAlone'
      BY <1>1 DEF storeVars, StoreInv, SaverAlone, Writes
    <2>3. Settled'
      BY <1>1 DEF storeVars, StoreInv, Settled, OneWrites, Agrees, Writes
    <2> QED BY <2>1, <2>2, <2>3 DEF StoreInv
  <1>2. CASE StoreNext
    BY <1>2, RestartInv, LoadBeginsInv, LoadOneInv, LoadStoresInv, UpdateInv, ServerCopiedInv,
       ServerStoredInv, SaveInv, OpenFileInv, OpenFailsInv, WriteFileInv DEF StoreNext
  <1> QED BY <1>1, <1>2

LEMMA StoreInvSafe == StoreInv => StoreSafe
  <1> SUFFICES ASSUME StoreInv PROVE StoreSafe
    OBVIOUS
  <1>0. StoreTypes /\ Settled
    BY DEF StoreInv
  <1>1. GoodConfig \subseteq Configuration /\ \A c \in GoodConfig : Valid(c)
    BY DEF GoodConfig
  <1>2. StoreTypeOK
    <2>1. \A t \in Writers : writer[t].at \in {"idle", "load", "copied", "open", "write"}
      BY <1>0, WriterKinds DEF StoreTypes, Resting, Loading, Copied
    <2>2. memory \in [Endpoint -> Configuration] /\ \A e \in Endpoint : files[e] \subseteq Configuration
      BY <1>0, <1>1 DEF StoreTypes
    <2> QED BY <1>0, <2>1, <2>2 DEF StoreTypes, StoreTypeOK
  <1>3. AlwaysUsable
    <2>1. \A e \in Endpoint : memory[e] \in GoodConfig
      BY <1>0 DEF StoreTypes
    <2> QED BY <1>0, <1>1, <2>1, FileRead DEF AlwaysUsable
  <1>4. RestartKeepsMemory
    <2> SUFFICES ASSUME \A t \in Writers : writer[t] = Idle, NEW e \in Endpoint \ apart
                 PROVE  /\ ReadBack(files[e]) = ReadBack({memory[e]})
                        /\ Plain(memory[e]) /\ memory[e].port > 0 => ReadBack(files[e]) = memory[e]
      BY DEF RestartKeepsMemory
    <2>1. Agrees(e)
      BY <1>0, WriterKinds DEF Settled, OneWrites, Writes
    <2>2. memory[e] \in Configuration
      BY <1>0, <1>1 DEF StoreTypes
    <2> QED BY <2>1, <2>2, ReadPlain DEF Agrees
  <1> QED BY <1>2, <1>3, <1>4 DEF StoreSafe

(* ProtocolConfigStore and ProtocolConfigLoader, for any number of         *)
(* threads and any texts: no update and no crash, not even one between     *)
(* emptying a file and writing it, puts a configuration in memory that the *)
(* program could not start with, or a file that does not load, unless a    *)
(* text in it has a '#' or a line break.  At rest a restart finds what is  *)
(* in memory, as such a file is read, except where calls for one endpoint  *)
(* have overlapped, failed or were not to be saved.                        *)
THEOREM StoreAlwaysUsable == StoreSpec => []StoreSafe
  <1> QED BY StoreInitInv, StoreNextInv, StoreInvSafe, PTL DEF StoreSpec

----------------------------------------------------------------------------
(* The configuration files (SystemConfig) *)

ConfigNext == \/ YamlNext /\ UNCHANGED settingsVars
              \/ SettingsNext /\ UNCHANGED yamlVars
ConfigSpec == ConfigInit /\ [][ConfigNext]_<<yamlVars, settingsVars>>

(* What the module says of the lines read, of any lines L: the sections    *)
(* that line i lies in, the lines that lie in the sections S, and the      *)
(* sections that are still open behind the last line, and those of them    *)
(* that another line would lie in.                                         *)
Inside(L, i) ==
    {j \in 1 .. i - 1 :
        /\ L[j].kind = "section" /\ L[j].indent < L[i].indent
        /\ \A k \in j + 1 .. i - 1 : L[k].kind = "blank" \/ L[k].indent > L[j].indent}
Within(L, S) == {i \in 1 .. Len(L) : L[i].kind # "blank" /\ Inside(L, i) = S}
OpenIn(L) ==
    {j \in 1 .. Len(L) :
        /\ L[j].kind = "section"
        /\ \A k \in j + 1 .. Len(L) : L[k].kind = "blank" \/ L[k].indent > L[j].indent}
Around(L, line) == {j \in OpenIn(L) : L[j].indent < line.indent}
OnlyItems(L, S) == \A j \in Within(L, S) : L[j].kind = "item"

(* The stack is what is open, the outermost first, and each section on it  *)
(* lies in those below.                                                    *)
KeysTo(s, m) == {s[x].key : x \in 1 .. m}
Entry == [indent : Nat, key : Nat]
StackRight(L, s) ==
    /\ s \in Seq(Entry)
    /\ \A m \in 1 .. Len(s) :
         /\ s[m].key \in 1 .. Len(L) /\ L[s[m].key].kind = "section"
         /\ s[m].indent = L[s[m].key].indent
         /\ Inside(L, s[m].key) = KeysTo(s, m - 1)
    /\ \A m, n \in 1 .. Len(s) : m < n => s[m].key < s[n].key /\ s[m].indent < s[n].indent
    /\ KeysTo(s, Len(s)) = OpenIn(L)

(* If the innermost open section holds items only, they are counted.       *)
ListRight(L, count) ==
    /\ count \in 0 .. Len(L)
    /\ OnlyItems(L, OpenIn(L)) => count = Cardinality(Within(L, OpenIn(L)))

(* Every key is the path of its line. *)
Before(L, i) == {k \in 1 .. i - 1 : k \in Within(L, Inside(L, i))}
FlatKeys == [line : Nat, path : Seq(Nat), last : Nat]
KeyRight(L, key) ==
    /\ key.line \in 1 .. Len(L)
    /\ Range(key.path) = Inside(L, key.line)
    /\ \A m, n \in 1 .. Len(key.path) : m < n => key.path[m] < key.path[n]
    /\ key.last =
         IF L[key.line].kind = "value" THEN key.line
         ELSE IF OnlyItems(L, Inside(L, key.line)) THEN Cardinality(Before(L, key.line)) ELSE key.last
FlatRight(L, keys) ==
    keys \in Seq(FlatKeys) /\ \A k \in 1 .. Len(keys) : KeyRight(L, keys[k])

YamlInv ==
    /\ lines \in Seq(Line) /\ Len(lines) <= MaxLines
    /\ StackRight(lines, stack) /\ ListRight(lines, listIndex) /\ FlatRight(lines, flat)

----------------------------------------------------------------------------
(* The sections that stay open are the ones further out. *)
LEMMA StillOpenIs ==
  ASSUME stack \in Seq(Entry),
         \A m, n \in 1 .. Len(stack) : m < n => stack[m].indent < stack[n].indent,
         NEW indent \in Nat
  PROVE  \E m \in 0 .. Len(stack) :
            /\ StillOpen(indent) = SubSeq(stack, 1, m)
            /\ \A x \in 1 .. m : stack[x].indent < indent
            /\ \A x \in m + 1 .. Len(stack) : ~(stack[x].indent < indent)
  <1> DEFINE N == Len(stack)
             T == {n \in 0 .. N : n = 0 \/ IsOpen(stack[n], indent)}
  <1>1. N \in Nat /\ \A x \in 1 .. N : stack[x].indent \in Nat
    <2>1. \A x \in 1 .. N : stack[x] \in Entry
      OBVIOUS
    <2> QED BY <2>1 DEF Entry
  <1>2. T \subseteq 0 .. N /\ 0 \in T
    BY <1>1
  <1>3. \A n \in 1 .. N : n \in T <=> stack[n].indent < indent
    BY <1>1 DEF IsOpen
  <1>4. \A m, n \in 1 .. N : m < n => stack[m].indent < stack[n].indent
    OBVIOUS
  <1>5. StillOpen(indent) = SubSeq(stack, 1, CHOOSE n \in T : \A m \in T : m <= n)
    BY DEF StillOpen
  <1> HIDE DEF T, N
  <1>6. \E n \in T : \A m \in T : m <= n
    BY <1>1, <1>2, GreatestNumber
  <1>7. PICK n \in T : (\A m \in T : m <= n) /\ n = CHOOSE k \in T : \A m \in T : m <= k
    BY <1>6
  <1>8. n \in 0 .. N
    BY <1>2, <1>7
  <1>9. \A x \in 1 .. n : stack[x].indent < indent
    <2> SUFFICES ASSUME NEW x \in 1 .. n PROVE stack[x].indent < indent
      OBVIOUS
    <2>1. n \in 1 .. N /\ x \in 1 .. N
      BY <1>1, <1>8
    <2>2. stack[n].indent < indent
      BY <1>3, <1>7, <2>1
    <2>3. x = n \/ stack[x].indent < stack[n].indent
      BY <1>4, <2>1
    <2> QED BY <1>1, <2>1, <2>2, <2>3
  <1>10. \A x \in n + 1 .. N : ~(stack[x].indent < indent)
    <2> SUFFICES ASSUME NEW x \in n + 1 .. N, stack[x].indent < indent PROVE FALSE
      OBVIOUS
    <2>1. x \in 1 .. N /\ ~(x <= n)
      BY <1>1, <1>8
    <2> QED BY <1>3, <1>7, <2>1
  <1> QED BY <1>5, <1>7, <1>8, <1>9, <1>10 DEF N

(* Another line changes nothing about the lines before it. *)
LEMMA OneMore ==
  ASSUME NEW L \in Seq(Line), NEW line \in Line, NEW M, M = Append(L, line),
         NEW n, n = Len(L)
  PROVE  /\ n \in Nat /\ Len(M) = n + 1 /\ M[n + 1] = line
         /\ \A i \in 1 .. n : M[i] = L[i] /\ L[i] \in Line
  OBVIOUS

LEMMA InsideKept ==
  ASSUME NEW L \in Seq(Line), NEW line \in Line, NEW i \in 1 .. Len(L)
  PROVE  Inside(Append(L, line), i) = Inside(L, i)
  <1> DEFINE n == Len(L)
             M == Append(L, line)
  <1>1. n \in Nat /\ \A j \in 1 .. n : M[j] = L[j]
    BY OneMore
  <1> HIDE DEF M
  <1> SUFFICES ASSUME NEW j \in 1 .. i - 1
               PROVE  j \in Inside(M, i) <=> j \in Inside(L, i)
    BY DEF Inside, M
  <1>2. M[i] = L[i] /\ M[j] = L[j] /\ \A k \in j + 1 .. i - 1 : M[k] = L[k]
    BY <1>1
  <1> QED BY <1>2 DEF Inside

LEMMA InsideNew ==
  ASSUME NEW L \in Seq(Line), NEW line \in Line
  PROVE  Inside(Append(L, line), Len(L) + 1) = Around(L, line)
  <1> DEFINE n == Len(L)
             M == Append(L, line)
  <1>1. n \in Nat /\ M[n + 1] = line /\ \A j \in 1 .. n : M[j] = L[j]
    BY OneMore
  <1> HIDE DEF M
  <1>2. OpenIn(L) \subseteq 1 .. n
    BY DEF OpenIn
  <1>3. Inside(M, n + 1) = {j \in 1 .. n : j \in Inside(M, n + 1)}
    BY <1>1 DEF Inside
  <1>4. ASSUME NEW j \in 1 .. n
        PROVE  j \in Inside(M, n + 1) <=> j \in OpenIn(L) /\ L[j].indent < line.indent
    <2>1. M[j] = L[j] /\ \A k \in j + 1 .. n : M[k] = L[k]
      BY <1>1
    <2>2. n + 1 - 1 = n
      BY <1>1
    <2> QED BY <1>1, <2>1, <2>2 DEF Inside, OpenIn
  <1>5. Inside(M, n + 1) = Around(L, line)
    BY <1>2, <1>3, <1>4 DEF Around
  <1> QED BY <1>5 DEF M

LEMMA OpenAfter ==
  ASSUME NEW L \in Seq(Line), NEW line \in Line
  PROVE  /\ line.kind = "blank" => OpenIn(Append(L, line)) = OpenIn(L)
         /\ line.kind = "section" =>
              OpenIn(Append(L, line)) = Around(L, line) \cup {Len(L) + 1}
         /\ line.kind \notin {"blank", "section"} => OpenIn(Append(L, line)) = Around(L, line)
  <1> DEFINE n == Len(L)
             M == Append(L, line)
  <1>1. /\ n \in Nat /\ Len(M) = n + 1 /\ M[n + 1] = line
        /\ \A i \in 1 .. n : M[i] = L[i] /\ L[i] \in Line
    BY OneMore
  <1> HIDE DEF M
  <1>2. \A j \in OpenIn(M) : j \in 1 .. n + 1
    BY <1>1 DEF OpenIn
  <1>3. n + 1 \in OpenIn(M) <=> line.kind = "section"
    BY <1>1 DEF OpenIn
  <1>4. ASSUME NEW j \in 1 .. n
        PROVE  j \in OpenIn(M) <=>
                 j \in OpenIn(L) /\ (line.kind = "blank" \/ L[j].indent < line.indent)
    <2>1. j + 1 .. n + 1 = (j + 1 .. n) \cup {n + 1}
      BY <1>1
    <2>2. M[j] = L[j] /\ \A k \in j + 1 .. n : M[k] = L[k]
      BY <1>1
    <2>3. j \in OpenIn(M) <=>
            /\ L[j].kind = "section"
            /\ \A k \in j + 1 .. n : L[k].kind = "blank" \/ L[k].indent > L[j].indent
            /\ line.kind = "blank" \/ line.indent > L[j].indent
      BY <1>1, <2>1, <2>2 DEF OpenIn
    <2>4. line.indent > L[j].indent <=> L[j].indent < line.indent
      BY <1>1, ConfigAssumption DEF Line
    <2> QED BY <2>3, <2>4 DEF OpenIn
  <1>5. OpenIn(L) \subseteq 1 .. n
    BY DEF OpenIn
  <1>6. n + 1 \notin OpenIn(L)
    BY <1>1, <1>5
  <1>7. \A j : j \in OpenIn(M) => j = n + 1 \/ j \in 1 .. n
    BY <1>1, <1>2
  <1>8. ASSUME line.kind = "blank" PROVE OpenIn(M) = OpenIn(L)
    <2>1. line.kind # "section"
      BY <1>8
    <2>2. \A j : j \in OpenIn(M) <=> j \in OpenIn(L)
      BY <1>3, <1>4, <1>5, <1>7, <1>8, <2>1
    <2> QED BY <2>2
  <1> DEFINE S == {j \in OpenIn(L) : L[j].indent < line.indent}
  <1>9. ASSUME line.kind # "blank"
        PROVE  S \subseteq 1 .. n /\ \A j \in 1 .. n : j \in OpenIn(M) <=> j \in S
    BY <1>4, <1>5, <1>9
  <1> HIDE DEF S
  <1>10. ASSUME line.kind = "section" PROVE OpenIn(M) = S \cup {n + 1}
    <2>1. \A j : j \in OpenIn(M) <=> j \in S \cup {n + 1}
      BY <1>3, <1>6, <1>7, <1>9, <1>10
    <2> QED BY <2>1
  <1>11. ASSUME line.kind \notin {"blank", "section"} PROVE OpenIn(M) = S
    <2>1. \A j : j \in OpenIn(M) <=> j \in S
      BY <1>3, <1>7, <1>9, <1>11
    <2> QED BY <2>1
  <1> QED BY <1>8, <1>10, <1>11 DEF M, S, Around

LEMMA ChildrenAfter ==
  ASSUME NEW L \in Seq(Line), NEW line \in Line, NEW S
  PROVE  /\ line.kind = "blank" => Within(Append(L, line), S) = Within(L, S)
         /\ line.kind # "blank" /\ S = Around(L, line) =>
              Within(Append(L, line), S) = Within(L, S) \cup {Len(L) + 1}
  <1> DEFINE n == Len(L)
             M == Append(L, line)
  <1>1. /\ n \in Nat /\ Len(M) = n + 1 /\ M[n + 1] = line
        /\ \A i \in 1 .. n : M[i] = L[i]
    BY OneMore
  <1>2. Inside(M, n + 1) = Around(L, line) /\ \A i \in 1 .. n : Inside(M, i) = Inside(L, i)
    BY InsideKept, InsideNew
  <1> HIDE DEF M
  <1>3. \A i \in 1 .. n : i \in Within(M, S) <=> i \in Within(L, S)
    BY <1>1, <1>2 DEF Within
  <1>4. Within(M, S) \subseteq 1 .. n + 1 /\ Within(L, S) \subseteq 1 .. n
    BY <1>1 DEF Within
  <1>5. \A i \in 1 .. n + 1 : i \in 1 .. n \/ i = n + 1
    BY <1>1
  <1>6. n + 1 \notin 1 .. n /\ n + 1 \in 1 .. n + 1
    BY <1>1
  <1>7. ASSUME line.kind = "blank" PROVE Within(M, S) = Within(L, S)
    <2>1. n + 1 \notin Within(M, S)
      BY <1>1, <1>7 DEF Within
    <2> QED BY <1>3, <1>4, <1>5, <2>1
  <1>8. ASSUME line.kind # "blank", S = Around(L, line) PROVE Within(M, S) = Within(L, S) \cup {n + 1}
    <2>1. n + 1 \in Within(M, S)
      BY <1>1, <1>2, <1>6, <1>8 DEF Within
    <2> QED BY <1>3, <1>4, <1>5, <1>6, <2>1
  <1> QED BY <1>7, <1>8 DEF M

LEMMA ChildrenFinite ==
  ASSUME NEW L \in Seq(Line), NEW S
  PROVE  IsFiniteSet(Within(L, S))
  <1>1. Len(L) \in Nat
    OBVIOUS
  <1>2. IsFiniteSet(1 .. Len(L))
    BY <1>1, FS_Interval
  <1>3. Within(L, S) \subseteq 1 .. Len(L)
    BY DEF Within
  <1> QED BY <1>2, <1>3, FS_Subset

----------------------------------------------------------------------------
(* The keys read before stay right. *)
LEMMA OldKeys ==
  ASSUME NEW L \in Seq(Line), NEW line \in Line, NEW M, M = Append(L, line),
         NEW key, KeyRight(L, key)
  PROVE  KeyRight(M, key)
  <1> DEFINE n == Len(L)
             i == key.line
  <1>0. i \in 1 .. n
    BY DEF KeyRight
  <1>1. /\ n \in Nat /\ Len(M) = n + 1
        /\ \A j \in 1 .. n : M[j] = L[j] /\ Inside(M, j) = Inside(L, j)
    BY OneMore, InsideKept
  <1>2. M[i] = L[i] /\ Inside(M, i) = Inside(L, i)
    BY <1>0, <1>1
  <1>3. \A S : \A j \in 1 .. n : j \in Within(M, S) <=> j \in Within(L, S)
    BY <1>1 DEF Within
  <1>4. \A S : OnlyItems(M, S) => OnlyItems(L, S)
    <2>1. \A S : \A j \in Within(L, S) : j \in 1 .. n
      BY DEF Within
    <2> QED BY <1>1, <1>3, <2>1 DEF OnlyItems
  <1>5. Before(M, i) = Before(L, i)
    <2>1. \A j \in 1 .. i - 1 : j \in 1 .. n
      BY <1>0, <1>1
    <2>2. \A j \in 1 .. i - 1 : j \in Within(M, Inside(M, i)) <=> j \in Within(L, Inside(L, i))
      BY <1>2, <1>3, <2>1
    <2> QED BY <2>2 DEF Before
  <1>6. OnlyItems(M, Inside(M, i)) => OnlyItems(L, Inside(L, i))
    BY <1>2, <1>4
  <1>7. i \in 1 .. Len(M)
    BY <1>0, <1>1
  <1> QED BY <1>2, <1>5, <1>6, <1>7 DEF KeyRight

(* A section that is left has its own section among its children: only the *)
(* innermost open section can hold nothing but items.                      *)
LEMMA ItemsInnermost ==
  ASSUME NEW L \in Seq(Line), NEW s, StackRight(L, s),
         NEW m \in 0 .. Len(s), OnlyItems(L, KeysTo(s, m))
  PROVE  m = Len(s)
  <1> SUFFICES ASSUME m # Len(s) PROVE FALSE
    OBVIOUS
  <1>1. Len(s) \in Nat
    BY DEF StackRight
  <1>2. m + 1 \in 1 .. Len(s) /\ m + 1 - 1 = m
    BY <1>1
  <1> DEFINE j == s[m + 1].key
  <1>3. j \in 1 .. Len(L) /\ L[j].kind = "section" /\ Inside(L, j) = KeysTo(s, m)
    BY <1>2 DEF StackRight
  <1>4. j \in Within(L, KeysTo(s, m))
    BY <1>3 DEF Within
  <1> QED BY <1>3, <1>4 DEF OnlyItems

(* A blank line changes nothing. *)
LEMMA BlankKeeps ==
  ASSUME NEW L \in Seq(Line), NEW line \in Line, NEW M, M = Append(L, line),
         line.kind = "blank", NEW s, NEW count, StackRight(L, s), ListRight(L, count)
  PROVE  StackRight(M, s) /\ ListRight(M, count)
  <1> DEFINE n == Len(L)
  <1>1. /\ n \in Nat /\ Len(M) = n + 1
        /\ \A j \in 1 .. n : M[j] = L[j] /\ Inside(M, j) = Inside(L, j)
    BY OneMore, InsideKept
  <1>2. OpenIn(M) = OpenIn(L)
    BY OpenAfter
  <1>3. \A S : Within(M, S) = Within(L, S)
    <2> TAKE S
    <2>1. Within(Append(L, line), S) = Within(L, S)
      BY ChildrenAfter
    <2> QED BY <2>1
  <1>4. StackRight(M, s)
    <2>1. \A m \in 1 .. Len(s) :
             /\ s[m].key \in 1 .. n /\ L[s[m].key].kind = "section"
             /\ s[m].indent = L[s[m].key].indent
             /\ Inside(L, s[m].key) = KeysTo(s, m - 1)
      BY DEF StackRight
    <2>2. \A m \in 1 .. Len(s) :
             /\ s[m].key \in 1 .. n + 1 /\ M[s[m].key].kind = "section"
             /\ s[m].indent = M[s[m].key].indent
             /\ Inside(M, s[m].key) = KeysTo(s, m - 1)
      BY <1>1, <2>1
    <2> QED BY <1>1, <1>2, <2>2 DEF StackRight
  <1>5. ListRight(M, count)
    <2>1. \A j \in Within(L, OpenIn(L)) : M[j] = L[j]
      BY <1>1 DEF Within
    <2>2. Within(M, OpenIn(M)) = Within(L, OpenIn(L))
      BY <1>2, <1>3
    <2>3. OnlyItems(M, OpenIn(M)) => OnlyItems(L, OpenIn(L))
      BY <2>1, <2>2 DEF OnlyItems
    <2>4. count \in 0 .. n + 1
      BY <1>1 DEF ListRight
    <2>5. OnlyItems(M, OpenIn(M)) => count = Cardinality(Within(M, OpenIn(M)))
      BY <2>2, <2>3 DEF ListRight
    <2> QED BY <1>1, <2>4, <2>5 DEF ListRight
  <1> QED BY <1>4, <1>5

----------------------------------------------------------------------------
(* A line with text: what is left of the stack is what encloses the line.  *)
(* `m' is the number of sections that stay open.                           *)
LEMMA LeftIsInside ==
  ASSUME NEW L \in Seq(Line), NEW line \in Line, NEW s, StackRight(L, s),
         NEW m \in 0 .. Len(s),
         \A x \in 1 .. m : s[x].indent < line.indent,
         \A x \in m + 1 .. Len(s) : ~(s[x].indent < line.indent)
  PROVE  KeysTo(s, m) = Around(L, line)
  <1>0. Len(s) \in Nat /\ m \in Nat
    BY DEF StackRight
  <1>1. \A x \in 1 .. Len(s) : L[s[x].key].indent = s[x].indent
    BY DEF StackRight
  <1>2. OpenIn(L) = {s[x].key : x \in 1 .. Len(s)}
    BY DEF StackRight, KeysTo
  <1>3. \A x \in 1 .. Len(s) : s[x].indent < line.indent <=> x \in 1 .. m
    <2> SUFFICES ASSUME NEW x \in 1 .. Len(s)
                 PROVE  s[x].indent < line.indent <=> x \in 1 .. m
      OBVIOUS
    <2>1. x \in 1 .. m \/ x \in m + 1 .. Len(s)
      BY <1>0
    <2>2. x \in m + 1 .. Len(s) => x \notin 1 .. m
      BY <1>0
    <2> QED BY <2>1, <2>2
  <1>4. 1 .. m \subseteq 1 .. Len(s)
    BY <1>0
  <1> QED BY <1>1, <1>2, <1>3, <1>4 DEF KeysTo, Around

LEMMA StackKeeps ==
  ASSUME NEW L \in Seq(Line), NEW line \in Line, NEW M, M = Append(L, line),
         line.kind # "blank", NEW s, StackRight(L, s), NEW m \in 0 .. Len(s),
         \A x \in 1 .. m : s[x].indent < line.indent,
         \A x \in m + 1 .. Len(s) : ~(s[x].indent < line.indent),
         NEW t,
         t = IF line.kind = "section"
               THEN Append(SubSeq(s, 1, m), [indent |-> line.indent, key |-> Len(L) + 1])
               ELSE SubSeq(s, 1, m)
  PROVE  StackRight(M, t)
  <1> DEFINE n == Len(L)
             E == Around(L, line)
             sections == SubSeq(s, 1, m)
  <1>1. /\ n \in Nat /\ Len(M) = n + 1 /\ M[n + 1] = line
        /\ \A j \in 1 .. n : M[j] = L[j] /\ Inside(M, j) = Inside(L, j)
        /\ Inside(M, n + 1) = E
    BY OneMore, InsideKept, InsideNew
  <1>2. /\ line.kind = "section" => OpenIn(M) = E \cup {n + 1}
        /\ line.kind # "section" => OpenIn(M) = E
    BY OpenAfter
  <1>3. KeysTo(s, m) = E
    BY LeftIsInside
  <1>4. line.indent \in Nat
    BY ConfigAssumption DEF Line
  <1>5. /\ s \in Seq(Entry) /\ Len(s) \in Nat /\ m \in Nat
    BY DEF StackRight
  <1>6. /\ sections \in Seq(Entry) /\ Len(sections) = m
        /\ \A x \in 1 .. m : sections[x] = s[x]
    BY <1>5
  <1> HIDE DEF E, sections
  <1>7. /\ t \in Seq(Entry)
        /\ Len(t) = IF line.kind = "section" THEN m + 1 ELSE m
        /\ \A x \in 1 .. m : t[x] = s[x]
        /\ line.kind = "section" => t[m + 1].indent = line.indent /\ t[m + 1].key = n + 1
    <2>1. [indent |-> line.indent, key |-> n + 1] \in Entry
      BY <1>1, <1>4 DEF Entry
    <2>2. CASE line.kind = "section"
      <3>1. t = Append(sections, [indent |-> line.indent, key |-> n + 1])
        BY <2>2 DEF sections
      <3> QED BY <1>6, <2>1, <2>2, <3>1
    <2>3. CASE line.kind # "section"
      <3>1. t = sections
        BY <2>3 DEF sections
      <3> QED BY <1>6, <2>3, <3>1
    <2> QED BY <2>2, <2>3
  <1>8. \A x \in 0 .. m : KeysTo(t, x) = KeysTo(s, x)
    <2>1. \A x \in 0 .. m : \A y \in 1 .. x : t[y] = s[y]
      BY <1>5, <1>7
    <2>2. ASSUME NEW x \in 0 .. m PROVE KeysTo(t, x) = KeysTo(s, x)
      <3>1. \A y \in 1 .. x : t[y].key = s[y].key
        BY <2>1
      <3>2. {t[y].key : y \in 1 .. x} \subseteq {s[y].key : y \in 1 .. x}
        BY <3>1, Zenon
      <3>3. {s[y].key : y \in 1 .. x} \subseteq {t[y].key : y \in 1 .. x}
        BY <3>1, Zenon
      <3> QED BY <3>2, <3>3, Zenon DEF KeysTo
    <2> QED BY <2>2
  <1>9. \A x \in 1 .. m :
           /\ t[x].key \in 1 .. n /\ t[x].key \in 1 .. n + 1
           /\ M[t[x].key].kind = "section"
           /\ t[x].indent = M[t[x].key].indent
           /\ Inside(M, t[x].key) = KeysTo(t, x - 1)
           /\ t[x].indent < line.indent
    <2> SUFFICES ASSUME NEW x \in 1 .. m
                 PROVE  /\ t[x].key \in 1 .. n /\ t[x].key \in 1 .. n + 1
                        /\ M[t[x].key].kind = "section"
                        /\ t[x].indent = M[t[x].key].indent
                        /\ Inside(M, t[x].key) = KeysTo(t, x - 1)
                        /\ t[x].indent < line.indent
      OBVIOUS
    <2>1. x \in 1 .. Len(s) /\ x - 1 \in 0 .. m
      BY <1>5
    <2>2. /\ s[x].key \in 1 .. n /\ L[s[x].key].kind = "section"
          /\ s[x].indent = L[s[x].key].indent
          /\ Inside(L, s[x].key) = KeysTo(s, x - 1)
      BY <2>1 DEF StackRight
    <2>3. t[x] = s[x] /\ s[x].indent < line.indent
      BY <1>7
    <2>4. s[x].key \in 1 .. n + 1
      BY <1>1, <2>2
    <2>5. Inside(M, s[x].key) = Inside(L, s[x].key) /\ M[s[x].key] = L[s[x].key]
      BY <1>1, <2>2
    <2> QED BY <1>8, <2>1, <2>2, <2>3, <2>4, <2>5
  <1>10. \A x, y \in 1 .. m : x < y => t[x].key < t[y].key /\ t[x].indent < t[y].indent
    <2>1. \A x \in 1 .. m : x \in 1 .. Len(s)
      BY <1>5
    <2>2. \A x, y \in 1 .. Len(s) : x < y => s[x].key < s[y].key /\ s[x].indent < s[y].indent
      BY DEF StackRight
    <2> QED BY <1>7, <2>1, <2>2
  <1>11. CASE line.kind # "section"
    <2>1. Len(t) = m /\ KeysTo(t, Len(t)) = OpenIn(M)
      BY <1>2, <1>3, <1>5, <1>7, <1>8, <1>11
    <2> QED BY <1>1, <1>7, <1>9, <1>10, <2>1 DEF StackRight
  <1>12. CASE line.kind = "section"
    <2>1. Len(t) = m + 1 /\ m + 1 - 1 = m /\ m \in 0 .. m
      BY <1>5, <1>7, <1>12
    <2>2. KeysTo(t, m + 1) = KeysTo(t, m) \cup {n + 1}
      <3>1. 1 .. m + 1 = (1 .. m) \cup {m + 1}
        BY <1>5
      <3> QED BY <1>7, <1>12, <3>1 DEF KeysTo
    <2>3. KeysTo(t, Len(t)) = OpenIn(M)
      BY <1>2, <1>3, <1>8, <1>12, <2>1, <2>2
    <2>4. Inside(M, t[m + 1].key) = KeysTo(t, m + 1 - 1)
      BY <1>1, <1>3, <1>7, <1>8, <1>12, <2>1
    <2>5. /\ t[m + 1].key \in 1 .. n + 1 /\ M[t[m + 1].key].kind = "section"
          /\ t[m + 1].indent = M[t[m + 1].key].indent
      BY <1>1, <1>7, <1>12
    <2>6. \A x \in 1 .. m : t[x].key < t[m + 1].key /\ t[x].indent < t[m + 1].indent
      <3> SUFFICES ASSUME NEW x \in 1 .. m
                   PROVE  t[x].key < t[m + 1].key /\ t[x].indent < t[m + 1].indent
        OBVIOUS
      <3>1. t[x].key \in 1 .. n /\ t[x].indent < line.indent
        BY <1>9
      <3>2. t[m + 1].key = n + 1 /\ t[m + 1].indent = line.indent
        BY <1>7, <1>12
      <3>3. t[x].key < n + 1
        BY <1>1, <3>1
      <3>4. t[x].indent < t[m + 1].indent
        BY <3>1, <3>2, Zenon
      <3> QED BY <3>2, <3>3, <3>4
    <2>7. \A x \in 1 .. m + 1 : x \in 1 .. m \/ x = m + 1
      BY <1>5
    <2>8. \A x \in 1 .. m + 1 :
             /\ t[x].key \in 1 .. n + 1 /\ M[t[x].key].kind = "section"
             /\ t[x].indent = M[t[x].key].indent
             /\ Inside(M, t[x].key) = KeysTo(t, x - 1)
      <3> SUFFICES ASSUME NEW x \in 1 .. m + 1
                   PROVE  /\ t[x].key \in 1 .. n + 1 /\ M[t[x].key].kind = "section"
                          /\ t[x].indent = M[t[x].key].indent
                          /\ Inside(M, t[x].key) = KeysTo(t, x - 1)
        OBVIOUS
      <3>1. CASE x \in 1 .. m
        BY <1>9, <3>1
      <3>2. CASE x = m + 1
        <4>1. /\ t[m + 1].key \in 1 .. n + 1 /\ M[t[m + 1].key].kind = "section"
              /\ t[m + 1].indent = M[t[m + 1].key].indent
              /\ Inside(M, t[m + 1].key) = KeysTo(t, m + 1 - 1)
          BY <2>4, <2>5
        <4>2. t[x] = t[m + 1] /\ x - 1 = m + 1 - 1
          BY <3>2
        <4>3. /\ t[x].key \in 1 .. n + 1 /\ M[t[x].key].kind = "section"
              /\ t[x].indent = M[t[x].key].indent
          BY <4>1, <4>2
        <4>4. Inside(M, t[x].key) = KeysTo(t, x - 1)
          BY <4>1, <4>2, Zenon
        <4> QED BY <4>3, <4>4
      <3> QED BY <2>7, <3>1, <3>2
    <2>9. \A x, y \in 1 .. m + 1 :
             x < y => t[x].key < t[y].key /\ t[x].indent < t[y].indent
      <3> SUFFICES ASSUME NEW x \in 1 .. m + 1, NEW y \in 1 .. m + 1, x < y
                   PROVE  t[x].key < t[y].key /\ t[x].indent < t[y].indent
        OBVIOUS
      <3>1. x \in 1 .. m /\ (y \in 1 .. m \/ y = m + 1)
        BY <1>5
      <3> QED BY <1>10, <2>6, <3>1
    <2> QED BY <1>1, <1>7, <2>1, <2>3, <2>8, <2>9 DEF StackRight
  <1> QED BY <1>11, <1>12

(* The new line is one more among those beside it, and if they are items   *)
(* only, those before it have all been counted.                            *)
LEMMA NewChild ==
  ASSUME NEW L \in Seq(Line), NEW line \in Line, line.kind # "blank",
         NEW E, E = Around(L, line)
  PROVE  /\ Within(Append(L, line), E) = Within(L, E) \cup {Len(L) + 1}
         /\ Within(L, E) \subseteq 1 .. Len(L)
         /\ Cardinality(Within(Append(L, line), E)) = Cardinality(Within(L, E)) + 1
  <1>1. Len(L) \in Nat
    OBVIOUS
  <1>2. Within(Append(L, line), E) = Within(L, E) \cup {Len(L) + 1}
    BY ChildrenAfter
  <1>3. Within(L, E) \subseteq 1 .. Len(L)
    BY DEF Within
  <1>4. IsFiniteSet(Within(L, E))
    BY ChildrenFinite
  <1>5. Len(L) + 1 \notin Within(L, E)
    BY <1>1, <1>3
  <1> QED BY <1>2, <1>3, <1>4, <1>5, FS_AddElement, ZenonT(30)

LEMMA ItemsCounted ==
  ASSUME NEW L \in Seq(Line), NEW line \in Line, line.kind # "blank",
         NEW M, M = Append(L, line), NEW s, StackRight(L, s), NEW count, ListRight(L, count),
         NEW m \in 0 .. Len(s),
         \A x \in 1 .. m : s[x].indent < line.indent,
         \A x \in m + 1 .. Len(s) : ~(s[x].indent < line.indent),
         NEW E, E = Around(L, line), OnlyItems(M, E)
  PROVE  count = Cardinality(Within(L, E))
  <1> DEFINE n == Len(L)
  <1>1. \A j \in 1 .. n : M[j] = L[j]
    BY OneMore
  <1>2. E = KeysTo(s, m)
    BY LeftIsInside, Zenon
  <1>3. Within(M, E) = Within(L, E) \cup {n + 1} /\ Within(L, E) \subseteq 1 .. n
    BY NewChild
  <1>4. OnlyItems(L, E)
    BY <1>1, <1>3 DEF OnlyItems
  <1>5. m = Len(s)
    BY <1>2, <1>4, ItemsInnermost
  <1>6. KeysTo(s, Len(s)) = OpenIn(L)
    BY DEF StackRight
  <1> QED BY <1>2, <1>4, <1>5, <1>6 DEF ListRight

LEMMA ListKeeps ==
  ASSUME NEW L \in Seq(Line), NEW line \in Line, NEW M, M = Append(L, line),
         line.kind # "blank", NEW s, StackRight(L, s), NEW count, ListRight(L, count),
         NEW m \in 0 .. Len(s),
         \A x \in 1 .. m : s[x].indent < line.indent,
         \A x \in m + 1 .. Len(s) : ~(s[x].indent < line.indent),
         NEW next, next = IF line.kind = "item" THEN count + 1 ELSE 0
  PROVE  ListRight(M, next)
  <1> DEFINE n == Len(L)
             E == Around(L, line)
  <1>1. n \in Nat /\ Len(M) = n + 1 /\ M[n + 1] = line
    BY OneMore
  <1>2. /\ line.kind = "section" => OpenIn(M) = E \cup {n + 1}
        /\ line.kind # "section" => OpenIn(M) = E
    BY OpenAfter
  <1>3. /\ Within(M, E) = Within(L, E) \cup {n + 1}
        /\ Cardinality(Within(M, E)) = Cardinality(Within(L, E)) + 1
        /\ OnlyItems(M, E) => count = Cardinality(Within(L, E))
    <2>1. /\ Within(M, E) = Within(L, E) \cup {n + 1}
          /\ Cardinality(Within(M, E)) = Cardinality(Within(L, E)) + 1
      BY NewChild
    <2>2. OnlyItems(M, E) => count = Cardinality(Within(L, E))
      BY ItemsCounted, Zenon
    <2> QED BY <2>1, <2>2
  <1>4. count \in 0 .. n
    BY DEF ListRight
  <1>5. next \in 0 .. n + 1
    BY <1>1, <1>4
  <1> HIDE DEF E
  <1>6. CASE line.kind = "item"
    <2>1. OpenIn(M) = E
      BY <1>2, <1>6
    <2> QED BY <1>1, <1>3, <1>5, <1>6, <2>1 DEF ListRight
  <1>7. CASE line.kind = "section"
    <2>1. OpenIn(M) = E \cup {n + 1}
      BY <1>2, <1>7
    <2>2. Within(M, E \cup {n + 1}) = {}
      <3> SUFFICES ASSUME NEW i \in 1 .. n + 1, Inside(M, i) = E \cup {n + 1} PROVE FALSE
        BY <1>1 DEF Within
      <3>1. n + 1 \in Inside(M, i)
        OBVIOUS
      <3>2. Inside(M, i) \subseteq 1 .. i - 1
        BY DEF Inside
      <3>3. n + 1 \in 1 .. i - 1
        BY <3>1, <3>2
      <3> QED BY <1>1, <3>3
    <2>3. next = 0
      BY <1>7
    <2> QED BY <1>1, <1>5, <2>1, <2>2, <2>3, FS_EmptySet DEF ListRight
  <1>8. CASE line.kind \notin {"item", "section"}
    <2>1. OpenIn(M) = E
      BY <1>2, <1>8
    <2>2. ~OnlyItems(M, OpenIn(M))
      BY <1>1, <1>3, <1>8, <2>1 DEF OnlyItems
    <2> QED BY <1>1, <1>5, <2>2 DEF ListRight
  <1> QED BY <1>6, <1>7, <1>8

(* The key of a line that has one. *)
LEMMA KeyIsRight ==
  ASSUME NEW L \in Seq(Line), NEW line \in Line, NEW M, M = Append(L, line),
         line.kind \in {"item", "value"}, NEW s, StackRight(L, s), NEW count, ListRight(L, count),
         NEW m \in 0 .. Len(s),
         \A x \in 1 .. m : s[x].indent < line.indent,
         \A x \in m + 1 .. Len(s) : ~(s[x].indent < line.indent),
         NEW key,
         key = [line |-> Len(L) + 1, path |-> Keys(SubSeq(s, 1, m)),
                last |-> IF line.kind = "item" THEN count ELSE Len(L) + 1]
  PROVE  key \in FlatKeys /\ KeyRight(M, key)
  <1> DEFINE n == Len(L)
             E == Around(L, line)
             last == IF line.kind = "item" THEN count ELSE n + 1
             path == Keys(SubSeq(s, 1, m))
  <1>1. n \in Nat /\ Len(M) = n + 1 /\ M[n + 1] = line
    BY OneMore
  <1>2. /\ E = KeysTo(s, m) /\ E = Inside(M, n + 1)
        /\ OnlyItems(M, E) => count = Cardinality(Within(L, E))
        /\ Within(M, E) = Within(L, E) \cup {n + 1}
        /\ Within(L, E) \subseteq 1 .. n
    <2>1. line.kind # "blank"
      OBVIOUS
    <2>2. E = KeysTo(s, m)
      BY LeftIsInside, Zenon
    <2>3. E = Inside(M, n + 1)
      BY InsideNew
    <2>4. OnlyItems(M, E) => count = Cardinality(Within(L, E))
      BY <2>1, ItemsCounted, Zenon
    <2>5. Within(M, E) = Within(L, E) \cup {n + 1} /\ Within(L, E) \subseteq 1 .. n
      BY <2>1, NewChild
    <2> QED BY <2>2, <2>3, <2>4, <2>5
  <1>3. count \in 0 .. n /\ s \in Seq(Entry) /\ Len(s) \in Nat /\ m \in Nat
    BY DEF ListRight, StackRight
  <1>4. last \in Nat
    BY <1>1, <1>3
  <1>5. path = [x \in 1 .. m |-> s[x].key]
    BY <1>3 DEF Keys
  <1>6. \A x \in 1 .. m : x \in 1 .. Len(s) /\ s[x].key \in Nat
    <2>1. \A x \in 1 .. m : x \in 1 .. Len(s)
      BY <1>3
    <2>2. \A x \in 1 .. Len(s) : s[x] \in Entry
      BY <1>3
    <2> QED BY <2>1, <2>2 DEF Entry
  <1> HIDE DEF E, last, path
  <1>7. path \in Seq(Nat) /\ Len(path) = m
    BY <1>3, <1>5, <1>6
  <1>8. key = [line |-> n + 1, path |-> path, last |-> last]
    BY DEF last, path
  <1>9. key \in FlatKeys
    BY <1>1, <1>4, <1>7, <1>8 DEF FlatKeys
  <1>10. Range(path) = E
    <2>1. Range(path) = {s[x].key : x \in 1 .. m}
      BY <1>5 DEF Range
    <2> QED BY <1>2, <2>1 DEF KeysTo
  <1>11. \A a, b \in 1 .. Len(path) : a < b => path[a] < path[b]
    <2>1. \A a, b \in 1 .. Len(s) : a < b => s[a].key < s[b].key
      BY DEF StackRight
    <2>2. \A a \in 1 .. m : path[a] = s[a].key
      BY <1>5
    <2> QED BY <1>6, <1>7, <2>1, <2>2
  <1>12. Before(M, n + 1) = Within(L, E)
    <2>1. Before(M, n + 1) = {k \in 1 .. n + 1 - 1 : k \in Within(M, E)}
      BY <1>2 DEF Before
    <2>2. n + 1 - 1 = n /\ \A k \in 1 .. n : k # n + 1
      BY <1>1
    <2> QED BY <1>2, <2>1, <2>2
  <1>13. last = IF line.kind = "value" THEN n + 1
                ELSE IF OnlyItems(M, E) THEN Cardinality(Before(M, n + 1)) ELSE last
    BY <1>2, <1>12 DEF last
  <1>14. key.line = n + 1 /\ key.path = path /\ key.last = last
    BY <1>8
  <1>15. n + 1 \in 1 .. Len(M)
    BY <1>1
  <1>16. KeyRight(M, key)
    <2>1. /\ Range(key.path) = Inside(M, key.line) /\ key.line \in 1 .. Len(M)
          /\ \A a, b \in 1 .. Len(key.path) : a < b => key.path[a] < key.path[b]
      BY <1>10, <1>11, <1>14, <1>15, <1>2
    <2>2. key.last =
            IF M[key.line].kind = "value" THEN key.line
            ELSE IF OnlyItems(M, Inside(M, key.line)) THEN Cardinality(Before(M, key.line)) ELSE key.last
      BY <1>1, <1>2, <1>13, <1>14
    <2> QED BY <2>1, <2>2 DEF KeyRight
  <1> QED BY <1>9, <1>16

----------------------------------------------------------------------------
LEMMA YamlInit == ConfigInit => YamlInv
  <1> SUFFICES ASSUME ConfigInit PROVE YamlInv
    OBVIOUS
  <1>1. lines = <<>> /\ stack = <<>> /\ listIndex = 0 /\ flat = <<>>
    BY DEF ConfigInit
  <1>2. OpenIn(<<>>) = {} /\ KeysTo(<<>>, 0) = {} /\ \A S : Within(<<>>, S) = {}
    BY DEF OpenIn, KeysTo, Within
  <1>3. StackRight(<<>>, <<>>)
    BY <1>2 DEF StackRight
  <1>4. ListRight(<<>>, 0)
    BY <1>2, FS_EmptySet DEF ListRight
  <1>5. FlatRight(<<>>, <<>>)
    BY DEF FlatRight
  <1> QED BY <1>1, <1>3, <1>4, <1>5, ConfigAssumption DEF YamlInv

LEMMA YamlStep ==
  ASSUME YamlInv, NEW line \in Line, ReadLine(line)
  PROVE  YamlInv'
  <1>0. /\ lines \in Seq(Line) /\ Len(lines) < MaxLines /\ lines' = Append(lines, line)
        /\ StackRight(lines, stack) /\ ListRight(lines, listIndex) /\ FlatRight(lines, flat)
    BY DEF YamlInv, ReadLine
  <1>1. lines' \in Seq(Line) /\ Len(lines') <= MaxLines
    BY <1>0, ConfigAssumption
  <1>2. \A k \in 1 .. Len(flat) : KeyRight(lines', flat[k])
    BY <1>0, OldKeys DEF FlatRight
  <1>3. flat \in Seq(FlatKeys)
    BY <1>0 DEF FlatRight
  <1>4. CASE line.kind = "blank"
    <2>1. stack' = stack /\ listIndex' = listIndex /\ flat' = flat
      BY <1>4 DEF ReadLine
    <2>2. StackRight(lines', stack) /\ ListRight(lines', listIndex)
      BY <1>0, <1>4, BlankKeeps
    <2>3. FlatRight(lines', flat)
      BY <1>2, <1>3 DEF FlatRight
    <2> QED BY <1>1, <2>1, <2>2, <2>3 DEF YamlInv
  <1>5. CASE line.kind # "blank"
    <2>1. line.indent \in Nat
      BY ConfigAssumption DEF Line
    <2>2. /\ stack \in Seq(Entry)
          /\ \A m, n \in 1 .. Len(stack) : m < n => stack[m].indent < stack[n].indent
      BY <1>0 DEF StackRight
    <2>3. PICK m \in 0 .. Len(stack) :
              /\ StillOpen(line.indent) = SubSeq(stack, 1, m)
              /\ \A x \in 1 .. m : stack[x].indent < line.indent
              /\ \A x \in m + 1 .. Len(stack) : ~(stack[x].indent < line.indent)
      BY <2>1, <2>2, StillOpenIs
    <2> DEFINE sections == SubSeq(stack, 1, m)
    <2>4. /\ listIndex' = IF line.kind = "item" THEN listIndex + 1 ELSE 0
          /\ stack' = IF line.kind = "section"
                        THEN Append(sections, [indent |-> line.indent, key |-> Len(lines) + 1])
                        ELSE sections
          /\ flat' = CASE line.kind = "item"  -> Append(flat, FlatKey(sections, listIndex))
                       [] line.kind = "value" -> Append(flat, FlatKey(sections, Len(lines) + 1))
                       [] OTHER               -> flat
      BY <1>5, <2>3 DEF ReadLine
    <2>5. StackRight(lines', stack')
      BY <1>0, <1>5, <2>3, <2>4, StackKeeps
    <2>6. ListRight(lines', listIndex')
      BY <1>0, <1>5, <2>3, <2>4, ListKeeps
    <2>7. FlatRight(lines', flat')
      <3>1. CASE line.kind \notin {"item", "value"}
        <4>1. flat' = flat
          BY <2>4, <3>1
        <4> QED BY <1>2, <1>3, <4>1 DEF FlatRight
      <3>2. CASE line.kind \in {"item", "value"}
        <4> DEFINE new == [line |-> Len(lines) + 1, path |-> Keys(sections),
                           last |-> IF line.kind = "item" THEN listIndex ELSE Len(lines) + 1]
        <4>1. new \in FlatKeys /\ KeyRight(lines', new)
          BY <1>0, <2>3, <3>2, KeyIsRight
        <4>2. flat' = Append(flat, new)
          BY <2>4, <3>2 DEF FlatKey
        <4> HIDE DEF new
        <4>3. /\ flat' \in Seq(FlatKeys) /\ Len(flat') = Len(flat) + 1 /\ Len(flat) \in Nat
              /\ flat'[Len(flat) + 1] = new /\ \A k \in 1 .. Len(flat) : flat'[k] = flat[k]
          BY <1>3, <4>1, <4>2
        <4>4. \A k \in 1 .. Len(flat') : k \in 1 .. Len(flat) \/ k = Len(flat) + 1
          BY <4>3
        <4>5. \A k \in 1 .. Len(flat') : KeyRight(lines', flat'[k])
          BY <1>2, <4>1, <4>3, <4>4
        <4> QED BY <4>3, <4>5 DEF FlatRight
      <3> QED BY <3>1, <3>2
    <2> QED BY <1>1, <2>5, <2>6, <2>7 DEF YamlInv
  <1> QED BY <1>4, <1>5

LEMMA YamlTellsPaths == YamlInv => KeysArePaths
  <1> SUFFICES ASSUME YamlInv, NEW k \in 1 .. Len(flat),
                      NEW i, i = flat[k].line
               PROVE  /\ Range(flat[k].path) = Enclosing(i)
                      /\ \A m, n \in 1 .. Len(flat[k].path) :
                           m < n => flat[k].path[m] < flat[k].path[n]
                      /\ flat[k].last =
                           IF lines[i].kind = "value" THEN i
                           ELSE IF \A j \in Children(Enclosing(i)) : lines[j].kind = "item"
                                  THEN Cardinality(ItemsBefore(i))
                                  ELSE flat[k].last
    BY DEF KeysArePaths
  <1>1. KeyRight(lines, flat[k])
    BY DEF YamlInv, FlatRight
  <1>2. \A x : Enclosing(x) = Inside(lines, x)
    BY DEF Enclosing, Encloses, Inside
  <1>3. \A S : Children(S) = Within(lines, S)
    BY <1>2 DEF Children, Within
  <1>4. ItemsBefore(i) = Before(lines, i)
    BY <1>2, <1>3 DEF ItemsBefore, Before
  <1>5. (\A j \in Children(Enclosing(i)) : lines[j].kind = "item")
          <=> OnlyItems(lines, Inside(lines, i))
    BY <1>2, <1>3 DEF OnlyItems
  <1> QED BY <1>1, <1>2, <1>4, <1>5 DEF KeyRight

(* parseSimpleYaml finds every value under the path of its sections, for   *)
(* any lines in any number, and numbers the elements of every list.        *)
THEOREM PathsAreRight == ConfigSpec => []KeysArePaths
  <1>1. ConfigInit => YamlInv
    BY YamlInit
  <1>2. YamlInv /\ [ConfigNext]_<<yamlVars, settingsVars>> => YamlInv'
    <2> SUFFICES ASSUME YamlInv, [ConfigNext]_<<yamlVars, settingsVars>> PROVE YamlInv'
      OBVIOUS
    <2>1. CASE YamlNext
      BY <2>1, YamlStep DEF YamlNext
    <2>2. CASE UNCHANGED yamlVars
      BY <2>2 DEF yamlVars, YamlInv
    <2> QED BY <2>1, <2>2 DEF ConfigNext
  <1>3. YamlInv => KeysArePaths
    BY YamlTellsPaths
  <1> QED BY <1>1, <1>2, <1>3, PTL DEF ConfigSpec

----------------------------------------------------------------------------
(* The settings in memory: what one load or the other has left there. *)
Setting == [load : 0 .. MaxLoads, valid : BOOLEAN]
SettingsInv ==
    /\ loads \in 0 .. MaxLoads
    /\ named \in [Names -> 0 .. loads]
    /\ settings = <<>> \/ settings \in [1 .. Len(Sections) -> Setting]
    /\ AcceptedIsWhole

LEMMA SettingsInit == ConfigInit => SettingsInv
  BY ConfigAssumption DEF ConfigInit, SettingsInv, AcceptedIsWhole

LEMMA SettingsStep ==
  ASSUME SettingsInv, NEW dir \in Directories, LoadAll(dir)
  PROVE  SettingsInv'
  <1> DEFINE N == Len(Sections)
  <1>0. N = 5
    BY DEF Sections
  <1>1. loads \in Nat /\ loads + 1 \in 0 .. MaxLoads /\ loads' = loads + 1
    BY ConfigAssumption DEF SettingsInv, LoadAll
  <1>2. named' \in [Names -> 0 .. loads']
    <2>1. named' = [n \in Names |-> IF n \in dir.names /\ 2 \in TakenOver(dir) THEN loads + 1
                                   ELSE named[n]]
      BY DEF LoadAll
    <2>2. \A n \in Names : named[n] \in 0 .. loads
      BY DEF SettingsInv
    <2> HIDE DEF N
    <2>3. \A n \in Names : named[n] \in 0 .. loads + 1
      BY <1>1, <2>2
    <2>4. loads + 1 \in 0 .. loads + 1
      BY <1>1
    <2> QED BY <1>1, <2>1, <2>3, <2>4
  <1>3. settings' \in [1 .. N -> Setting]
    <2>1. settings' = [i \in 1 .. N |->
             IF i \in TakenOver(dir) THEN [load |-> loads + 1, valid |-> Sections[i] # dir.invalid]
             ELSE IF settings = <<>> THEN [load |-> 0, valid |-> FALSE] ELSE settings[i]]
      BY DEF LoadAll, AfterLoad
    <2> HIDE DEF N
    <2>2. \A i : [load |-> loads + 1, valid |-> Sections[i] # dir.invalid] \in Setting
      BY <1>1 DEF Setting
    <2>3. [load |-> 0, valid |-> FALSE] \in Setting
      BY ConfigAssumption DEF Setting
    <2>4. settings # <<>> => \A i \in 1 .. N : settings[i] \in Setting
      BY DEF SettingsInv, N
    <2> QED BY <2>1, <2>2, <2>3, <2>4
  <1>4. AcceptedIsWhole'
    <2> SUFFICES ASSUME NEW d \in acceptedDir'
                 PROVE  /\ \A i \in 1 .. N :
                             settings'[i].load = loads' /\ (settings'[i].valid \/ Sections[i] = "mode")
                        /\ \A n \in Names : (named'[n] = loads') <=> (n \in d.names)
      BY DEF AcceptedIsWhole
    <2>1. d = dir /\ TakenOver(dir) = 1 .. N /\ dir.invalid \notin Checks
      BY DEF LoadAll
    <2>2. \A i \in 1 .. N : settings'[i] = [load |-> loads + 1, valid |-> Sections[i] # dir.invalid]
      BY <2>1 DEF LoadAll, AfterLoad
    <2>3. \A i \in 1 .. N : Sections[i] # dir.invalid \/ Sections[i] = "mode"
      <3>1. \A i \in 1 .. N : Sections[i] \in SectionNames
        BY DEF SectionNames, Range, Sections
      <3> QED BY <2>1, <3>1 DEF Checks
    <2>4. \A i \in 1 .. N : settings'[i].load = loads' /\ (settings'[i].valid \/ Sections[i] = "mode")
      <3> HIDE DEF N
      <3> SUFFICES ASSUME NEW i \in 1 .. N
                   PROVE  settings'[i].load = loads' /\ (settings'[i].valid \/ Sections[i] = "mode")
        OBVIOUS
      <3> DEFINE ok == Sections[i] # dir.invalid
      <3>1. settings'[i] = [load |-> loads + 1, valid |-> ok]
        BY <2>2
      <3>2. ok \/ Sections[i] = "mode"
        BY <2>3
      <3> HIDE DEF ok
      <3>3. settings'[i].load = loads + 1
        BY <3>1
      <3>4. settings'[i].valid = ok
        BY <3>1
      <3> QED BY <1>1, <3>2, <3>3, <3>4, Zenon
    <2>5. \A n \in Names : (named'[n] = loads') <=> (n \in d.names)
      <3> SUFFICES ASSUME NEW n \in Names PROVE (named'[n] = loads') <=> (n \in d.names)
        OBVIOUS
      <3>1. 2 \in TakenOver(dir)
        BY <1>0, <2>1
      <3>2. named'[n] = IF n \in dir.names THEN loads + 1 ELSE named[n]
        BY <3>1 DEF LoadAll
      <3>3. named[n] \in 0 .. loads
        BY DEF SettingsInv
      <3>4. named[n] # loads + 1
        BY <1>1, <3>3
      <3> QED BY <1>1, <2>1, <3>2, <3>4
    <2> QED BY <2>4, <2>5
  <1> QED BY <1>1, <1>2, <1>3, <1>4 DEF SettingsInv

(* A configuration that loadAll() accepts is valid and of one directory,   *)
(* whatever an earlier load, one that failed half-way included, has left.  *)
THEOREM AcceptedSettings == ConfigSpec => []SettingsSafe
  <1>1. ConfigInit => YamlInv /\ SettingsInv
    BY YamlInit, SettingsInit
  <1>2. YamlInv /\ SettingsInv /\ [ConfigNext]_<<yamlVars, settingsVars>>
          => YamlInv' /\ SettingsInv'
    <2> SUFFICES ASSUME YamlInv, SettingsInv, [ConfigNext]_<<yamlVars, settingsVars>>
                 PROVE  YamlInv' /\ SettingsInv'
      OBVIOUS
    <2>1. CASE YamlNext /\ UNCHANGED settingsVars
      <3>1. YamlInv'
        BY <2>1, YamlStep DEF YamlNext
      <3> QED BY <2>1, <3>1 DEF settingsVars, SettingsInv, AcceptedIsWhole
    <2>2. CASE SettingsNext /\ UNCHANGED yamlVars
      <3>1. SettingsInv'
        BY <2>2, SettingsStep DEF SettingsNext
      <3> QED BY <2>2, <3>1 DEF yamlVars, YamlInv
    <2>3. CASE UNCHANGED <<yamlVars, settingsVars>>
      BY <2>3 DEF yamlVars, YamlInv, settingsVars, SettingsInv, AcceptedIsWhole
    <2> QED BY <2>1, <2>2, <2>3 DEF ConfigNext
  <1>3. YamlInv /\ SettingsInv => SettingsSafe
    <2> SUFFICES ASSUME YamlInv, SettingsInv PROVE ConfigTypeOK
      BY DEF SettingsSafe, SettingsInv
    <2>1. lines \in Seq(Line) /\ Len(lines) <= MaxLines /\ listIndex \in 0 .. Len(lines)
      BY DEF YamlInv, ListRight
    <2>2. listIndex \in 0 .. MaxLines
      BY <2>1, ConfigAssumption
    <2>3. loads \in 0 .. MaxLoads /\ named \in [Names -> 0 .. loads]
      BY DEF SettingsInv
    <2>4. named \in [Names -> 0 .. MaxLoads]
      <3>1. \A x \in 0 .. loads : x \in 0 .. MaxLoads
        BY <2>3, ConfigAssumption
      <3> QED BY <2>3, <3>1
    <2>5. Len(settings) \in {0, Len(Sections)}
      <3>1. CASE settings = <<>>
        BY <3>1
      <3>2. CASE settings \in [1 .. Len(Sections) -> Setting]
        <4>1. Len(Sections) \in Nat
          BY DEF Sections
        <4>2. Len(settings) = Len(Sections)
          BY <3>2, <4>1, LenProperties
        <4> QED BY <4>2
      <3> QED BY <3>1, <3>2 DEF SettingsInv
    <2> QED BY <2>1, <2>2, <2>3, <2>4, <2>5 DEF ConfigTypeOK
  <1> QED BY <1>1, <1>2, <1>3, PTL DEF ConfigSpec
=============================================================================
