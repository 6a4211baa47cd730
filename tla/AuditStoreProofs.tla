--------------------------- MODULE AuditStoreProofs ---------------------------
(***************************************************************************)
(* For any stores, artifacts and bundles: the database is well typed, its  *)
(* rows and log entries are never changed, the log is one chain whose      *)
(* entries refer to stored records, and what put and import acknowledged   *)
(* stays stored.                                                           *)
(***************************************************************************)
EXTENDS AuditBundle, SequenceTheorems, TLAPS

(* A sequence cut at its head loses exactly that.                           *)
LEMMA TailFacts ==
  ASSUME NEW S, NEW s \in Seq(S), s # <<>>
  PROVE  /\ Head(s) \in S /\ Head(s) = s[1] /\ Len(s) \in Nat \ {0}
         /\ Tail(s) \in Seq(S) /\ Len(Tail(s)) = Len(s) - 1
         /\ \A j \in 1..Len(Tail(s)) : Tail(s)[j] = s[j + 1]
         /\ Len(s) > 1 => Tail(s) # <<>>
<1>1. Head(s) \in S /\ Tail(s) \in Seq(S) /\ Len(Tail(s)) = Len(s) - 1
  BY HeadTailProperties
<1>2. \A j \in 1..Len(Tail(s)) : Tail(s)[j] = s[j + 1]
  BY HeadTailProperties
<1>3. Len(s) \in Nat \ {0}
  BY EmptySeq
<1>4. Head(s) = s[1]
  OBVIOUS
<1>5. Len(s) > 1 => Tail(s) # <<>>
  <2>1. Len(s) > 1 => Len(Tail(s)) # 0
    BY <1>1, <1>3
  <2> QED BY <2>1, EmptySeq
<1> QED BY <1>1, <1>2, <1>3, <1>4, <1>5

(* The artifact a running call is at.                                       *)
LEMMA ArtifactType ==
  ASSUME TypeOK, NEW c \in Conns, calls[c] # None
  PROVE  /\ calls[c] \in Call
         /\ calls[c].todo \in Seq(Artifacts) /\ calls[c].todo # <<>>
         /\ Artifact(c) \in Artifacts
         /\ Key(Artifact(c)) \in Keys /\ Row(Artifact(c)) \in Rows
<1>1. calls[c] \in Call /\ calls[c].todo # <<>>
  BY DEF TypeOK
<1>2. calls[c].todo \in Seq(Artifacts)
  BY <1>1 DEF Call
<1>3. Artifact(c) \in Artifacts
  BY <1>1, <1>2, TailFacts DEF Artifact
<1> QED BY <1>1, <1>2, <1>3 DEF Keys, Rows

CallsTypeOK ==
  /\ calls \in [Conns -> Call \union {None}]
  /\ \A c \in Conns : calls[c] # None => calls[c].todo # <<>>
  /\ \A e \in done : e.op \in {"put", "append", "import"} /\ e.batch \in Seq(Artifacts)

(* The ways a call can go on keep the calls and acknowledgements well typed. *)
LEMMA GotoType ==
  ASSUME TypeOK, NEW c \in Conns, calls[c] # None,
         NEW at \in {"exists", "check", "insert", "audit"}, Goto(c, at)
  PROVE  CallsTypeOK'
BY ArtifactType DEF Goto, TypeOK, CallsTypeOK, Call

LEMMA RaiseType ==
  ASSUME TypeOK, NEW c \in Conns, Raise(c)
  PROVE  CallsTypeOK'
BY DEF Raise, TypeOK, CallsTypeOK

LEMMA ReturnType ==
  ASSUME TypeOK, NEW c \in Conns, calls[c] # None, Return(c)
  PROVE  CallsTypeOK'
BY ArtifactType DEF Return, TypeOK, CallsTypeOK, Call

LEMMA AfterPutType ==
  ASSUME TypeOK, NEW c \in Conns, calls[c] # None, AfterPut(c)
  PROVE  CallsTypeOK'
<1>1. CASE calls[c].op = "append" /\ Goto(c, "audit")
  BY <1>1, GotoType
<1>2. CASE Return(c)
  BY <1>2, ReturnType
<1>3. CASE /\ Len(calls[c].todo) > 1
           /\ calls' = [calls EXCEPT ![c].at = "check", ![c].todo = Tail(@)]
           /\ UNCHANGED done
  <2>1. Tail(calls[c].todo) \in Seq(Artifacts) /\ Tail(calls[c].todo) # <<>>
    BY <1>3, ArtifactType, TailFacts
  <2>2. calls'[c] \in Call /\ calls'[c].todo # <<>>
    BY <1>3, <2>1, ArtifactType DEF Call, TypeOK
  <2> QED BY <1>3, <2>2 DEF TypeOK, CallsTypeOK
<1> QED BY <1>1, <1>2, <1>3 DEF AfterPut

LEMMA InvokeType ==
  ASSUME TypeOK, NEW c \in Conns, NEW op \in {"put", "append", "import"},
         NEW at \in {"exists", "check"}, NEW batch \in Seq(Artifacts), batch # <<>>,
         Invoke(c, op, at, batch)
  PROVE  TypeOK'
BY DEF Invoke, TypeOK, Call

(* The ways a call can start.                                               *)
LEMMA StartType ==
  ASSUME TypeOK, NEW c \in Conns, Put(c) \/ AppendAuditEvent(c) \/ ImportAuditBundle(c)
  PROVE  TypeOK'
<1>1. \A a \in Artifacts : <<a>> \in Seq(Artifacts) /\ <<a>> # <<>>
  OBVIOUS
<1>2. CASE Put(c)
  BY <1>1, <1>2, InvokeType DEF Put
<1>3. CASE AppendAuditEvent(c)
  BY <1>1, <1>3, InvokeType DEF AppendAuditEvent
<1>4. CASE ImportAuditBundle(c)
  BY <1>4, InvokeType, StoreAssumption DEF ImportAuditBundle
<1> QED BY <1>2, <1>3, <1>4

LEMMA NewEntryType ==
  ASSUME TypeOK, NEW c \in Conns, AppendEntry(c)
  PROVE  /\ log' \in Seq(Entry) /\ Len(log') <= MaxLog
         /\ calls[c] # None
<1> DEFINE Payloads == {a.payload : a \in Artifacts}
           prev == PreviousHash(log)
<1>1. calls[c] # None
  BY DEF AppendEntry, Running
<1>2. Artifact(c) \in Artifacts /\ Key(Artifact(c)) \in Keys /\ Artifact(c).payload \in Payloads
  BY <1>1, ArtifactType
<1>3. prev \in Seq(Payloads)
  <2>1. CASE log = <<>>
    BY <2>1 DEF PreviousHash, Genesis
  <2>2. CASE log # <<>>
    <3>1. log[Len(log)] \in Entry
      BY <2>2, LenProperties, ElementOfSeq, EmptySeq DEF TypeOK
    <3> QED BY <2>2, <3>1 DEF PreviousHash, Entry
  <2> QED BY <2>1, <2>2
<1>4. AuditHash(Artifact(c).payload, prev) \in Seq(Payloads)
  BY <1>2, <1>3, AppendProperties DEF AuditHash
<1>5. [key |-> Key(Artifact(c)), payload |-> Artifact(c).payload, prev |-> prev,
       hash |-> AuditHash(Artifact(c).payload, prev)] \in Entry
  BY <1>2, <1>3, <1>4 DEF Entry
<1> QED BY <1>1, <1>5, AppendProperties, StoreAssumption, LenProperties DEF AppendEntry, TypeOK

(* Every step keeps the database, the calls and their answers well typed.    *)
LEMMA TypeStep ==
  ASSUME TypeOK, [Next]_vars PROVE TypeOK'
<1>1. CASE UNCHANGED vars
  BY <1>1 DEF TypeOK, vars
<1>2. ASSUME NEW c \in Conns, Put(c) \/ AppendAuditEvent(c) \/ ImportAuditBundle(c)
      PROVE  TypeOK'
  BY <1>2, StartType
<1>3. ASSUME NEW c \in Conns, SetCurrent(c) PROVE TypeOK'
  <2>1. PICK k \in Keys : k[1] \in Tracked /\ current' = [current EXCEPT ![k[1]] = k[2]]
    BY <1>3 DEF SetCurrent
  <2>2. k[2] \in {a.id : a \in Artifacts}
    BY DEF Keys, Key
  <2> QED BY <1>3, <2>1, <2>2 DEF SetCurrent, TypeOK
<1>4. ASSUME NEW c \in Conns, Exists(c) PROVE TypeOK'
  <2>1. calls[c] # None
    BY <1>4 DEF Exists, Running
  <2>2. CallsTypeOK'
    BY <1>4, <2>1, GotoType DEF Exists
  <2> QED BY <1>4, <2>2 DEF Exists, TypeOK, CallsTypeOK
<1>5. ASSUME NEW c \in Conns, CheckExisting(c) PROVE TypeOK'
  <2>1. CallsTypeOK'
    BY <1>5, GotoType, RaiseType, AfterPutType DEF CheckExisting
  <2> QED BY <1>5, <2>1 DEF CheckExisting, TypeOK, CallsTypeOK
<1>6. ASSUME NEW c \in Conns, Insert(c) PROVE TypeOK'
  <2>1. CallsTypeOK'
    BY <1>6, RaiseType, AfterPutType DEF Insert
  <2>2. records' \in [Keys -> Rows \union {None}]
    BY <1>6, ArtifactType DEF Insert, TypeOK
  <2> QED BY <1>6, <2>1, <2>2 DEF Insert, TypeOK, CallsTypeOK
<1>7. ASSUME NEW c \in Conns, AppendEntry(c) PROVE TypeOK'
  <2>1. calls[c] # None /\ log' \in Seq(Entry) /\ Len(log') <= MaxLog
    BY <1>7, NewEntryType
  <2>2. CallsTypeOK'
    BY <1>7, <2>1, ReturnType DEF AppendEntry
  <2> QED BY <1>7, <2>1, <2>2 DEF AppendEntry, TypeOK, CallsTypeOK
<1>8. ASSUME NEW c \in Conns, Interrupt(c) PROVE TypeOK'
  BY <1>8, RaiseType DEF Interrupt, TypeOK, CallsTypeOK
<1> QED BY <1>1, <1>2, <1>3, <1>4, <1>5, <1>6, <1>7, <1>8 DEF Next

(* The database is well typed, whatever the stores do.                      *)
THEOREM TypeCorrect == Spec => []TypeOK
<1>1. Init => TypeOK
  BY StoreAssumption, EmptySeq DEF Init, TypeOK
<1>2. TypeOK /\ [Next]_vars => TypeOK'
  BY TypeStep
<1> QED BY <1>1, <1>2, PTL DEF Spec

-----------------------------------------------------------------------------
(* A stored row stays as it is.                                             *)
LEMMA RowsStay ==
  ASSUME TypeOK, [Next]_vars, NEW k \in Keys, records[k] # None
  PROVE  records'[k] = records[k]
<1>1. ASSUME NEW c \in Conns, Insert(c) PROVE records'[k] = records[k]
  <2>1. Key(Artifact(c)) \in Keys
    BY <1>1, ArtifactType DEF Insert
  <2> QED BY <1>1, <2>1 DEF Insert, TypeOK
<1>2. CASE UNCHANGED records
  BY <1>2
<1>3. UNCHANGED records \/ \E c \in Conns : Insert(c)
  BY DEF Next, vars, Put, AppendAuditEvent, ImportAuditBundle, Invoke, SetCurrent, Exists,
         CheckExisting, AppendEntry, Interrupt
<1> QED BY <1>1, <1>2, <1>3

(* The log stays, or AppendEntry makes it longer by one.                    *)
LEMMA LogGrows ==
  ASSUME TypeOK, [Next]_vars
  PROVE  \/ UNCHANGED log
         \/ \E c \in Conns : AppendEntry(c)
BY DEF Next, vars, Put, AppendAuditEvent, ImportAuditBundle, Invoke, SetCurrent, Exists,
       CheckExisting, Insert, Interrupt

(* What AppendEntry leaves of the log, and what it adds.                    *)
LEMMA NewEntry ==
  ASSUME TypeOK, NEW c \in Conns, AppendEntry(c)
  PROVE  /\ Len(log) \in Nat /\ Len(log') = Len(log) + 1
         /\ \A i \in 1..Len(log) : log'[i] = log[i]
         /\ log'[Len(log) + 1].key = Key(Artifact(c))
         /\ log'[Len(log) + 1].payload = Artifact(c).payload
         /\ log'[Len(log) + 1].prev = PreviousHash(log)
         /\ log'[Len(log) + 1].hash = AuditHash(Artifact(c).payload, PreviousHash(log))
<1> DEFINE e == [key |-> Key(Artifact(c)), payload |-> Artifact(c).payload,
                 prev |-> PreviousHash(log),
                 hash |-> AuditHash(Artifact(c).payload, PreviousHash(log))]
<1>1. log \in Seq(Entry) /\ log' \in Seq(Entry)
  BY NewEntryType DEF TypeOK
<1>2. log' = Append(log, e)
  BY DEF AppendEntry
<1> HIDE DEF e
<1>3. Len(log) \in Nat /\ Len(log') = Len(log) + 1 /\ log'[Len(log) + 1] = e
  BY <1>1, <1>2
<1>4. \A i \in 1..Len(log) : log'[i] = log[i]
  BY <1>1, <1>2
<1>5. /\ e.key = Key(Artifact(c)) /\ e.payload = Artifact(c).payload
      /\ e.prev = PreviousHash(log)
      /\ e.hash = AuditHash(Artifact(c).payload, PreviousHash(log))
  BY DEF e
<1> QED BY <1>3, <1>4, <1>5

(* A record that recovery can follow references from still can.             *)
LEMMA GroundedStays ==
  ASSUME TypeOK, [Next]_vars, NEW t, NEW p, Grounded(t, p)
  PROVE  Grounded(t, p)'
<1>1. ASSUME NEW type, NEW id, Stored(type, id)
      PROVE  Stored(type, id)' /\ Payload(type, id)' = Payload(type, id)
  BY <1>1, RowsStay DEF Stored, Payload
<1> QED BY <1>1 DEF Grounded, Refers

LEMMA SoundStays ==
  ASSUME TypeOK, [Next]_vars, NEW k \in Keys, Sound(k)
  PROVE  Sound(k)'
<1>1. records'[k] = records[k]
  BY RowsStay DEF Sound
<1>2. Grounded(k[1], records[k].payload)'
  <2> DEFINE p == records[k].payload
  <2>1. Grounded(k[1], p)
    BY DEF Sound
  <2> HIDE DEF p
  <2>2. p' = p
    BY <1>1 DEF p
  <2>3. PICK q : q = p
    OBVIOUS
  <2>4. Grounded(k[1], q)'
    BY <2>1, <2>3, GroundedStays
  <2> QED BY <2>2, <2>3, <2>4 DEF p
<1> QED BY <1>1, <1>2 DEF Sound, Intact

(* No call, race or interruption changes or removes a stored row or an      *)
(* entry of the audit log, nor makes a recovery report worse.               *)
THEOREM HistoryIsAppendOnly == Spec => AppendOnly
<1>1. TypeOK /\ [Next]_vars =>
        [/\ \A k \in Keys : records[k] # None => records'[k] = records[k]
         /\ \A i \in 1..Len(log) : i <= Len(log') /\ log'[i] = log[i]
         /\ records' # records => \A k \in Keys : Sound(k) => Sound(k)']_vars
  <2> SUFFICES ASSUME TypeOK, [Next]_vars, NEW i \in 1..Len(log)
               PROVE  i <= Len(log') /\ log'[i] = log[i]
    BY RowsStay, SoundStays
  <2>1. Len(log) \in Nat
    BY LenProperties DEF TypeOK
  <2>2. CASE UNCHANGED log
    BY <2>1, <2>2
  <2>3. ASSUME NEW c \in Conns, AppendEntry(c) PROVE i <= Len(log') /\ log'[i] = log[i]
    BY <2>1, <2>3, NewEntry
  <2> QED BY <2>2, <2>3, LogGrows
<1> QED BY <1>1, TypeCorrect, PTL DEF Spec, AppendOnly

(* The log is one hash chain, whichever store adds the next entry.          *)
THEOREM ChainIsLinked == Spec => []ChainLinked
<1>1. Init => ChainLinked
  <2>1. Len(<<>>) = 0
    OBVIOUS
  <2> QED BY <2>1 DEF Init, ChainLinked
<1>2. TypeOK /\ ChainLinked /\ [Next]_vars => ChainLinked'
  <2> SUFFICES ASSUME TypeOK, ChainLinked, [Next]_vars PROVE ChainLinked'
    OBVIOUS
  <2>1. CASE UNCHANGED log
    BY <2>1 DEF ChainLinked
  <2>2. ASSUME NEW c \in Conns, AppendEntry(c), NEW i \in 1..Len(log')
        PROVE  /\ log'[i].prev = IF i = 1 THEN Genesis ELSE log'[i - 1].hash
               /\ log'[i].hash = AuditHash(log'[i].payload, log'[i].prev)
    <3> DEFINE n == Len(log)
    <3>0. /\ n \in Nat /\ Len(log') = n + 1
          /\ \A j \in 1..n : log'[j] = log[j]
          /\ log'[n + 1].prev = PreviousHash(log)
          /\ log'[n + 1].payload = Artifact(c).payload
          /\ log'[n + 1].hash = AuditHash(Artifact(c).payload, PreviousHash(log))
      BY <2>2, NewEntry
    <3>1. CASE i \in 1..n
      <4>1. log'[i] = log[i]
        BY <3>0, <3>1
      <4>2. i # 1 => i - 1 \in 1..n
        BY <3>0, <3>1
      <4>3. i # 1 => log'[i - 1] = log[i - 1]
        BY <3>0, <4>2
      <4> QED BY <3>1, <4>1, <4>3 DEF ChainLinked
    <3>2. CASE i = n + 1
      <4>1. log = <<>> <=> n = 0
        BY EmptySeq DEF TypeOK
      <4>2. n # 0 => log'[n] = log[n]
        BY <3>0
      <4>3. PreviousHash(log) = IF i = 1 THEN Genesis ELSE log'[i - 1].hash
        BY <3>0, <3>2, <4>1, <4>2 DEF PreviousHash
      <4> QED BY <3>0, <3>2, <4>3
    <3>3. i \in 1..n \/ i = n + 1
      BY <3>0
    <3> QED BY <3>1, <3>2, <3>3
  <2> QED BY <2>1, <2>2, LogGrows DEF ChainLinked
<1> QED BY <1>1, <1>2, TypeCorrect, PTL DEF Spec

-----------------------------------------------------------------------------
(* What a running call has done so far: an import, or a put, has stored the *)
(* records of its batch that are not in todo; an append about to write its  *)
(* entry has seen a row under its key.                                      *)
StoredBefore(c) ==
  \A i \in 1..(Len(calls[c].batch) - Len(calls[c].todo)) :
    records[Key(calls[c].batch[i])] = Row(calls[c].batch[i])

Underway(c) ==
  /\ Len(calls[c].todo) <= Len(calls[c].batch)
  /\ \A j \in 1..Len(calls[c].todo) :
       calls[c].todo[j] = calls[c].batch[Len(calls[c].batch) - Len(calls[c].todo) + j]
  /\ StoredBefore(c)

CallsAreUnderway ==
  \A c \in Conns : calls[c] # None =>
    /\ calls[c].op # "append" => Underway(c)
    /\ calls[c].op = "append" /\ calls[c].at = "audit" => records[Key(Artifact(c))] # None

Kept(e) == \A i \in 1..Len(e.batch) : records[Key(e.batch[i])] = Row(e.batch[i])

Durable == \A e \in done : e.op # "append" => Kept(e)

DurableInv == CallsAreUnderway /\ Durable

(* What is stored is stored in the next state too.                          *)
LEMMA StoredStays ==
  ASSUME TypeOK, [Next]_vars, NEW a \in Artifacts, records[Key(a)] = Row(a)
  PROVE  records'[Key(a)] = Row(a)
<1>1. Key(a) \in Keys /\ Row(a) \in Rows
  BY DEF Keys, Rows
<1> QED BY <1>1, NoneAssumption, RowsStay

LEMMA KeptStays ==
  ASSUME TypeOK, [Next]_vars, NEW e, e.batch \in Seq(Artifacts), Kept(e)
  PROVE  Kept(e)'
BY StoredStays, ElementOfSeq DEF Kept

(* A call that still has the same records before it has done what it had.   *)
LEMMA UnderwayStays ==
  ASSUME TypeOK, [Next]_vars, NEW d \in Conns, calls[d] # None, Underway(d),
         calls'[d].todo = calls[d].todo, calls'[d].batch = calls[d].batch
  PROVE  Underway(d)'
<1>1. calls[d].batch \in Seq(Artifacts) /\ calls[d].todo \in Seq(Artifacts)
  BY ArtifactType DEF Call
<1>2. StoredBefore(d)'
  <2> SUFFICES ASSUME NEW i \in 1..(Len(calls[d].batch) - Len(calls[d].todo))
               PROVE  records'[Key(calls[d].batch[i])] = Row(calls[d].batch[i])
    BY DEF StoredBefore
  <2>1. i \in 1..Len(calls[d].batch)
    BY <1>1, LenProperties
  <2>2. calls[d].batch[i] \in Artifacts
    BY <1>1, <2>1, ElementOfSeq
  <2> QED BY <2>2, StoredStays DEF Underway, StoredBefore
<1> QED BY <1>2 DEF Underway

(* The artifact of a call that has seen a row under its key still has one.  *)
LEMMA RowStaysForCall ==
  ASSUME TypeOK, [Next]_vars, NEW d \in Conns, calls[d] # None,
         calls'[d].todo = calls[d].todo, records[Key(Artifact(d))] # None
  PROVE  records'[Key(Artifact(d)')] # None
<1>1. Key(Artifact(d)) \in Keys /\ Artifact(d)' = Artifact(d)
  BY ArtifactType DEF Artifact
<1> QED BY <1>1, RowsStay

(* Positions of a todo of m records that ends a batch of n.                 *)
LEMMA TodoPositions ==
  ASSUME NEW n \in Nat, NEW m \in Nat \ {0}
  PROVE  /\ 1 \in 1..m /\ n - m + 1 = n - (m - 1)
         /\ m = 1 => n - m + 1 = n
         /\ \A j \in 1..(m - 1) : j + 1 \in 1..m /\ n - m + (j + 1) = n - (m - 1) + j
OBVIOUS

(* Once put() has stored the artifact a call is at, one more is stored.     *)
LEMMA OneMoreStored ==
  ASSUME TypeOK, [Next]_vars, NEW c \in Conns, calls[c] # None, Underway(c),
         records'[Key(Artifact(c))] = Row(Artifact(c))
  PROVE  \A i \in 1..(Len(calls[c].batch) - Len(calls[c].todo) + 1) :
           records'[Key(calls[c].batch[i])] = Row(calls[c].batch[i])
<1> DEFINE batch == calls[c].batch
           todo == calls[c].todo
           n == Len(batch)
           m == Len(todo)
<1>1. batch \in Seq(Artifacts) /\ todo \in Seq(Artifacts) /\ todo # <<>>
  BY ArtifactType DEF Call
<1>2. n \in Nat /\ m \in Nat /\ m >= 1 /\ m <= n /\ Artifact(c) = todo[1]
  <2>1. n \in Nat /\ m \in Nat
    BY <1>1, LenProperties
  <2>2. m # 0
    BY <1>1, EmptySeq
  <2>3. Artifact(c) = todo[1]
    BY DEF Artifact
  <2>4. m <= n
    BY DEF Underway
  <2> QED BY <2>1, <2>2, <2>3, <2>4
<1>3. todo[1] = batch[n - m + 1]
  <2>1. \A j \in 1..m : todo[j] = batch[n - m + j]
    BY DEF Underway
  <2>2. 1 \in 1..m
    BY <1>2, TodoPositions
  <2> QED BY <2>1, <2>2
<1> SUFFICES ASSUME NEW i \in 1..(n - m + 1)
             PROVE  records'[Key(batch[i])] = Row(batch[i])
  OBVIOUS
<1>4. CASE i = n - m + 1
  BY <1>2, <1>3, <1>4
<1>5. CASE i \in 1..(n - m)
  <2>1. batch[i] \in Artifacts
    BY <1>1, <1>2, <1>5, ElementOfSeq
  <2>2. records[Key(batch[i])] = Row(batch[i])
    BY <1>5 DEF Underway, StoredBefore
  <2> QED BY <2>1, <2>2, StoredStays
<1> QED BY <1>2, <1>4, <1>5

(* What put() leaves to the call it returns to.                             *)
LEMMA AfterPutUnderway ==
  ASSUME TypeOK, CallsAreUnderway, [Next]_vars, NEW c \in Conns, calls[c] # None,
         records'[Key(Artifact(c))] = Row(Artifact(c)), AfterPut(c)
  PROVE  /\ calls'[c] # None =>
              /\ calls'[c].op # "append" => Underway(c)'
              /\ calls'[c].op = "append" /\ calls'[c].at = "audit" =>
                   records'[Key(Artifact(c)')] # None
         /\ \A e \in done' : e \in done \/ (e.op # "append" => Kept(e)')
<1> DEFINE batch == calls[c].batch
           todo == calls[c].todo
           n == Len(batch)
           m == Len(todo)
<1>0. calls \in [Conns -> Call \union {None}]
  BY DEF TypeOK
<1>1. /\ batch \in Seq(Artifacts) /\ todo \in Seq(Artifacts) /\ todo # <<>>
      /\ Row(Artifact(c)) \in Rows /\ calls[c] \in Call
  BY ArtifactType DEF Call
<1>2. n \in Nat /\ m \in Nat \ {0}
  BY <1>1, LenProperties, EmptySeq
<1>3. CASE calls[c].op = "append" /\ Goto(c, "audit")
  <2>1. calls'[c].op = "append" /\ Artifact(c)' = Artifact(c) /\ done' = done
    BY <1>0, <1>3 DEF Goto, Artifact, Call
  <2> QED BY <1>1, <2>1, NoneAssumption
<1>4. CASE calls[c].op # "append" /\ m = 1 /\ Return(c)
  <2>1. calls'[c] = None /\ done' = done \union {[op |-> calls[c].op, batch |-> batch]}
    BY <1>0, <1>4 DEF Return
  <2>2. Underway(c)
    BY <1>4 DEF CallsAreUnderway
  <2>3. \A i \in 1..n : records'[Key(batch[i])] = Row(batch[i])
    <3>1. \A i \in 1..(n - m + 1) : records'[Key(batch[i])] = Row(batch[i])
      BY <2>2, OneMoreStored
    <3>2. n - m + 1 = n
      BY <1>2, <1>4, TodoPositions
    <3> QED BY <3>1, <3>2
  <2>4. ASSUME NEW e \in done', e \notin done PROVE Kept(e)'
    <3>1. e.batch = batch
      BY <2>1, <2>4
    <3> QED BY <2>3, <3>1 DEF Kept
  <2> QED BY <2>1, <2>4
<1>5. CASE /\ calls[c].op # "append" /\ m > 1
           /\ calls' = [calls EXCEPT ![c].at = "check", ![c].todo = Tail(@)]
           /\ UNCHANGED done
  <2>1. Underway(c)
    BY <1>5 DEF CallsAreUnderway
  <2>2. /\ calls'[c].op = calls[c].op /\ calls'[c].batch = batch /\ calls'[c].todo = Tail(todo)
    BY <1>0, <1>1, <1>5 DEF Call
  <2>3. Len(Tail(todo)) = m - 1 /\ \A j \in 1..(m - 1) : Tail(todo)[j] = todo[j + 1]
    BY <1>1, TailFacts
  <2>4. StoredBefore(c)'
    <3>1. n - (m - 1) = n - m + 1
      BY <1>2
    <3> QED BY <2>1, <2>2, <2>3, <3>1, OneMoreStored DEF StoredBefore
  <2>5. \A j \in 1..(m - 1) : Tail(todo)[j] = batch[n - (m - 1) + j]
    <3> SUFFICES ASSUME NEW j \in 1..(m - 1) PROVE todo[j + 1] = batch[n - (m - 1) + j]
      BY <2>3
    <3>1. j + 1 \in 1..m /\ n - m + (j + 1) = n - (m - 1) + j
      BY <1>2, TodoPositions
    <3> QED BY <2>1, <3>1 DEF Underway
  <2>6. m - 1 <= n
    BY <1>2, <2>1 DEF Underway
  <2> QED BY <1>5, <2>2, <2>3, <2>4, <2>5, <2>6 DEF Underway
<1> QED BY <1>3, <1>4, <1>5 DEF AfterPut

(* Every step keeps the promise to each running call and each answer.       *)
LEMMA DurableStep ==
  ASSUME TypeOK, DurableInv, [Next]_vars PROVE DurableInv'
<1> DEFINE Good(d) ==
             /\ calls[d].op # "append" => Underway(d)
             /\ calls[d].op = "append" /\ calls[d].at = "audit" => records[Key(Artifact(d))] # None
<1> USE DEF DurableInv
<1>0. calls \in [Conns -> Call \union {None}] /\ calls' \in [Conns -> Call \union {None}]
  BY TypeStep DEF TypeOK
<1>1. ASSUME NEW d \in Conns, calls[d] # None, calls'[d] = calls[d] PROVE Good(d)'
  <2>1. calls[d].op # "append" => Underway(d)'
    BY <1>1, UnderwayStays DEF CallsAreUnderway
  <2>2. calls[d].op = "append" /\ calls[d].at = "audit" => records'[Key(Artifact(d)')] # None
    BY <1>1, RowStaysForCall DEF CallsAreUnderway
  <2> QED BY <1>1, <2>1, <2>2
<1>2. \A e \in done : e.op # "append" => Kept(e)'
  BY KeptStays DEF Durable, TypeOK
<1>3. ASSUME NEW c \in Conns,
             \A d \in Conns \ {c} : calls'[d] = calls[d],
             calls'[c] # None => Good(c)',
             \A e \in done' : e \in done \/ (e.op # "append" => Kept(e)')
      PROVE  DurableInv'
  <2>1. CallsAreUnderway'
    BY <1>1, <1>3 DEF CallsAreUnderway
  <2>2. Durable'
    BY <1>2, <1>3 DEF Durable
  <2> QED BY <2>1, <2>2
<1>4. CASE UNCHANGED <<calls, done>>
  <2>1. CallsAreUnderway'
    BY <1>1, <1>4 DEF CallsAreUnderway
  <2>2. Durable'
    BY <1>2, <1>4 DEF Durable
  <2> QED BY <2>1, <2>2
<1>5. ASSUME NEW c \in Conns, NEW op \in {"put", "append", "import"}, NEW at \in {"exists", "check"},
             NEW batch \in Seq(Artifacts), Invoke(c, op, at, batch)
      PROVE  DurableInv'
  <2>1. /\ calls'[c].op = op /\ calls'[c].at = at
        /\ calls'[c].todo = batch /\ calls'[c].batch = batch
        /\ \A d \in Conns \ {c} : calls'[d] = calls[d]
        /\ done' = done
    BY <1>0, <1>5 DEF Invoke
  <2>2. Underway(c)'
    <3>1. Len(batch) \in Nat
      BY LenProperties
    <3>2. Len(batch) - Len(batch) = 0 /\ \A j \in 1..Len(batch) : 0 + j = j
      BY <3>1
    <3>3. StoredBefore(c)'
      BY <2>1, <3>2 DEF StoredBefore
    <3> QED BY <2>1, <3>1, <3>2, <3>3 DEF Underway
  <2> QED BY <2>1, <2>2, <1>3
<1>6. ASSUME NEW c \in Conns, Put(c) \/ AppendAuditEvent(c) \/ ImportAuditBundle(c)
      PROVE  DurableInv'
  <2>1. \A a \in Artifacts : <<a>> \in Seq(Artifacts)
    OBVIOUS
  <2> QED BY <1>5, <1>6, <2>1, StoreAssumption DEF Put, AppendAuditEvent, ImportAuditBundle
<1>7. ASSUME NEW c \in Conns, NEW at, calls[c] # None, Goto(c, at),
             at = "audit" => calls[c].op = "append" /\ records[Key(Artifact(c))] # None
      PROVE  DurableInv'
  <2>1. /\ calls'[c].op = calls[c].op /\ calls'[c].at = at
        /\ calls'[c].todo = calls[c].todo /\ calls'[c].batch = calls[c].batch
        /\ \A d \in Conns \ {c} : calls'[d] = calls[d]
        /\ done' = done
    BY <1>0, <1>7 DEF Goto, Call
  <2>2. calls'[c].op # "append" => Underway(c)'
    BY <1>7, <2>1, UnderwayStays DEF CallsAreUnderway
  <2>3. calls'[c].at = "audit" => records'[Key(Artifact(c)')] # None
    BY <1>7, <2>1, RowStaysForCall
  <2> QED BY <2>1, <2>2, <2>3, <1>3
<1>8. ASSUME NEW c \in Conns, Raise(c) PROVE DurableInv'
  <2>1. calls'[c] = None /\ (\A d \in Conns \ {c} : calls'[d] = calls[d]) /\ done' = done
    BY <1>0, <1>8 DEF Raise
  <2> QED BY <2>1, <1>3
<1>9. ASSUME NEW c \in Conns, calls[c] # None, AfterPut(c),
             records'[Key(Artifact(c))] = Row(Artifact(c))
      PROVE  DurableInv'
  <2>1. \A d \in Conns \ {c} : calls'[d] = calls[d]
    BY <1>0, <1>9 DEF AfterPut, Goto, Return
  <2>2. calls'[c] # None => Good(c)'
    BY <1>9, AfterPutUnderway
  <2>3. \A e \in done' : e \in done \/ (e.op # "append" => Kept(e)')
    BY <1>9, AfterPutUnderway
  <2> QED BY <2>1, <2>2, <2>3, <1>3
<1>10. ASSUME NEW c \in Conns, Exists(c) PROVE DurableInv'
  BY <1>10, <1>7 DEF Exists, Running
<1>11. ASSUME NEW c \in Conns, CheckExisting(c) PROVE DurableInv'
  <2>1. CASE Goto(c, "insert")
    BY <1>11, <2>1, <1>7 DEF CheckExisting
  <2>2. CASE records[Key(Artifact(c))] = Row(Artifact(c)) /\ AfterPut(c)
    BY <1>11, <2>2, <1>9 DEF CheckExisting
  <2>3. CASE Raise(c)
    BY <2>3, <1>8
  <2> QED BY <1>11, <2>1, <2>2, <2>3 DEF CheckExisting
<1>12. ASSUME NEW c \in Conns, Insert(c) PROVE DurableInv'
  <2>1. CASE /\ records' = [records EXCEPT ![Key(Artifact(c))] = Row(Artifact(c))]
             /\ AfterPut(c)
    <3>1. calls[c] # None
      BY <1>12 DEF Insert
    <3>2. records'[Key(Artifact(c))] = Row(Artifact(c))
      BY <2>1, <3>1, ArtifactType DEF TypeOK
    <3> QED BY <2>1, <3>1, <3>2, <1>9
  <2>2. CASE Raise(c)
    BY <2>2, <1>8
  <2> QED BY <1>12, <2>1, <2>2 DEF Insert
<1>13. ASSUME NEW c \in Conns, AppendEntry(c) PROVE DurableInv'
  <2>1. /\ calls'[c] = None /\ \A d \in Conns \ {c} : calls'[d] = calls[d]
        /\ \A e \in done' : e \in done \/ e.op = "append"
    BY <1>0, <1>13 DEF AppendEntry, Running, Return
  <2> QED BY <2>1, <1>3
<1>14. ASSUME NEW c \in Conns, SetCurrent(c) \/ Interrupt(c) PROVE DurableInv'
  BY <1>4, <1>8, <1>14 DEF SetCurrent, Interrupt
<1>15. CASE UNCHANGED vars
  BY <1>4, <1>15 DEF vars
<1> QED BY <1>6, <1>10, <1>11, <1>12, <1>13, <1>14, <1>15 DEF Next

(* The inductive invariant, and with it the two promises of durability.     *)
LEMMA Durability == Spec => [](TypeOK /\ DurableInv)
<1>1. Init => DurableInv
  BY DEF Init, DurableInv, CallsAreUnderway, Durable
<1>2. TypeOK /\ DurableInv /\ [Next]_vars => DurableInv'
  BY DurableStep
<1> QED BY <1>1, <1>2, TypeCorrect, PTL DEF Spec

(* What put and import acknowledged is stored for good, whatever other      *)
(* stores do.                                                               *)
THEOREM AcknowledgedStays == Spec => []AcknowledgedIsStored
<1>1. DurableInv => AcknowledgedIsStored
  BY DEF DurableInv, Durable, Kept, AcknowledgedIsStored
<1> QED BY <1>1, Durability, PTL

(* Every entry of the log refers to a stored record.                        *)
THEOREM EntriesAreStored == Spec => []EntriesStored
<1>1. Init => EntriesStored
  <2>1. Len(<<>>) = 0
    OBVIOUS
  <2> QED BY <2>1 DEF Init, EntriesStored
<1>2. TypeOK /\ DurableInv /\ EntriesStored /\ [Next]_vars => EntriesStored'
  <2> SUFFICES ASSUME TypeOK, DurableInv, EntriesStored, [Next]_vars, NEW i \in 1..Len(log')
               PROVE  records'[log'[i].key] # None
    BY DEF EntriesStored
  <2>1. ASSUME i \in 1..Len(log), log'[i] = log[i] PROVE records'[log'[i].key] # None
    <3>1. log[i].key \in Keys
      <4>1. log[i] \in Entry
        BY <2>1, ElementOfSeq DEF TypeOK
      <4> QED BY <4>1 DEF Entry
    <3> QED BY <2>1, <3>1, RowsStay DEF EntriesStored
  <2>2. CASE UNCHANGED log
    BY <2>1, <2>2
  <2>3. ASSUME NEW c \in Conns, AppendEntry(c) PROVE records'[log'[i].key] # None
    <3>1. /\ Len(log) \in Nat /\ Len(log') = Len(log) + 1
          /\ \A j \in 1..Len(log) : log'[j] = log[j]
          /\ log'[Len(log) + 1].key = Key(Artifact(c))
      BY <2>3, NewEntry
    <3>2. records[Key(Artifact(c))] # None /\ calls[c] # None
      BY <2>3 DEF AppendEntry, Running, DurableInv, CallsAreUnderway
    <3>3. records'[Key(Artifact(c))] # None
      BY <3>2, ArtifactType, RowsStay
    <3>4. i \in 1..Len(log) \/ i = Len(log) + 1
      BY <3>1
    <3> QED BY <2>1, <3>1, <3>3, <3>4
  <2> QED BY <2>2, <2>3, LogGrows
<1> QED BY <1>1, <1>2, Durability, PTL DEF Spec

(* The current record of a type is stored.                                  *)
LEMMA CurrentIsStored == Spec => []CurrentStored
<1>1. Init => CurrentStored
  BY DEF Init, CurrentStored
<1>2. TypeOK /\ CurrentStored /\ [Next]_vars => CurrentStored'
  <2> SUFFICES ASSUME TypeOK, CurrentStored, [Next]_vars,
                      NEW t \in Tracked, current'[t] # None
               PROVE  Stored(t, current[t])'
    BY DEF CurrentStored
  <2>1. CASE current'[t] = current[t]
    <3>1. <<t, current[t]>> \in Keys /\ records[<<t, current[t]>>] # None
      BY <2>1 DEF CurrentStored, Stored
    <3> QED BY <2>1, <3>1, RowsStay DEF Stored
  <2>2. ASSUME NEW c \in Conns, SetCurrent(c) PROVE Stored(t, current[t])'
    <3>1. PICK k \in Keys : /\ k[1] \in Tracked /\ records[k] # None
                            /\ current' = [current EXCEPT ![k[1]] = k[2]]
      BY <2>2 DEF SetCurrent
    <3>2. CASE k[1] = t
      <4>1. current'[t] = k[2]
        BY <3>1, <3>2 DEF TypeOK
      <4>2. <<t, k[2]>> = k
        BY <3>2 DEF Keys, Key
      <4> QED BY <2>2, <3>1, <4>1, <4>2 DEF SetCurrent, Stored
    <3>3. CASE k[1] # t
      BY <2>1, <3>1, <3>3 DEF TypeOK
    <3> QED BY <3>2, <3>3
  <2>3. UNCHANGED current \/ \E c \in Conns : SetCurrent(c)
    BY DEF Next, vars, Put, AppendAuditEvent, ImportAuditBundle, Invoke, Exists,
           CheckExisting, Insert, AppendEntry, Interrupt
  <2> QED BY <2>1, <2>2, <2>3
<1> QED BY <1>1, <1>2, TypeCorrect, PTL DEF Spec

(* For any stores and interruptions the log is one chain, and neither it    *)
(* nor a current pointer names a record that is not stored.                 *)
THEOREM StoreStaysSound == Spec => []StoreIsSound
BY ChainIsLinked, EntriesAreStored, CurrentIsStored, PTL DEF StoreIsSound

(* Exports only read: with them the stores behave as without, so that all   *)
(* of the above holds beside them.                                          *)
THEOREM ExportsOnlyRead == BundleSpec => Spec
<1>1. BundleInit => Init
  BY DEF BundleInit
<1>2. [BundleNext]_allVars => [Next]_vars
  BY DEF BundleNext, StoreStep, ExportRecords, ExportChain, allVars, vars
<1> QED BY <1>1, <1>2, PTL DEF BundleSpec, Spec
-----------------------------------------------------------------------------
(* A set of bundle records is a faithful copy of the database as it was      *)
(* when the log had n entries: each is stored and could be put back, and     *)
(* none of the records of those n entries is left out.                       *)
FaithfulCopy(rs, n) ==
  /\ n \in Nat /\ n <= Len(log)
  /\ \A r \in rs : r.key \in Keys /\ records[r.key] # None /\ records[r.key] = ImportedRow(r)
  /\ \A i \in 1..n : \E r \in rs : r.key = log[i].key

\* A chain is the beginning of the log.
LogPrefix(chain) ==
  /\ Len(chain) \in Nat /\ Len(chain) <= Len(log)
  /\ \A i \in 1..Len(chain) : chain[i] = log[i]

BundleRecords ==
  {[key |-> k, payload |-> row.payload, provenance |-> row.provenance] : k \in Keys, row \in Rows}

BundleInv ==
  /\ exports \in [Conns -> [records : SUBSET BundleRecords, logged : Nat] \union {None}]
  /\ \A c \in Conns : exports[c] # None => FaithfulCopy(exports[c].records, exports[c].logged)
  /\ bundle # None => FaithfulCopy(bundle.records, bundle.logged) /\ LogPrefix(bundle.chain)

(* A redacted payload has no secret left to redact, so that a row read from *)
(* the database is the row its export would import.                         *)
LEMMA RowSurvivesExport ==
  ASSUME NEW k \in Keys, records[k] \in Rows
  PROVE  ImportedRow(BundleRecord(k)) = records[k]
<1>1. PICK a \in Artifacts : records[k] = Row(a)
  BY DEF Rows
<1> DEFINE p == a.payload
<1>2. p.secret \in STRING \union {None} /\ RedactSecrets(p) = [p EXCEPT !.secret = RedactSecrets(p).secret]
      /\ RedactSecrets(p).secret \in {None, "[REDACTED]"}
  BY StoreAssumption DEF RedactSecrets, StoredRecord
<1>3. RedactSecrets(RedactSecrets(p)) = RedactSecrets(p)
  BY StoreAssumption DEF RedactSecrets, StoredRecord
<1>4. records[k].payload = RedactSecrets(p) /\ records[k].provenance = p
      /\ records[k] = [payload |-> RedactSecrets(p), provenance |-> p]
  BY <1>1 DEF Row
<1> QED BY <1>3, <1>4 DEF ImportedRow, BundleRecord

(* Entries of the log stay where they are.                                  *)
LEMMA EntriesStay ==
  ASSUME TypeOK, [Next]_vars
  PROVE  /\ Len(log) \in Nat /\ Len(log') \in Nat /\ Len(log) <= Len(log')
         /\ \A i \in 1..Len(log) : log'[i] = log[i]
<1>1. Len(log) \in Nat
  BY LenProperties DEF TypeOK
<1>2. CASE UNCHANGED log
  BY <1>1, <1>2
<1>3. ASSUME NEW c \in Conns, AppendEntry(c)
      PROVE  /\ Len(log') \in Nat /\ Len(log) <= Len(log')
             /\ \A i \in 1..Len(log) : log'[i] = log[i]
  BY <1>1, <1>3, NewEntry
<1> QED BY <1>1, <1>2, <1>3, LogGrows

(* Whoever writes, what was a faithful copy of the database is one still.   *)
LEMMA CopyStays ==
  ASSUME TypeOK, [Next]_vars, NEW rs, NEW n, FaithfulCopy(rs, n)
  PROVE  FaithfulCopy(rs, n)'
<1>1. \A r \in rs : r.key \in Keys /\ records'[r.key] # None /\ records'[r.key] = ImportedRow(r)
  BY RowsStay DEF FaithfulCopy
<1>2. n \in Nat /\ n <= Len(log') /\ \A i \in 1..n : log'[i] = log[i]
  BY EntriesStay DEF FaithfulCopy
<1>3. \A i \in 1..n : \E r \in rs : r.key = log'[i].key
  BY <1>2 DEF FaithfulCopy
<1> QED BY <1>1, <1>2, <1>3 DEF FaithfulCopy

LEMMA PrefixStays ==
  ASSUME TypeOK, [Next]_vars, NEW chain, LogPrefix(chain)
  PROVE  LogPrefix(chain)'
BY EntriesStay DEF LogPrefix

(* What the first SELECT reads is a faithful copy: the log and the records  *)
(* are those of one state, in which no entry lacks its record.              *)
LEMMA ReadIsFaithful ==
  ASSUME TypeOK, EntriesStored
  PROVE  LET rs == {BundleRecord(k) : k \in {j \in Keys : records[j] # None}} IN
           rs \in SUBSET BundleRecords /\ FaithfulCopy(rs, Len(log))
<1> DEFINE rs == {BundleRecord(k) : k \in {j \in Keys : records[j] # None}}
<1>1. \A k \in Keys : records[k] # None => records[k] \in Rows
  BY DEF TypeOK
<1>2. \A k \in Keys : BundleRecord(k).key = k
  BY DEF BundleRecord
<1>3. rs \in SUBSET BundleRecords
  BY <1>1 DEF BundleRecord, BundleRecords
<1>4. \A r \in rs : r.key \in Keys /\ records[r.key] # None /\ records[r.key] = ImportedRow(r)
  BY <1>1, <1>2, RowSurvivesExport
<1>5. Len(log) \in Nat
  BY LenProperties DEF TypeOK
<1>6. \A i \in 1..Len(log) : \E r \in rs : r.key = log[i].key
  <2> SUFFICES ASSUME NEW i \in 1..Len(log) PROVE \E r \in rs : r.key = log[i].key
    OBVIOUS
  <2>1. log[i].key \in Keys /\ records[log[i].key] # None
    <3>1. log[i] \in Entry
      BY ElementOfSeq DEF TypeOK
    <3> QED BY <3>1 DEF Entry, EntriesStored
  <2>2. BundleRecord(log[i].key) \in rs
    BY <2>1
  <2> QED BY <1>2, <2>1, <2>2
<1> QED BY <1>3, <1>4, <1>5, <1>6 DEF FaithfulCopy

(* Every step, of an export or of a store beside it, keeps the copies true. *)
LEMMA BundleStep ==
  ASSUME TypeOK, EntriesStored, BundleInv, [BundleNext]_allVars
  PROVE  BundleInv'
<1>1. CASE UNCHANGED bundleVars
  <2>1. [Next]_vars
    BY <1>1 DEF BundleNext, StoreStep, ExportRecords, ExportChain, allVars, vars
  <2>2. exports' = exports /\ bundle' = bundle
    BY <1>1 DEF bundleVars
  <2>3. ASSUME NEW c \in Conns, exports[c] # None
        PROVE  FaithfulCopy(exports[c].records, exports[c].logged)'
    <3>1. PICK e : e = exports[c]
      OBVIOUS
    <3>2. FaithfulCopy(e.records, e.logged)
      BY <2>3, <3>1 DEF BundleInv
    <3>3. FaithfulCopy(e.records, e.logged)'
      BY <2>1, <3>2, CopyStays
    <3> QED BY <2>2, <3>1, <3>3
  <2>4. ASSUME bundle # None
        PROVE  (FaithfulCopy(bundle.records, bundle.logged) /\ LogPrefix(bundle.chain))'
    <3>1. PICK b : b = bundle
      OBVIOUS
    <3>2. FaithfulCopy(b.records, b.logged) /\ LogPrefix(b.chain)
      BY <2>4, <3>1 DEF BundleInv
    <3>3. FaithfulCopy(b.records, b.logged)'
      BY <2>1, <3>2, CopyStays
    <3>4. LogPrefix(b.chain)'
      BY <2>1, <3>2, PrefixStays
    <3> QED BY <2>2, <3>1, <3>3, <3>4
  <2> QED BY <2>2, <2>3, <2>4 DEF BundleInv
<1>2. ASSUME NEW c \in Conns, ExportRecords(c) PROVE BundleInv'
  <2> DEFINE rs == {BundleRecord(k) : k \in {j \in Keys : records[j] # None}}
             e == [records |-> rs, logged |-> Len(log)]
  <2>1. rs \in SUBSET BundleRecords /\ FaithfulCopy(rs, Len(log)) /\ Len(log) \in Nat
    BY ReadIsFaithful DEF FaithfulCopy
  <2>2. exports' = [exports EXCEPT ![c] = e] /\ bundle' = bundle /\ records' = records /\ log' = log
    BY <1>2 DEF ExportRecords, vars
  <2> HIDE DEF rs
  <2>3. e \in [records : SUBSET BundleRecords, logged : Nat] /\ e.records = rs /\ e.logged = Len(log)
    BY <2>1
  <2> HIDE DEF e
  <2>4. exports' \in [Conns -> [records : SUBSET BundleRecords, logged : Nat] \union {None}]
    BY <2>2, <2>3 DEF BundleInv
  <2>5. \A d \in Conns : exports'[d] = IF d = c THEN e ELSE exports[d]
    BY <2>2 DEF BundleInv
  <2>6. \A d \in Conns : exports'[d] # None => FaithfulCopy(exports'[d].records, exports'[d].logged)
    BY <2>1, <2>3, <2>5 DEF BundleInv
  <2> QED BY <2>2, <2>4, <2>6 DEF BundleInv, FaithfulCopy, LogPrefix, ImportedRow
<1>3. ASSUME NEW c \in Conns, ExportChain(c) PROVE BundleInv'
  <2> DEFINE b == [records |-> exports[c].records, chain |-> log, logged |-> exports[c].logged]
  <2>1. /\ exports[c] # None /\ bundle' = b
        /\ exports' = [exports EXCEPT ![c] = None] /\ records' = records /\ log' = log
    BY <1>3 DEF ExportChain, vars
  <2>2. b.records = exports[c].records /\ b.chain = log /\ b.logged = exports[c].logged
    OBVIOUS
  <2> HIDE DEF b
  <2>3. FaithfulCopy(b.records, b.logged) /\ LogPrefix(b.chain)
    BY <2>1, <2>2, LenProperties DEF BundleInv, LogPrefix, TypeOK
  <2>4. exports' \in [Conns -> [records : SUBSET BundleRecords, logged : Nat] \union {None}]
    BY <2>1 DEF BundleInv
  <2>5. \A d \in Conns : exports'[d] = IF d = c THEN None ELSE exports[d]
    BY <2>1 DEF BundleInv
  <2>6. \A d \in Conns : exports'[d] # None => FaithfulCopy(exports'[d].records, exports'[d].logged)
    BY <2>5 DEF BundleInv
  <2> QED BY <2>1, <2>3, <2>4, <2>6 DEF BundleInv, FaithfulCopy, LogPrefix, ImportedRow
<1> QED BY <1>1, <1>2, <1>3 DEF BundleNext, StoreStep, allVars

(* A faithful copy beside the beginning of a linked log verifies: no link   *)
(* and no hash is wrong, and a record may be missing only of an entry that  *)
(* came between the two reads.                                              *)
LEMMA CopyVerifies ==
  ASSUME ChainLinked, NEW b, FaithfulCopy(b.records, b.logged), LogPrefix(b.chain),
         NEW a \in VerifyAuditChain(b.chain, b.records)
  PROVE  a[1] = "payload" \/ (a[1] = "missing" /\ a[2] > b.logged)
<1> DEFINE i == a[2]
           of == {r.payload : r \in {x \in b.records : x.key = b.chain[i].key}}
<1>1. a[1] \in {"broken", "hash", "missing", "payload"} /\ i \in 1..Len(b.chain)
  BY DEF VerifyAuditChain
<1>2. /\ Len(b.chain) \in Nat /\ Len(b.chain) <= Len(log) /\ b.chain[i] = log[i]
      /\ i # 1 => i - 1 \in 1..Len(b.chain) /\ b.chain[i - 1] = log[i - 1]
  BY <1>1 DEF LogPrefix
<1>3. /\ b.chain[i].prev = IF i = 1 THEN Genesis ELSE b.chain[i - 1].hash
      /\ b.chain[i].hash = AuditHash(b.chain[i].payload, b.chain[i].prev)
  <2>1. i \in 1..Len(log)
    BY <1>1, <1>2, LenProperties
  <2> QED BY <1>2, <2>1 DEF ChainLinked
<1>4. a[1] # "broken"
  BY <1>1, <1>3 DEF VerifyAuditChain
<1>5. a[1] # "hash"
  BY <1>1, <1>3 DEF VerifyAuditChain
<1>6. ASSUME a[1] = "missing" PROVE i > b.logged
  <2>1. of = {}
    BY <1>1, <1>6 DEF VerifyAuditChain
  <2>2. SUFFICES ASSUME i <= b.logged PROVE FALSE
    BY <1>1, <1>2 DEF FaithfulCopy
  <2>3. i \in 1..b.logged
    BY <1>1, <1>2, <2>2 DEF FaithfulCopy
  <2>4. PICK r \in b.records : r.key = b.chain[i].key
    BY <1>2, <2>3 DEF FaithfulCopy
  <2>5. r.payload \in of
    BY <2>4
  <2> QED BY <2>1, <2>5
<1> QED BY <1>1, <1>4, <1>5, <1>6

(* A bundle file stays true of the database it came from, for any number of *)
(* stores that write while it is made and after.                            *)
THEOREM BundleStaysFaithful == BundleSpec => []BundleIsFaithful
<1>1. BundleInit => BundleInv
  BY DEF BundleInit, BundleInv
<1>2. TypeOK /\ EntriesStored /\ BundleInv /\ [BundleNext]_allVars => BundleInv'
  BY BundleStep
<1>3. BundleInv /\ ChainLinked => BundleIsFaithful
  <2> SUFFICES ASSUME BundleInv, ChainLinked, bundle # None PROVE BundleIsFaithful
    BY DEF BundleIsFaithful
  <2>1. FaithfulCopy(bundle.records, bundle.logged) /\ LogPrefix(bundle.chain)
    BY DEF BundleInv
  <2>2. \A r \in bundle.records : records[r.key] = ImportedRow(r)
    BY <2>1 DEF FaithfulCopy
  <2>3. \A i \in 1..Len(bundle.chain) : i <= Len(log) /\ bundle.chain[i] = log[i]
    BY <2>1 DEF LogPrefix, FaithfulCopy
  <2>4. \A a \in VerifyAuditChain(bundle.chain, bundle.records) :
          a[1] = "payload" \/ (a[1] = "missing" /\ a[2] > bundle.logged)
    BY <2>1, CopyVerifies
  <2> QED BY <2>2, <2>3, <2>4 DEF BundleIsFaithful
<1> QED BY <1>1, <1>2, <1>3, ExportsOnlyRead, TypeCorrect, EntriesAreStored, ChainIsLinked,
           PTL DEF BundleSpec
=============================================================================
