--------------------------- MODULE TelemetryProofs ---------------------------
(***************************************************************************)
(* Proofs about telemetry: a live run's capture and the training samples   *)
(* made of a flow export.                                                  *)
(*                                                                         *)
(* Whatever the wire brings, however late the reader stores a packet and   *)
(* however the run is stopped, no packet is collected twice, the states    *)
(* cut what is collected into windows, bins and flows account for all of   *)
(* it, and the manifest is honest; for any number of probes, lines,        *)
(* windows and ticks.                                                      *)
(*                                                                         *)
(* Whatever rows an export holds, its flows fall into states that tile     *)
(* time, the samples are the stretches that were measured throughout,      *)
(* splits are honest, labels tell one story and rollouts agree; for any    *)
(* window, long gap, depth, horizon, block left out and fitted model.      *)
(***************************************************************************)
EXTENDS PacketCapture, TrainingData, FiniteSetTheorems, SequenceTheorems, TLAPS

-----------------------------------------------------------------------------
(* Integers.                                                                *)

(* What a quotient is.                                                      *)
LEMMA DivIs ==
  ASSUME NEW t \in Int, NEW w \in Nat \ {0}
  PROVE  /\ t \div w \in Int /\ (t \div w) * w <= t /\ t < (t \div w) * w + w
         /\ t \in Nat => t \div w \in Nat
OBVIOUS

(* Different multiples are a whole factor apart.                            *)
LEMMA MultiplesAreApart ==
  ASSUME NEW p \in Int, NEW q \in Int, NEW w \in Nat \ {0}, p < q
  PROVE  p * w \in Int /\ q * w \in Int /\ p * w + w <= q * w
OBVIOUS

(* A multiple is divided exactly.                                           *)
LEMMA MultiplesDivide ==
  ASSUME NEW p \in Int, NEW w \in Nat \ {0}
  PROVE  (p * w) \div w = p
OBVIOUS

(* InOrder lists a finite set of integers once, least first.                *)
LEMMA InOrderIs ==
  ASSUME NEW S \in SUBSET Int, IsFiniteSet(S)
  PROVE  /\ Cardinality(S) \in Nat /\ InOrder(S) \in [1..Cardinality(S) -> S]
         /\ \A i, j \in 1..Cardinality(S) : i < j => InOrder(S)[i] < InOrder(S)[j]
         /\ \A k \in S : \E i \in 1..Cardinality(S) : InOrder(S)[i] = k
<1> DEFINE upTo(k) == {i \in S : i <= k}
           place(k) == Cardinality(upTo(k))
           n == Cardinality(S)
           f == [k \in S |-> place(k)]
           pick(j) == CHOOSE k \in S : place(k) = j
<1>1. \A k \in S : k \in Int
  OBVIOUS
<1>2. n \in Nat
  BY FS_CardinalityType
<1>3. \A k \in S : /\ IsFiniteSet(upTo(k)) /\ place(k) \in 1..n
  <2> SUFFICES ASSUME NEW k \in S
               PROVE  IsFiniteSet(upTo(k)) /\ place(k) \in 1..n
    OBVIOUS
  <2>1. upTo(k) \in SUBSET S /\ k \in upTo(k)
    BY <1>1
  <2> HIDE DEF upTo, n
  <2>2. IsFiniteSet(upTo(k)) /\ place(k) <= n
    BY <2>1, FS_Subset DEF n
  <2>3. place(k) \in Nat /\ place(k) # 0
    BY <2>1, <2>2, FS_CardinalityType, FS_EmptySet
  <2> QED BY <1>2, <2>2, <2>3
<1>4. \A k, l \in S : k < l => place(k) < place(l)
  <2> SUFFICES ASSUME NEW k \in S, NEW l \in S, k < l
               PROVE  place(k) < place(l)
    OBVIOUS
  <2>1. upTo(k) \in SUBSET upTo(l) /\ l \in upTo(l) /\ l \notin upTo(k)
    <3>1. k \in Int /\ l \in Int
      BY <1>1
    <3>2. \A i \in S : i <= k => i <= l
      BY <1>1, <3>1
    <3>3. l <= l /\ ~(l <= k)
      BY <3>1
    <3> QED BY <3>2, <3>3
  <2>2. upTo(k) # upTo(l)
    BY <2>1
  <2> HIDE DEF upTo, n
  <2>3. IsFiniteSet(upTo(l)) /\ place(k) \in 1..n /\ place(l) \in 1..n
    BY <1>3
  <2>4. place(k) <= place(l) /\ place(k) # place(l)
    BY <2>1, <2>2, <2>3, FS_Subset
  <2> HIDE DEF place
  <2> QED BY <1>2, <2>3, <2>4
<1> HIDE DEF place, n
<1>5. f \in Injection(S, 1..n)
  <2>1. f \in [S -> 1..n]
    BY <1>3
  <2>2. \A k, l \in S : f[k] = f[l] => k = l
    <3> SUFFICES ASSUME NEW k \in S, NEW l \in S, f[k] = f[l], k # l
                 PROVE  FALSE
      OBVIOUS
    <3>1. place(k) = place(l)
      BY DEF f
    <3>2. place(k) \in 1..n /\ place(l) \in 1..n
      BY <1>3
    <3>3. place(k) \in Int /\ place(l) \in Int
      BY <1>2, <3>2
    <3> QED BY <1>1, <1>4, <3>1, <3>3
  <2> HIDE DEF f
  <2> QED BY <2>1, <2>2 DEF Injection, IsInjective
<1>6. f \in Surjection(S, 1..n)
  <2> HIDE DEF f
  <2>1. IsFiniteSet(1..n) /\ Cardinality(1..n) = n
    BY <1>2, FS_Interval
  <2> QED BY <1>5, <2>1, FS_Injection DEF n
<1>7. \A j \in 1..n : pick(j) \in S /\ place(pick(j)) = j
  <2>1. \A j \in 1..n : \E k \in S : f[k] = j
    BY <1>6 DEF Surjection
  <2> QED BY <2>1
<1> HIDE DEF f, pick
<1>8. InOrder(S) = [j \in 1..n |-> pick(j)]
  BY DEF InOrder, pick, place, n
<1>9. \A i, j \in 1..n : i < j => pick(i) < pick(j)
  <2> SUFFICES ASSUME NEW i \in 1..n, NEW j \in 1..n, i < j, ~(pick(i) < pick(j))
               PROVE  FALSE
    BY <1>8
  <2>1. pick(i) \in S /\ pick(j) \in S /\ place(pick(i)) = i /\ place(pick(j)) = j
    BY <1>7
  <2>2. pick(j) < pick(i) \/ pick(j) = pick(i)
    <3>1. pick(i) \in Int /\ pick(j) \in Int
      BY <1>1, <2>1
    <3> QED BY <3>1
  <2>3. ~(pick(j) < pick(i))
    <3>1. pick(j) < pick(i) => j < i
      BY <1>4, <2>1
    <3>2. i \in Int /\ j \in Int
      BY <1>2
    <3> QED BY <3>1, <3>2
  <2> QED BY <1>2, <2>1, <2>2, <2>3
<1>10. \A k \in S : \E i \in 1..n : pick(i) = k
  <2> SUFFICES ASSUME NEW k \in S
               PROVE  \E i \in 1..n : pick(i) = k
    OBVIOUS
  <2>1. place(k) \in 1..n
    BY <1>3
  <2>2. pick(place(k)) \in S /\ place(pick(place(k))) = place(k)
    BY <1>7, <2>1
  <2>3. f[pick(place(k))] = f[k]
    BY <2>2 DEF f
  <2>4. pick(place(k)) = k
    BY <1>5, <2>2, <2>3 DEF Injection, IsInjective
  <2> QED BY <2>1, <2>4
<1> QED BY <1>2, <1>7, <1>8, <1>9, <1>10 DEF n

(* A finite set that has a member has a least and a greatest one.           *)
LEMMA ExtremesAre ==
  ASSUME NEW S \in SUBSET Int, IsFiniteSet(S), S # {}
  PROVE  /\ Min(S) \in S /\ \A x \in S : Min(S) <= x
         /\ Max(S) \in S /\ \A x \in S : x <= Max(S)
<1> DEFINE n == Cardinality(S)
           at == InOrder(S)
<1>1. n \in Nat /\ n # 0
  BY FS_CardinalityType, FS_EmptySet
<1>2. /\ at \in [1..n -> S]
      /\ \A i, j \in 1..n : i < j => at[i] < at[j]
      /\ \A k \in S : \E i \in 1..n : at[i] = k
  BY InOrderIs
<1> HIDE DEF n, at
<1>3. at[1] \in S /\ at[n] \in S
  BY <1>1, <1>2
<1>4. \A x \in S : at[1] <= x /\ x <= at[n]
  <2> SUFFICES ASSUME NEW x \in S
               PROVE  at[1] <= x /\ x <= at[n]
    OBVIOUS
  <2>1. PICK i \in 1..n : at[i] = x
    BY <1>2
  <2>2. (i = 1 \/ 1 < i) /\ (i = n \/ i < n) /\ 1 \in 1..n /\ n \in 1..n
    BY <1>1
  <2>3. at[1] \in Int /\ at[i] \in Int /\ at[n] \in Int
    BY <1>2, <1>3
  <2>4. at[1] <= at[i]
    BY <1>2, <2>2, <2>3
  <2>5. at[i] <= at[n]
    BY <1>2, <2>2, <2>3
  <2> QED BY <2>1, <2>4, <2>5
<1>5. \E x \in S : \A y \in S : x <= y
  BY <1>3, <1>4
<1>6. \E x \in S : \A y \in S : x >= y
  BY <1>3, <1>4
<1> QED BY <1>5, <1>6 DEF Min, Max

(* Numbers up to a bound that hold 0, and with a number the next, hold all. *)
LEMMA UpToInduction ==
  ASSUME NEW N \in Nat, NEW S, 0 \in S, \A n \in 1..N : n - 1 \in S => n \in S
  PROVE  \A n \in 0..N : n \in S
<1> DEFINE bad == {n \in 0..N : n \notin S}
<1> SUFFICES ASSUME bad # {}
             PROVE  FALSE
  OBVIOUS
<1> DEFINE n == Min(bad)
<1>1. n \in bad /\ \A k \in bad : n <= k
  <2>1. bad \in SUBSET Int /\ bad \in SUBSET (0..N) /\ IsFiniteSet(0..N)
    BY FS_Interval
  <2>2. IsFiniteSet(bad)
    BY <2>1, FS_Subset
  <2> HIDE DEF bad
  <2> QED BY <2>1, <2>2, ExtremesAre
<1> HIDE DEF n
<1>2. n \in 0..N /\ n \notin S
  BY <1>1
<1>3. n # 0
  BY <1>2
<1>4. n \in 1..N /\ n - 1 \in 0..N /\ n - 1 \notin bad
  BY <1>1, <1>2, <1>3
<1> QED BY <1>2, <1>4

(* What a function takes on a finite set is finite.                         *)
LEMMA ImageIsFinite ==
  ASSUME NEW S, NEW g, IsFiniteSet(S), DOMAIN g = S
  PROVE  IsFiniteSet({g[x] : x \in S})
<1> DEFINE T == {g[x] : x \in S}
           h == [x \in S |-> g[x]]
<1>1. h \in Surjection(S, T)
  BY DEF Surjection
<1> QED BY <1>1, FS_Surjection

-----------------------------------------------------------------------------
(* The capture: what holds throughout a run.                                *)

Packet == [id: Nat, at: Nat, src: Int, dst: Int]

CaptureTypeOK ==
  /\ clock \in Nat /\ lines \in Nat /\ process \in BOOLEAN
  /\ pipe \in Seq(Packet \union {None})
  /\ reader.at = "storing" => reader.holds \in Packet
  /\ stopEvent \in BOOLEAN /\ outsiders \subseteq Foreign \union Locals
  /\ packets \in Seq(Packet)
  /\ stats \in [captured: Nat, inScope: Nat, violations: Nat]
  /\ tStart \in Nat
  /\ phase \in {"idle", "sleeping", "between", "orphaned", "halting", "joining", "stopped"}
  /\ collected \in Seq(Packet)
  /\ \E S : /\ states \in Seq(S)
            /\ \A s \in S : s.from \in Nat /\ s.packets \in Nat

(* A packet's line comes after the lines of the packets stored before it.   *)
IdsGrow ==
  /\ \A i, j \in DOMAIN packets : i < j => packets[i].id < packets[j].id
  /\ \A i \in DOMAIN packets : packets[i].id <= lines
  /\ \A i, j \in DOMAIN pipe :
       i < j /\ pipe[i] # None /\ pipe[j] # None => pipe[i].id < pipe[j].id
  /\ \A j \in DOMAIN pipe : pipe[j] # None => pipe[j].id <= lines
  /\ \A i \in DOMAIN packets, j \in DOMAIN pipe :
       pipe[j] # None => packets[i].id < pipe[j].id
  /\ reader.at = "storing" =>
       /\ reader.holds.id <= lines
       /\ \A i \in DOMAIN packets : packets[i].id < reader.holds.id
       /\ \A j \in DOMAIN pipe : pipe[j] # None => reader.holds.id < pipe[j].id

(* What was collected was stored before the window in progress began.       *)
CollectedIsPast ==
  /\ \A i \in DOMAIN collected : \E k \in DOMAIN packets : collected[i] = packets[k]
  /\ \A i, j \in DOMAIN collected : collected[i].id = collected[j].id => i = j
  /\ \A k \in DOMAIN states : states[k].from <= tStart
  /\ tStart <= clock
  /\ phase = "idle" => collected = <<>> /\ states = <<>>
  /\ phase = "sleeping" => \A i \in DOMAIN collected : collected[i].at < tStart
  /\ phase = "between" => \A i \in DOMAIN collected : collected[i].at < clock

(* The cuts between the states' packets.                                    *)
IsCut(cut) ==
  /\ cut[1] = 0 /\ cut[Len(states) + 1] = Len(collected)
  /\ \A k \in DOMAIN states :
       /\ states[k].packets = cut[k + 1] - cut[k]
       /\ \A i \in DOMAIN collected : cut[k] < i <=> states[k].from <= collected[i].at

StatesCut ==
  \E cut \in [1..(Len(states) + 1) -> 0..Len(collected)] : IsCut(cut)

(* The counts tell whether a packet from outside was stored.                *)
CountsTell ==
  stats.violations = 0 => \A k \in DOMAIN packets : IsInScope(packets[k])

ManifestHolds ==
  manifest # None =>
    /\ phase \in {"halting", "joining", "stopped"}
    /\ manifest.valid \in BOOLEAN
    /\ manifest.valid => \A i \in DOMAIN collected : IsInScope(collected[i])
    /\ manifest.valid <=> manifest.reasons = {}
    /\ manifest.packets = Len(collected) /\ manifest.states = Len(states)

CaptureInv ==
  /\ CaptureTypeOK /\ IdsGrow /\ CollectedIsPast
  /\ StatesCut /\ CountsTell /\ ManifestHolds
-----------------------------------------------------------------------------
(* Selecting by rank gives each chosen packet once.                         *)
LEMMA SelectedAre ==
  ASSUME packets \in Seq(Packet), NEW chosen \in SUBSET DOMAIN packets
  PROVE  /\ Selected(packets, chosen) \in Seq(Packet)
         /\ \E from \in [DOMAIN Selected(packets, chosen) -> chosen] :
              /\ \A j \in DOMAIN Selected(packets, chosen) : Selected(packets, chosen)[j] = packets[from[j]]
              /\ \A i, j \in DOMAIN Selected(packets, chosen) : from[i] = from[j] => i = j
<1> DEFINE n == Cardinality(chosen)
           at == InOrder(chosen)
<1>1. /\ DOMAIN packets = 1..Len(packets) /\ Len(packets) \in Nat
      /\ chosen \in SUBSET Int
  BY LenProperties
<1>2. IsFiniteSet(chosen)
  <2>1. IsFiniteSet(DOMAIN packets)
    BY <1>1, FS_Interval
  <2> QED BY <2>1, FS_Subset
<1>3. /\ n \in Nat /\ at \in [1..n -> chosen]
      /\ \A i, j \in 1..n : i < j => at[i] < at[j]
  BY <1>1, <1>2, InOrderIs
<1>4. Selected(packets, chosen) = [j \in 1..n |-> packets[at[j]]]
  BY DEF Selected, InOrder
<1> HIDE DEF n, at
<1>5. \A j \in 1..n : packets[at[j]] \in Packet
  BY <1>1, <1>3, ElementOfSeq
<1>6. Selected(packets, chosen) \in Seq(Packet) /\ DOMAIN Selected(packets, chosen) = 1..n
  BY <1>3, <1>4, <1>5
<1>7. \A i, j \in 1..n : at[i] = at[j] => i = j
  <2> SUFFICES ASSUME NEW i \in 1..n, NEW j \in 1..n, at[i] = at[j], i # j
               PROVE  FALSE
    OBVIOUS
  <2>1. i < j \/ j < i
    BY <1>3
  <2>2. at[i] \in Int
    BY <1>1, <1>3
  <2> QED BY <1>3, <2>1, <2>2
<1> QED BY <1>3, <1>4, <1>6, <1>7

-----------------------------------------------------------------------------
(* The wire, the pipe and the reader.                                       *)

(* A line of tshark's keeps the lines in order.                             *)
LEMMA LineKeepsOrder ==
  ASSUME CaptureTypeOK, IdsGrow, NEW line \in Packet \union {None},
         line # None => line.id = lines + 1,
         pipe' = Append(pipe, line), lines' = lines + 1,
         UNCHANGED <<packets, reader>>
  PROVE  IdsGrow' /\ pipe' \in Seq(Packet \union {None}) /\ lines' \in Nat
<1> DEFINE n == Len(pipe)
           Line == Packet \union {None}
<1>1. /\ pipe \in Seq(Line) /\ n \in Nat /\ DOMAIN pipe = 1..n
      /\ lines \in Nat /\ packets \in Seq(Packet)
      /\ reader.at = "storing" => reader.holds \in Packet
  BY LenProperties DEF CaptureTypeOK
<1>2. /\ pipe' \in Seq(Line) /\ DOMAIN pipe' = 1..(n + 1)
      /\ \A i \in 1..n : pipe'[i] = pipe[i]
      /\ pipe'[n + 1] = line
  BY <1>1, AppendProperties, LenProperties
<1>3. /\ \A i \in DOMAIN packets : packets[i].id \in Nat
      /\ \A j \in 1..n : pipe[j] # None => pipe[j].id \in Nat
      /\ reader.at = "storing" => reader.holds.id \in Nat
  <2>1. \A i \in DOMAIN packets : packets[i] \in Packet
    BY <1>1, ElementOfSeq, LenProperties
  <2>2. \A j \in 1..n : pipe[j] \in Line
    BY <1>1, ElementOfSeq
  <2>3. \A q \in Packet : q.id \in Nat
    BY DEF Packet
  <2> QED BY <1>1, <2>1, <2>2, <2>3
<1> HIDE DEF n, Line
<1>4. \A i, j \in DOMAIN pipe' :
        i < j /\ pipe'[i] # None /\ pipe'[j] # None => pipe'[i].id < pipe'[j].id
  <2> SUFFICES ASSUME NEW i \in 1..(n + 1), NEW j \in 1..(n + 1),
                      i < j, pipe'[i] # None, pipe'[j] # None
               PROVE  pipe'[i].id < pipe'[j].id
    BY <1>2
  <2>1. i \in 1..n /\ pipe'[i] = pipe[i] /\ pipe[i].id <= lines
    BY <1>1, <1>2 DEF IdsGrow, n
  <2>2. CASE j \in 1..n
    BY <1>1, <1>2, <2>1, <2>2 DEF IdsGrow
  <2>3. CASE j = n + 1
    <3>1. pipe[i].id \in Nat
      BY <1>3, <2>1
    <3>2. pipe'[j].id = lines + 1
      BY <1>2, <2>3
    <3> QED BY <1>1, <2>1, <3>1, <3>2
  <2>4. j \in 1..n \/ j = n + 1
    BY <1>1
  <2> QED BY <2>2, <2>3, <2>4
<1>5. \A j \in DOMAIN pipe' : pipe'[j] # None => pipe'[j].id <= lines'
  <2> SUFFICES ASSUME NEW j \in 1..(n + 1), pipe'[j] # None
               PROVE  pipe'[j].id <= lines'
    BY <1>2
  <2>1. CASE j \in 1..n
    <3>1. pipe'[j] = pipe[j] /\ pipe[j].id <= lines /\ pipe[j].id \in Nat
      BY <1>1, <1>2, <1>3, <2>1 DEF IdsGrow
    <3> QED BY <1>1, <3>1
  <2>2. CASE j = n + 1
    BY <1>1, <1>2, <2>2
  <2> QED BY <1>1, <2>1, <2>2
<1>6. \A i \in DOMAIN packets, j \in DOMAIN pipe' :
        pipe'[j] # None => packets[i].id < pipe'[j].id
  <2> SUFFICES ASSUME NEW i \in DOMAIN packets, NEW j \in 1..(n + 1), pipe'[j] # None
               PROVE  packets[i].id < pipe'[j].id
    BY <1>2
  <2>1. CASE j \in 1..n
    BY <1>1, <1>2, <2>1 DEF IdsGrow
  <2>2. CASE j = n + 1
    <3>1. packets[i].id <= lines /\ packets[i].id \in Nat
      BY <1>3 DEF IdsGrow
    <3> QED BY <1>1, <1>2, <2>2, <3>1
  <2> QED BY <1>1, <2>1, <2>2
<1>7. reader.at = "storing" =>
        \A j \in DOMAIN pipe' : pipe'[j] # None => reader.holds.id < pipe'[j].id
  <2> SUFFICES ASSUME reader.at = "storing", NEW j \in 1..(n + 1), pipe'[j] # None
               PROVE  reader.holds.id < pipe'[j].id
    BY <1>2
  <2>1. reader.holds.id <= lines /\ reader.holds.id \in Nat
    BY <1>3 DEF IdsGrow
  <2>2. CASE j \in 1..n
    BY <1>1, <1>2, <2>2 DEF IdsGrow
  <2>3. CASE j = n + 1
    BY <1>1, <1>2, <2>1, <2>3
  <2> QED BY <1>1, <2>2, <2>3
<1>8. /\ \A i \in DOMAIN packets : packets[i].id <= lines'
      /\ reader.at = "storing" => reader.holds.id <= lines'
  BY <1>1, <1>3 DEF IdsGrow
<1> QED BY <1>1, <1>2, <1>4, <1>5, <1>6, <1>7, <1>8 DEF IdsGrow, Line

(* So does a packet seen on the wire, and one that is not captured.         *)
LEMMA ObserveKeepsOrder ==
  ASSUME CaptureTypeOK, IdsGrow, NEW src \in Int, NEW dst \in Int,
         Observe(src, dst), UNCHANGED <<packets, reader>>
  PROVE  IdsGrow' /\ pipe' \in Seq(Packet \union {None}) /\ lines' \in Nat
<1>1. CASE process /\ lines < MaxLines
  <2> DEFINE p == [id |-> lines + 1, at |-> clock, src |-> src, dst |-> dst]
  <2>1. p \in Packet /\ p.id = lines + 1
    BY DEF CaptureTypeOK, Packet
  <2>2. pipe' = Append(pipe, p) /\ lines' = lines + 1
    BY <1>1 DEF Observe
  <2> HIDE DEF p
  <2> QED BY <2>1, <2>2, LineKeepsOrder
<1>2. CASE ~(process /\ lines < MaxLines)
  BY <1>2 DEF Observe, CaptureTypeOK, IdsGrow
<1> QED BY <1>1, <1>2

(* The reader takes the first line of the pipe, and with it its place.      *)
LEMMA ReadKeepsOrder ==
  ASSUME CaptureTypeOK, IdsGrow, ReaderReads
  PROVE  IdsGrow' /\ CaptureTypeOK'
<1> DEFINE n == Len(pipe)
           Line == Packet \union {None}
           h == Head(pipe)
<1>1. /\ pipe \in Seq(Line) /\ n \in Nat \ {0} /\ DOMAIN pipe = 1..n
      /\ pipe # <<>> /\ packets \in Seq(Packet)
  BY LenProperties, EmptySeq DEF CaptureTypeOK, ReaderReads
<1>2. /\ pipe' \in Seq(Line) /\ DOMAIN pipe' = 1..(n - 1)
      /\ \A i \in 1..(n - 1) : pipe'[i] = pipe[i + 1]
      /\ h = pipe[1] /\ h \in Line
  BY <1>1, HeadTailProperties, LenProperties DEF ReaderReads
<1>3. /\ UNCHANGED <<clock, lines, process, stopEvent, packets, stats, phase, tStart,
                     collected, states, outsiders>>
      /\ reader' = Idle \/ reader' = Ended
           \/ (h # None /\ reader' = [at |-> "storing", holds |-> h])
  BY DEF ReaderReads, loopVars, trafficVars
<1>4. reader'.at = "storing" => h # None /\ reader'.holds = h
  BY <1>3 DEF Idle, Ended
<1> HIDE DEF n, Line, h
<1>5. \A j \in 1..(n - 1) : j + 1 \in DOMAIN pipe /\ 1 < j + 1
  BY <1>1
<1>6. \A i, j \in DOMAIN pipe' :
        i < j /\ pipe'[i] # None /\ pipe'[j] # None => pipe'[i].id < pipe'[j].id
  <2> SUFFICES ASSUME NEW i \in 1..(n - 1), NEW j \in 1..(n - 1),
                      i < j, pipe'[i] # None, pipe'[j] # None
               PROVE  pipe'[i].id < pipe'[j].id
    BY <1>2
  <2>1. i + 1 < j + 1 /\ pipe'[i] = pipe[i + 1] /\ pipe'[j] = pipe[j + 1]
    BY <1>1, <1>2
  <2> QED BY <1>5, <2>1 DEF IdsGrow
<1>7. \A j \in DOMAIN pipe' : pipe'[j] # None => pipe'[j].id <= lines'
  BY <1>2, <1>3, <1>5 DEF IdsGrow
<1>8. \A i \in DOMAIN packets', j \in DOMAIN pipe' :
        pipe'[j] # None => packets'[i].id < pipe'[j].id
  BY <1>2, <1>3, <1>5 DEF IdsGrow
<1>9. reader'.at = "storing" =>
        /\ reader'.holds \in Packet
        /\ reader'.holds.id <= lines'
        /\ \A i \in DOMAIN packets' : packets'[i].id < reader'.holds.id
        /\ \A j \in DOMAIN pipe' : pipe'[j] # None => reader'.holds.id < pipe'[j].id
  <2> SUFFICES ASSUME reader'.at = "storing"
               PROVE  /\ h \in Packet /\ h.id <= lines
                      /\ \A i \in DOMAIN packets : packets[i].id < h.id
                      /\ \A j \in DOMAIN pipe' : pipe'[j] # None => h.id < pipe'[j].id
    BY <1>3, <1>4
  <2>1. h # None /\ h = pipe[1] /\ 1 \in DOMAIN pipe
    BY <1>1, <1>2, <1>4
  <2>2. \A j \in DOMAIN pipe' : pipe'[j] # None => h.id < pipe'[j].id
    BY <1>2, <1>5, <2>1 DEF IdsGrow
  <2> QED BY <1>2, <2>1, <2>2 DEF IdsGrow, Line
<1>10. IdsGrow'
  BY <1>3, <1>6, <1>7, <1>8, <1>9 DEF IdsGrow
<1>11. CaptureTypeOK'
  BY <1>2, <1>3, <1>9 DEF CaptureTypeOK, Line
<1> QED BY <1>10, <1>11

(* The reader stores what it holds, counts it, and stays in order.          *)
LEMMA StoreKeepsOrder ==
  ASSUME CaptureTypeOK, IdsGrow, CountsTell, ReaderStores
  PROVE  /\ IdsGrow' /\ CountsTell' /\ CaptureTypeOK'
         /\ \A k \in DOMAIN packets : k \in DOMAIN packets' /\ packets'[k] = packets[k]
<1> DEFINE n == Len(packets)
           h == reader.holds
<1>1. /\ packets \in Seq(Packet) /\ n \in Nat /\ DOMAIN packets = 1..n /\ h \in Packet
  BY LenProperties DEF CaptureTypeOK, ReaderStores
<1>2. /\ packets' \in Seq(Packet) /\ DOMAIN packets' = 1..(n + 1)
      /\ \A i \in 1..n : packets'[i] = packets[i]
      /\ packets'[n + 1] = h
  BY <1>1, AppendProperties, LenProperties DEF ReaderStores
<1>3. /\ UNCHANGED <<clock, lines, process, pipe, stopEvent, phase, tStart, collected, states>>
      /\ UNCHANGED outsiders /\ reader'.at # "storing" /\ stats' = CountPacket(stats, h)
  BY DEF ReaderStores, loopVars, trafficVars, Idle
<1>4. /\ h.id <= lines
      /\ \A i \in DOMAIN packets : packets[i].id < h.id
      /\ \A j \in DOMAIN pipe : pipe[j] # None => h.id < pipe[j].id
  BY DEF IdsGrow, ReaderStores
<1> HIDE DEF n, h
<1>5. \A i, j \in DOMAIN packets' : i < j => packets'[i].id < packets'[j].id
  <2> SUFFICES ASSUME NEW i \in 1..(n + 1), NEW j \in 1..(n + 1), i < j
               PROVE  packets'[i].id < packets'[j].id
    BY <1>2
  <2>1. i \in 1..n
    BY <1>1
  <2>2. CASE j \in 1..n
    BY <1>1, <1>2, <2>1, <2>2 DEF IdsGrow
  <2>3. CASE j = n + 1
    BY <1>1, <1>2, <1>4, <2>1, <2>3
  <2> QED BY <1>1, <2>2, <2>3
<1>6. \A i \in DOMAIN packets' :
        /\ packets'[i].id <= lines
        /\ \A j \in DOMAIN pipe : pipe[j] # None => packets'[i].id < pipe[j].id
  <2> SUFFICES ASSUME NEW i \in 1..(n + 1)
               PROVE  /\ packets'[i].id <= lines
                      /\ \A j \in DOMAIN pipe : pipe[j] # None => packets'[i].id < pipe[j].id
    BY <1>2
  <2>1. CASE i \in 1..n
    BY <1>1, <1>2, <2>1 DEF IdsGrow
  <2>2. CASE i = n + 1
    BY <1>2, <1>4, <2>2
  <2> QED BY <1>1, <2>1, <2>2
<1>7. IdsGrow'
  BY <1>3, <1>5, <1>6 DEF IdsGrow
<1>8. /\ stats \in [captured: Nat, inScope: Nat, violations: Nat]
      /\ stats' = [captured |-> stats.captured + 1,
                   inScope |-> IF IsInScope(h) THEN stats.inScope + 1 ELSE stats.inScope,
                   violations |-> IF IsInScope(h) THEN stats.violations
                                                  ELSE stats.violations + 1]
  BY <1>3 DEF CaptureTypeOK, CountPacket
<1>9. stats' \in [captured: Nat, inScope: Nat, violations: Nat]
  BY <1>8
<1>10. stats'.violations = 0 => stats.violations = 0 /\ IsInScope(h)
  BY <1>8
<1>11. CountsTell'
  <2> SUFFICES ASSUME stats'.violations = 0, NEW k \in 1..(n + 1)
               PROVE  IsInScope(packets'[k])
    BY <1>2 DEF CountsTell, IsInScope, AllowedAddress, AllowedPort, Probe
  <2>1. CASE k \in 1..n
    BY <1>1, <1>2, <1>10, <2>1 DEF CountsTell
  <2>2. CASE k = n + 1
    BY <1>2, <1>10, <2>2
  <2> QED BY <1>1, <2>1, <2>2
<1>12. CaptureTypeOK'
  BY <1>2, <1>3, <1>9 DEF CaptureTypeOK
<1> QED BY <1>1, <1>2, <1>7, <1>11, <1>12

-----------------------------------------------------------------------------
(* The live loop.                                                           *)

(* The packets of a window are stored packets stamped in it, each once.     *)
LEMMA RangeAre ==
  ASSUME CaptureTypeOK, IdsGrow, NEW from \in Nat, NEW until \in Nat
  PROVE  /\ PacketsInRange(from, until) \in Seq(Packet)
         /\ \A j \in DOMAIN PacketsInRange(from, until) :
              /\ \E k \in DOMAIN packets : PacketsInRange(from, until)[j] = packets[k]
              /\ from <= PacketsInRange(from, until)[j].at
              /\ PacketsInRange(from, until)[j].at < until
         /\ \A i, j \in DOMAIN PacketsInRange(from, until) :
              PacketsInRange(from, until)[i].id = PacketsInRange(from, until)[j].id => i = j
<1> DEFINE inside == {k \in DOMAIN packets : from <= packets[k].at /\ packets[k].at < until}
           sel == PacketsInRange(from, until)
<1>1. packets \in Seq(Packet) /\ DOMAIN packets \subseteq Nat
      /\ \A k \in DOMAIN packets : packets[k].id \in Nat
  <2>1. /\ packets \in Seq(Packet) /\ Len(packets) \in Nat
        /\ DOMAIN packets = 1..Len(packets)
    BY LenProperties DEF CaptureTypeOK
  <2>2. \A k \in DOMAIN packets : packets[k] \in Packet
    BY <2>1, ElementOfSeq
  <2> QED BY <2>1, <2>2 DEF Packet
<1>2. sel = Selected(packets, inside) /\ inside \in SUBSET DOMAIN packets
  BY DEF PacketsInRange
<1>3. /\ sel \in Seq(Packet)
      /\ \E f \in [DOMAIN sel -> inside] :
           /\ \A j \in DOMAIN sel : sel[j] = packets[f[j]]
           /\ \A i, j \in DOMAIN sel : f[i] = f[j] => i = j
  <2> HIDE DEF inside, sel
  <2> QED BY <1>1, <1>2, SelectedAre
<1>4. PICK f \in [DOMAIN sel -> inside] :
           /\ \A j \in DOMAIN sel : sel[j] = packets[f[j]]
           /\ \A i, j \in DOMAIN sel : f[i] = f[j] => i = j
  BY <1>3
<1>5. \A k, l \in DOMAIN packets : packets[k].id = packets[l].id => k = l
  <2> SUFFICES ASSUME NEW k \in DOMAIN packets, NEW l \in DOMAIN packets,
                      packets[k].id = packets[l].id, k # l
               PROVE  FALSE
    OBVIOUS
  <2>1. k < l \/ l < k
    BY <1>1
  <2> QED BY <1>1, <2>1 DEF IdsGrow
<1> HIDE DEF sel
<1>6. \A j \in DOMAIN sel : /\ f[j] \in DOMAIN packets /\ sel[j] = packets[f[j]]
                            /\ from <= sel[j].at /\ sel[j].at < until
  BY <1>4
<1>7. \A i, j \in DOMAIN sel : sel[i].id = sel[j].id => i = j
  BY <1>4, <1>5, <1>6
<1> QED BY <1>3, <1>6, <1>7 DEF sel

(* A window's packets follow those collected before it, so that the cut of   *)
(* what was collected grows by one.                                         *)
LEMMA WindowCuts ==
  ASSUME CaptureInv, WindowEnds
  PROVE  CaptureInv'
<1> DEFINE n == Len(collected)
           m == Len(states)
           sel == PacketsInRange(tStart, clock)
           b == BuildState(sel, tStart)
<1>1. /\ collected \in Seq(Packet) /\ n \in Nat /\ DOMAIN collected = 1..n
      /\ tStart \in Nat /\ clock \in Nat /\ phase = "sleeping"
  BY LenProperties DEF CaptureInv, CaptureTypeOK, WindowEnds
<1>2. PICK S : states \in Seq(S) /\ \A s \in S : s.from \in Nat /\ s.packets \in Nat
  BY DEF CaptureInv, CaptureTypeOK
<1>3. m \in Nat /\ DOMAIN states = 1..m
  BY <1>2, LenProperties
<1>4. /\ sel \in Seq(Packet) /\ Len(sel) \in Nat /\ DOMAIN sel = 1..Len(sel)
      /\ \A j \in DOMAIN sel :
              /\ \E k \in DOMAIN packets : sel[j] = packets[k]
              /\ tStart <= sel[j].at /\ sel[j].at < clock
      /\ \A i, j \in DOMAIN sel : sel[i].id = sel[j].id => i = j
  <2>1. CaptureTypeOK /\ IdsGrow
    BY DEF CaptureInv
  <2> HIDE DEF sel
  <2> QED BY <1>1, <2>1, RangeAre, LenProperties DEF sel
<1> HIDE DEF sel
<1>5. b.from = tStart /\ b.packets = Len(sel)
  BY <1>4 DEF BuildState, IdleState, ObservedState
<1>6. /\ collected' = collected \o sel /\ states' = Append(states, b)
      /\ phase' \in {"between", "halting"}
      /\ UNCHANGED <<clock, lines, process, pipe, reader, stopEvent, packets, stats,
                     tStart, manifest, outsiders>>
  BY DEF WindowEnds, WindowBuilt, captureVars, trafficVars, sel
<1> HIDE DEF b
<1>7. /\ collected' \in Seq(Packet) /\ DOMAIN collected' = 1..(n + Len(sel))
      /\ Len(collected') = n + Len(sel)
      /\ \A i \in 1..n : collected'[i] = collected[i]
      /\ \A i \in (n + 1)..(n + Len(sel)) :
           i - n \in DOMAIN sel /\ collected'[i] = sel[i - n]
  <2>1. /\ collected' \in Seq(Packet) /\ Len(collected') = n + Len(sel)
        /\ \A i \in 1..(n + Len(sel)) : collected'[i] =
             IF i <= n THEN collected[i] ELSE sel[i - n]
    BY <1>1, <1>4, <1>6, ConcatProperties
  <2>2. DOMAIN collected' = 1..(n + Len(sel))
    BY <2>1, LenProperties
  <2>3. \A i \in (n + 1)..(n + Len(sel)) : i - n \in 1..Len(sel)
    BY <1>1, <1>4
  <2> HIDE DEF n
  <2> QED BY <1>1, <1>4, <2>1, <2>2, <2>3
<1>8. /\ states' \in Seq(S \union {b}) /\ DOMAIN states' = 1..(m + 1) /\ Len(states') = m + 1
      /\ \A k \in 1..m : states'[k] = states[k]
      /\ states'[m + 1] = b
  <2>1. states \in Seq(S \union {b}) /\ b \in S \union {b}
    BY <1>2
  <2> QED BY <1>6, <2>1, AppendProperties, LenProperties
<1>9. /\ \A i \in DOMAIN collected : collected[i].at < tStart
      /\ \A i \in DOMAIN collected : \E k \in DOMAIN packets : collected[i] = packets[k]
      /\ \A i, j \in DOMAIN collected : collected[i].id = collected[j].id => i = j
      /\ \A k \in DOMAIN states : states[k].from <= tStart
      /\ tStart <= clock
  BY <1>1 DEF CaptureInv, CollectedIsPast
<1>10. \A k \in 1..m : states[k].from \in Nat
  BY <1>2, <1>3, ElementOfSeq
<1>11. \A i \in DOMAIN collected : collected[i].at \in Nat
  <2>1. \A i \in DOMAIN collected : collected[i] \in Packet
    BY <1>1, ElementOfSeq
  <2> QED BY <2>1 DEF Packet
<1>12. \A j \in DOMAIN sel : sel[j].at \in Nat
  <2>1. \A j \in DOMAIN sel : sel[j] \in Packet
    BY <1>4, ElementOfSeq
  <2> QED BY <2>1 DEF Packet
<1> HIDE DEF n, m
<1>13. \A i \in DOMAIN collected' :
         \/ i \in 1..n /\ collected'[i] = collected[i] /\ collected'[i].at < tStart
         \/ /\ i > n /\ i - n \in DOMAIN sel /\ collected'[i] = sel[i - n]
            /\ tStart <= collected'[i].at /\ collected'[i].at < clock
  <2> SUFFICES ASSUME NEW i \in 1..(n + Len(sel))
               PROVE  \/ i \in 1..n /\ collected'[i] = collected[i] /\ collected'[i].at < tStart
                      \/ /\ i > n /\ i - n \in DOMAIN sel /\ collected'[i] = sel[i - n]
                         /\ tStart <= collected'[i].at /\ collected'[i].at < clock
    BY <1>7
  <2>1. i \in 1..n \/ i \in (n + 1)..(n + Len(sel))
    BY <1>1, <1>4
  <2>2. CASE i \in 1..n
    BY <1>1, <1>7, <1>9, <2>2
  <2>3. CASE i \in (n + 1)..(n + Len(sel))
    <3>1. i > n /\ i - n \in DOMAIN sel /\ collected'[i] = sel[i - n]
      BY <1>1, <1>4, <1>7, <2>3
    <3> QED BY <1>4, <3>1
  <2> QED BY <2>1, <2>2, <2>3
<1>14. CaptureTypeOK'
  <2>1. \A s \in S \union {b} : s.from \in Nat /\ s.packets \in Nat
    BY <1>1, <1>2, <1>4, <1>5
  <2>2. \E T : states' \in Seq(T) /\ \A s \in T : s.from \in Nat /\ s.packets \in Nat
    BY <1>8, <2>1
  <2> QED BY <1>6, <1>7, <2>2 DEF CaptureInv, CaptureTypeOK
<1>15. CollectedIsPast'
  <2>1. \A i \in DOMAIN collected' : \E k \in DOMAIN packets : collected'[i] = packets[k]
    BY <1>1, <1>4, <1>9, <1>13
  <2>2. \A i, j \in DOMAIN collected' : collected'[i].id = collected'[j].id => i = j
    <3> SUFFICES ASSUME NEW i \in DOMAIN collected', NEW j \in DOMAIN collected',
                        collected'[i].id = collected'[j].id
                 PROVE  i = j
      OBVIOUS
    <3>1. collected'[i] = collected'[j]
      <4>1. PICK k \in DOMAIN packets : collected'[i] = packets[k]
        BY <2>1
      <4>2. PICK l \in DOMAIN packets : collected'[j] = packets[l]
        BY <2>1
      <4>3. k \in Nat /\ l \in Nat /\ packets[k].id \in Nat /\ packets[l].id \in Nat
        <5>1. packets \in Seq(Packet) /\ DOMAIN packets \subseteq Nat
          BY LenProperties DEF CaptureInv, CaptureTypeOK
        <5>2. packets[k] \in Packet /\ packets[l] \in Packet
          BY <5>1, ElementOfSeq, LenProperties
        <5> QED BY <5>1, <5>2 DEF Packet
      <4>4. (k < l => packets[k].id < packets[l].id) /\ (l < k => packets[l].id < packets[k].id)
        BY DEF CaptureInv, IdsGrow
      <4>5. packets[k].id = packets[l].id
        BY <4>1, <4>2
      <4>6. k = l
        BY <4>3, <4>4, <4>5
      <4> QED BY <4>1, <4>2, <4>6
    <3>2. collected'[i].at \in Nat
      BY <1>1, <1>7, <1>11, <1>12, <1>13
    <3>3. CASE i \in 1..n /\ collected'[i] = collected[i] /\ collected'[i].at < tStart
      <4>1. collected'[j].at < tStart /\ collected'[j].at \in Nat
        BY <3>1, <3>2, <3>3
      <4>2. ~(tStart <= collected'[j].at)
        BY <1>1, <4>1
      <4>3. j \in 1..n /\ collected'[j] = collected[j]
        BY <1>13, <4>2
      <4> QED BY <1>1, <1>9, <3>1, <3>3, <4>3
    <3>4. CASE /\ i > n /\ i - n \in DOMAIN sel /\ collected'[i] = sel[i - n]
               /\ tStart <= collected'[i].at /\ collected'[i].at < clock
      <4>1. tStart <= collected'[j].at /\ collected'[j].at \in Nat
        BY <3>1, <3>2, <3>4
      <4>2. ~(collected'[j].at < tStart)
        BY <1>1, <4>1
      <4>3. j - n \in DOMAIN sel /\ collected'[j] = sel[j - n]
        BY <1>13, <4>2
      <4>4. i - n = j - n
        BY <1>4, <3>1, <3>4, <4>3
      <4>5. i \in Int /\ j \in Int
        BY <1>7
      <4> QED BY <1>1, <4>4, <4>5
    <3> QED BY <1>13, <3>3, <3>4
  <2>3. \A k \in DOMAIN states' : states'[k].from <= tStart
    <3> SUFFICES ASSUME NEW k \in 1..(m + 1)
                 PROVE  states'[k].from <= tStart
      BY <1>8
    <3>1. CASE k \in 1..m
      BY <1>3, <1>8, <1>9, <3>1
    <3>2. CASE k = m + 1
      BY <1>1, <1>5, <1>8, <3>2
    <3> QED BY <1>3, <3>1, <3>2
  <2>4. \A i \in DOMAIN collected' : collected'[i].at < clock
    <3> SUFFICES ASSUME NEW i \in DOMAIN collected'
                 PROVE  collected'[i].at < clock
      OBVIOUS
    <3>1. collected'[i].at \in Nat
      BY <1>1, <1>11, <1>12, <1>13
    <3> QED BY <1>1, <1>9, <1>13, <3>1
  <2> QED BY <1>6, <1>9, <2>1, <2>2, <2>3, <2>4 DEF CollectedIsPast
<1>16. StatesCut'
  <2>1. PICK cut \in [1..(m + 1) -> 0..n] : IsCut(cut)
    BY DEF CaptureInv, StatesCut, m, n
  <2> DEFINE last == n + Len(sel)
             cutN == [k \in 1..(m + 2) |-> IF k = m + 2 THEN last ELSE cut[k]]
  <2>2. cutN \in [1..((m + 1) + 1) -> 0..last]
    BY <1>1, <1>3, <1>4, <2>1
  <2>3. /\ cut[1] = 0 /\ cut[m + 1] = n
        /\ \A k \in 1..m : /\ states[k].packets = cut[k + 1] - cut[k]
                           /\ \A i \in 1..n : cut[k] < i <=> states[k].from <= collected[i].at
    BY <1>1, <1>3, <2>1 DEF IsCut, m, n
  <2>4. /\ \A k \in 1..(m + 1) : cutN[k] = cut[k] /\ cut[k] \in 0..n
        /\ cutN[m + 2] = last /\ last \in Nat /\ last - n = Len(sel)
    BY <1>1, <1>3, <1>4, <2>1
  <2> HIDE DEF cutN, last
  <2>5. PICK c : c = cutN
    OBVIOUS
  <2>6. c[1] = 0 /\ c[(m + 1) + 1] = last
    BY <1>3, <2>3, <2>4, <2>5
  <2>7. ASSUME NEW k \in 1..(m + 1)
        PROVE  /\ states'[k].packets = c[k + 1] - c[k]
               /\ \A i \in DOMAIN collected' :
                    c[k] < i <=> states'[k].from <= collected'[i].at
    <3>1. CASE k \in 1..m
      <4>1. /\ k \in 1..(m + 1) /\ k + 1 \in 1..(m + 1)
            /\ states'[k] = states[k] /\ states[k].from \in Nat /\ states[k].from <= tStart
        BY <1>3, <1>8, <1>9, <1>10, <3>1
      <4>2. c[k] = cut[k] /\ c[k + 1] = cut[k + 1] /\ cut[k] \in 0..n
        BY <2>4, <2>5, <4>1
      <4>3. ASSUME NEW i \in DOMAIN collected'
            PROVE  cut[k] < i <=> states[k].from <= collected'[i].at
        <5>1. CASE i \in 1..n /\ collected'[i] = collected[i]
          BY <2>3, <3>1, <5>1
        <5>2. CASE i > n /\ tStart <= collected'[i].at /\ i - n \in DOMAIN sel
                   /\ collected'[i] = sel[i - n]
          <6>1. i \in Int /\ collected'[i].at \in Nat
            BY <1>7, <1>12, <5>2
          <6> QED BY <1>1, <4>1, <4>2, <5>2, <6>1
        <5> QED BY <1>13, <5>1, <5>2
      <4> QED BY <2>3, <3>1, <4>1, <4>2, <4>3
    <3>2. CASE k = m + 1
      <4>1. /\ states'[k] = b /\ c[k] = n /\ c[k + 1] = last
        BY <1>3, <1>8, <2>3, <2>4, <2>5, <3>2
      <4>2. ASSUME NEW i \in DOMAIN collected'
            PROVE  n < i <=> tStart <= collected'[i].at
        <5>1. CASE i \in 1..n /\ collected'[i] = collected[i] /\ collected'[i].at < tStart
          BY <1>1, <1>11, <5>1
        <5>2. CASE i > n /\ tStart <= collected'[i].at
          <6>1. i \in Int
            BY <1>7
          <6> QED BY <1>1, <5>2, <6>1
        <5> QED BY <1>13, <5>1, <5>2
      <4> QED BY <1>1, <1>5, <2>4, <2>5, <4>1, <4>2
    <3> QED BY <1>3, <3>1, <3>2
  <2>8. IsCut(c)'
    BY <1>3, <1>7, <1>8, <2>6, <2>7 DEF IsCut, last
  <2>9. c \in [1..(Len(states') + 1) -> 0..Len(collected')]
    BY <1>7, <1>8, <2>2, <2>5 DEF last
  <2> QED BY <2>8, <2>9 DEF StatesCut, IsCut
<1>17. IdsGrow' /\ CountsTell'
  BY <1>6 DEF CaptureInv, IdsGrow, CountsTell, IsInScope, AllowedAddress, AllowedPort, Probe
<1>18. ManifestHolds'
  BY <1>1, <1>6 DEF CaptureInv, ManifestHolds
<1> QED BY <1>14, <1>15, <1>16, <1>17, <1>18 DEF CaptureInv

(* A window that nobody touches stays cut, whatever time passes and whatever *)
(* the reader adds.                                                         *)
LEMMA LoopRests ==
  ASSUME CaptureInv, UNCHANGED loopVars, clock' \in Nat, clock <= clock',
         \A k \in DOMAIN packets : k \in DOMAIN packets' /\ packets'[k] = packets[k]
  PROVE  CollectedIsPast' /\ StatesCut' /\ ManifestHolds'
<1>1. UNCHANGED <<phase, tStart, collected, states, manifest>>
  BY DEF loopVars
<1>2. \A i \in DOMAIN collected : collected[i].at \in Nat
  <2>1. /\ collected \in Seq(Packet) /\ DOMAIN collected = 1..Len(collected)
    BY LenProperties DEF CaptureInv, CaptureTypeOK
  <2>2. \A i \in DOMAIN collected : collected[i] \in Packet
    BY <2>1, ElementOfSeq
  <2> QED BY <2>2 DEF Packet
<1>3. clock \in Nat /\ tStart \in Nat
  BY DEF CaptureInv, CaptureTypeOK
<1>4. \A i \in DOMAIN collected : \E k \in DOMAIN packets' : collected[i] = packets'[k]
  BY DEF CaptureInv, CollectedIsPast
<1>5. phase = "between" => \A i \in DOMAIN collected : collected[i].at < clock'
  BY <1>2, <1>3 DEF CaptureInv, CollectedIsPast
<1>6. CollectedIsPast'
  BY <1>1, <1>3, <1>4, <1>5 DEF CaptureInv, CollectedIsPast
<1>7. StatesCut'
  BY <1>1 DEF CaptureInv, StatesCut, IsCut
<1>8. ManifestHolds'
  BY <1>1 DEF CaptureInv, ManifestHolds, IsInScope, AllowedAddress, AllowedPort, Probe
<1> QED BY <1>6, <1>7, <1>8

(* A packet on the wire leaves everything else as it is.                    *)
LEMMA WireKeepsInv ==
  ASSUME CaptureInv, IdsGrow', pipe' \in Seq(Packet \union {None}), lines' \in Nat,
         UNCHANGED <<clock, process, reader, stopEvent, packets, stats, outsiders, loopVars>>
  PROVE  CaptureInv'
<1>1. CollectedIsPast' /\ StatesCut' /\ ManifestHolds'
  BY LoopRests DEF CaptureInv, CaptureTypeOK
<1>2. CountsTell'
  BY DEF CaptureInv, CountsTell, IsInScope, AllowedAddress, AllowedPort, Probe
<1>3. CaptureTypeOK'
  BY DEF CaptureInv, CaptureTypeOK, loopVars
<1> QED BY <1>1, <1>2, <1>3 DEF CaptureInv

(* The endpoints are numbers, and what is in scope belongs.                 *)
LEMMA EndpointsAre ==
  /\ \A s \in Services : s \in Int
  /\ \A f \in Foreign \union Locals : f \in Int
  /\ \A p \in Probe : p \in Int
  /\ \A p : IsInScope(p) => Belongs(p)
<1>1. /\ Services \subseteq Int /\ Foreign \subseteq Int /\ Locals \subseteq Int
      /\ Services \intersect Foreign = {} /\ Locals \intersect Foreign = {}
      /\ Probe \intersect (Services \union Foreign) = {}
      /\ Probe \subseteq Int
  BY CaptureAssumption DEF CaptureAssumption, Probe
<1>2. ASSUME NEW p, IsInScope(p) PROVE Belongs(p)
  <2>1. /\ p.src \in Services \union Probe \union Locals
        /\ p.dst \in Services \union Probe \union Locals
        /\ p.src \in Services \/ p.dst \in Services
    BY <1>2 DEF IsInScope, AllowedAddress, AllowedPort
  <2>2. p.src \notin Foreign /\ p.dst \notin Foreign
    BY <1>1, <2>1
  <2> QED BY <2>1, <2>2 DEF Belongs
<1> QED BY <1>1, <1>2

(* What the wire and the generator do keeps the invariant.                  *)
LEMMA TrafficKeepsInv ==
  ASSUME CaptureInv,
         ForeignPacket \/ ChatterLine \/ \E p \in Probe : ProbeSends(p) \/ ProbeEnds(p)
  PROVE  CaptureInv'
<1>1. CaptureTypeOK /\ IdsGrow
  BY DEF CaptureInv
<1>2. UNCHANGED <<clock, process, reader, stopEvent, packets, stats, outsiders, loopVars>>
  BY DEF ForeignPacket, ChatterLine, ProbeSends, ProbeEnds, trafficVars
<1>3. CASE ChatterLine
  <2>1. pipe' = Append(pipe, None) /\ lines' = lines + 1
    BY <1>3 DEF ChatterLine
  <2>2. IdsGrow' /\ pipe' \in Seq(Packet \union {None}) /\ lines' \in Nat
    BY <1>1, <1>2, <2>1, LineKeepsOrder
  <2> QED BY <1>2, <2>2, WireKeepsInv
<1>4. CASE ~ChatterLine
  <2>1. \/ UNCHANGED <<pipe, lines>>
        \/ \E src, dst \in Int : Observe(src, dst)
    BY <1>1, <1>4, EndpointsAre DEF ForeignPacket, ProbeSends, ProbeEnds, CaptureTypeOK
  <2>2. CASE UNCHANGED <<pipe, lines>>
    <3>1. IdsGrow' /\ pipe' \in Seq(Packet \union {None}) /\ lines' \in Nat
      BY <1>1, <1>2, <2>2 DEF IdsGrow, CaptureTypeOK
    <3> QED BY <1>2, <3>1, WireKeepsInv
  <2>3. CASE \E src, dst \in Int : Observe(src, dst)
    <3>1. PICK src \in Int, dst \in Int : Observe(src, dst)
      BY <2>3
    <3>2. IdsGrow' /\ pipe' \in Seq(Packet \union {None}) /\ lines' \in Nat
      BY <1>1, <1>2, <3>1, ObserveKeepsOrder
    <3> QED BY <1>2, <3>2, WireKeepsInv
  <2> QED BY <2>1, <2>2, <2>3
<1> QED BY <1>3, <1>4

(* The reader keeps it,                                                     *)
LEMMA ReaderKeepsInv ==
  ASSUME CaptureInv, ReaderStep
  PROVE  CaptureInv'
<1>1. CaptureTypeOK /\ IdsGrow /\ CountsTell
  BY DEF CaptureInv
<1>2. UNCHANGED loopVars /\ clock' = clock /\ clock \in Nat
  BY <1>1 DEF ReaderStep, ReaderReads, ReaderSeesEnd, ReaderStores, CaptureTypeOK
<1>3. ASSUME UNCHANGED <<packets, stats>> PROVE CountsTell'
  BY <1>1, <1>3 DEF CountsTell, IsInScope, AllowedAddress, AllowedPort, Probe
<1>4. ASSUME \A k \in DOMAIN packets : k \in DOMAIN packets' /\ packets'[k] = packets[k]
      PROVE  CollectedIsPast' /\ StatesCut' /\ ManifestHolds'
  BY <1>2, <1>4, LoopRests
<1>5. CASE ReaderReads
  <2>1. UNCHANGED <<packets, stats>>
    BY <1>5 DEF ReaderReads
  <2>2. IdsGrow' /\ CaptureTypeOK'
    BY <1>1, <1>5, ReadKeepsOrder
  <2> QED BY <1>3, <1>4, <2>1, <2>2 DEF CaptureInv
<1>6. CASE ReaderSeesEnd
  <2>1. /\ UNCHANGED <<clock, lines, process, pipe, stopEvent, packets, stats, loopVars>>
        /\ UNCHANGED outsiders /\ reader'.at # "storing"
    BY <1>6 DEF ReaderSeesEnd, Ended, trafficVars
  <2>2. IdsGrow' /\ CaptureTypeOK'
    BY <1>1, <2>1 DEF IdsGrow, CaptureTypeOK, loopVars
  <2> QED BY <1>3, <1>4, <2>1, <2>2 DEF CaptureInv
<1>7. CASE ReaderStores
  BY <1>1, <1>4, <1>7, StoreKeepsOrder DEF CaptureInv
<1> QED BY <1>5, <1>6, <1>7 DEF ReaderStep

-----------------------------------------------------------------------------
(* The start, the turn of a window, and the stop.                           *)

(* A step of the controller's leaves the reader's packets and what was       *)
(* collected of them.                                                       *)
LEMMA ControlKeepsParts ==
  ASSUME CaptureInv,
         UNCHANGED <<clock, lines, pipe, packets, stats, collected, states>>,
         reader' = reader \/ reader' = Idle
  PROVE  IdsGrow' /\ CountsTell' /\ StatesCut'
<1>1. IdsGrow'
  BY DEF CaptureInv, IdsGrow, Idle
<1>2. CountsTell'
  BY DEF CaptureInv, CountsTell, IsInScope, AllowedAddress, AllowedPort, Probe
<1>3. StatesCut'
  BY DEF CaptureInv, StatesCut, IsCut
<1> QED BY <1>1, <1>2, <1>3

(* and so do the start and the turn of a window,                            *)
LEMMA StartKeepsInv ==
  ASSUME CaptureInv, StartRun \/ StartGeneratorFails \/ NextWindow
  PROVE  CaptureInv'
<1>1. /\ UNCHANGED <<clock, lines, pipe, stopEvent, packets, stats, collected, states, manifest>>
      /\ UNCHANGED outsiders
      /\ reader' = reader \/ reader' = Idle
      /\ process' \in BOOLEAN
      /\ \/ phase = "idle" /\ phase' = "sleeping" /\ tStart' = clock
         \/ phase = "idle" /\ phase' = "orphaned" /\ tStart' = tStart
         \/ phase = "between" /\ phase' = "sleeping" /\ tStart' = clock
  BY DEF StartRun, StartGeneratorFails, NextWindow, StartCapture, captureVars, trafficVars,
         CaptureInv, CaptureTypeOK
<1>2. IdsGrow' /\ CountsTell' /\ StatesCut'
  BY <1>1, ControlKeepsParts
<1>3. clock \in Nat /\ tStart \in Nat /\ tStart <= clock
  BY DEF CaptureInv, CaptureTypeOK, CollectedIsPast
<1>4. CaptureTypeOK'
  BY <1>1, <1>3 DEF CaptureInv, CaptureTypeOK, Idle
<1>5. CollectedIsPast'
  <2>1. \A k \in DOMAIN states : states[k].from \in Nat
    <3>1. PICK S : states \in Seq(S) /\ \A s \in S : s.from \in Nat /\ s.packets \in Nat
      BY DEF CaptureInv, CaptureTypeOK
    <3>2. DOMAIN states = 1..Len(states)
      BY <3>1, LenProperties
    <3> QED BY <3>1, <3>2, ElementOfSeq
  <2>2. \A k \in DOMAIN states : states[k].from <= tStart'
    BY <1>1, <1>3, <2>1 DEF CaptureInv, CollectedIsPast
  <2>3. tStart' <= clock
    BY <1>1, <1>3
  <2>4. phase = "idle" => \A i \in DOMAIN collected : collected[i].at < tStart'
    BY DEF CaptureInv, CollectedIsPast
  <2>5. phase' = "sleeping" => \A i \in DOMAIN collected : collected[i].at < tStart'
    BY <1>1, <2>4 DEF CaptureInv, CollectedIsPast
  <2>6. phase' # "idle" /\ phase' # "between"
    BY <1>1
  <2> QED BY <1>1, <2>2, <2>3, <2>5, <2>6 DEF CaptureInv, CollectedIsPast
<1>6. ManifestHolds'
  <2>1. manifest' = None
    BY <1>1 DEF CaptureInv, ManifestHolds
  <2> QED BY <2>1 DEF ManifestHolds
<1> QED BY <1>2, <1>4, <1>5, <1>6 DEF CaptureInv

(* The manifest gives a reason exactly when packets are missing or foreign.  *)
LEMMA ReasonsAre ==
  ASSUME NEW s, NEW seq
  PROVE  Reasons(s, seq) = {} <=> IsolationPassed(s) /\ seq # <<>>
  BY Zenon DEF Reasons

(* What WriteManifest writes is true of the run as it is.                   *)
LEMMA ManifestIsWritten ==
  ASSUME CaptureInv, manifest' = Manifest(stats, collected, states),
         UNCHANGED <<collected, states>>, phase' \in {"halting", "joining", "stopped"}
  PROVE  ManifestHolds'
<1> DEFINE m == Manifest(stats, collected, states)
<1>1. /\ m.valid \in BOOLEAN
      /\ m.valid <=> IsolationPassed(stats) /\ collected # <<>> /\ states # <<>>
      /\ m.reasons = Reasons(stats, collected)
      /\ m.packets = Len(collected) /\ m.states = Len(states)
  BY DEF Manifest
<1>2. collected # <<>> => states # <<>>
  <2>1. PICK cut \in [1..(Len(states) + 1) -> 0..Len(collected)] : IsCut(cut)
    BY DEF CaptureInv, StatesCut
  <2>2. states = <<>> => Len(collected) = 0
    BY <2>1 DEF IsCut
  <2>3. collected \in Seq(Packet)
    BY DEF CaptureInv, CaptureTypeOK
  <2> QED BY <2>2, <2>3, EmptySeq
<1>3. IsolationPassed(stats) => \A i \in DOMAIN collected : IsInScope(collected[i])
  <2>1. IsolationPassed(stats) => \A k \in DOMAIN packets : IsInScope(packets[k])
    BY DEF CaptureInv, CountsTell, IsolationPassed
  <2>2. \A i \in DOMAIN collected : \E k \in DOMAIN packets : collected[i] = packets[k]
    BY DEF CaptureInv, CollectedIsPast
  <2> QED BY <2>1, <2>2
<1>4. m.valid <=> m.reasons = {}
  BY <1>1, <1>2, ReasonsAre
<1> HIDE DEF m
<1>5. m.valid => \A i \in DOMAIN collected : IsInScope(collected[i])
  BY <1>1, <1>3
<1>6. manifest' = m
  BY DEF m
<1> QED BY <1>1, <1>4, <1>5, <1>6
        DEF ManifestHolds, IsInScope, AllowedAddress, AllowedPort, Probe

(* and the stop.                                                            *)
LEMMA StopKeepsInv ==
  ASSUME CaptureInv, ClientStops \/ StopStep
  PROVE  CaptureInv'
<1>1. /\ UNCHANGED <<clock, lines, pipe, reader, packets, stats, tStart, collected, states>>
      /\ UNCHANGED outsiders /\ process' \in BOOLEAN /\ stopEvent' \in BOOLEAN
      /\ phase' \in {"halting", "joining", "stopped"}
      /\ manifest' = manifest \/ manifest' = Manifest(stats, collected, states)
  BY DEF ClientStops, StopStep, HaltAll, KillTimesOut, WriteManifest, Follow, SaveArtifacts,
         captureVars, trafficVars, CaptureInv, CaptureTypeOK
<1>2. IdsGrow' /\ CountsTell' /\ StatesCut'
  BY <1>1, ControlKeepsParts
<1>3. CaptureTypeOK'
  BY <1>1 DEF CaptureInv, CaptureTypeOK
<1>4. CollectedIsPast'
  BY <1>1 DEF CaptureInv, CollectedIsPast
<1>5. ManifestHolds'
  <2>1. CASE manifest' = manifest
    BY <1>1, <2>1
       DEF CaptureInv, ManifestHolds, IsInScope, AllowedAddress, AllowedPort, Probe
  <2>2. CASE manifest' = Manifest(stats, collected, states)
    BY <1>1, <2>2, ManifestIsWritten
  <2> QED BY <1>1, <2>1, <2>2
<1> QED BY <1>2, <1>3, <1>4, <1>5 DEF CaptureInv

-----------------------------------------------------------------------------
(* A capture that has not begun.                                            *)
LEMMA CaptureInvInit == CaptureInit => CaptureInv
<1> SUFFICES ASSUME CaptureInit PROVE CaptureInv
  OBVIOUS
<1>1. /\ packets = <<>> /\ pipe = <<>> /\ collected = <<>> /\ states = <<>>
      /\ phase = "idle" /\ manifest = None /\ reader.at = "off"
      /\ clock = 0 /\ lines = 0 /\ tStart = 0 /\ process = FALSE /\ stopEvent = FALSE
      /\ stats = [captured |-> 0, inScope |-> 0, violations |-> 0]
      /\ outsiders \subseteq Foreign \union Locals
  BY DEF CaptureInit
<1>2. CaptureTypeOK
  <2>1. \E S : states \in Seq(S) /\ \A s \in S : s.from \in Nat /\ s.packets \in Nat
    <3>1. states \in Seq({})
      BY <1>1
    <3> QED BY <3>1
  <2>2. stats \in [captured: Nat, inScope: Nat, violations: Nat]
    BY <1>1
  <2>3. /\ pipe \in Seq(Packet \union {None}) /\ packets \in Seq(Packet)
        /\ collected \in Seq(Packet)
    BY <1>1
  <2> QED BY <1>1, <2>1, <2>2, <2>3 DEF CaptureTypeOK
<1>3. IdsGrow /\ CollectedIsPast /\ CountsTell /\ ManifestHolds
  BY <1>1 DEF IdsGrow, CollectedIsPast, CountsTell, ManifestHolds
<1>4. StatesCut
  <2>1. [k \in {1} |-> 0] \in [1..(Len(states) + 1) -> 0..Len(collected)]
    BY <1>1
  <2>2. IsCut([k \in {1} |-> 0])
    BY <1>1 DEF IsCut
  <2> QED BY <2>1, <2>2 DEF StatesCut
<1> QED BY <1>2, <1>3, <1>4 DEF CaptureInv

(* Every step of a run keeps the invariant of the capture.                  *)
LEMMA CaptureInvNext == CaptureInv /\ [CaptureNext]_vars => CaptureInv'
<1> SUFFICES ASSUME CaptureInv, [CaptureNext]_vars PROVE CaptureInv'
  OBVIOUS
<1>1. CASE Tick \/ TsharkDies \/ UNCHANGED vars
  <2>1. /\ UNCHANGED <<lines, pipe, reader, stopEvent, packets, stats, outsiders, loopVars>>
        /\ process' \in BOOLEAN /\ clock' \in Nat /\ clock <= clock'
    <3>1. clock \in Nat /\ process \in BOOLEAN
      BY DEF CaptureInv, CaptureTypeOK
    <3>2. CASE Tick
      BY <3>1, <3>2 DEF Tick, captureVars, trafficVars
    <3>3. CASE TsharkDies
      <4>1. /\ UNCHANGED <<clock, lines, pipe, reader, stopEvent, packets, stats, loopVars>>
            /\ UNCHANGED outsiders /\ process' = FALSE
        BY <3>3 DEF TsharkDies, trafficVars
      <4>2. clock' \in Nat /\ clock <= clock'
        BY <3>1, <4>1
      <4>3. process' \in BOOLEAN
        BY <4>1
      <4> QED BY <4>1, <4>2, <4>3
    <3>4. CASE UNCHANGED vars
      BY <3>1, <3>4 DEF vars, captureVars, trafficVars
    <3> QED BY <1>1, <3>2, <3>3, <3>4
  <2>2. CollectedIsPast' /\ StatesCut' /\ ManifestHolds'
    BY <2>1, LoopRests
  <2>3. IdsGrow' /\ CountsTell'
    BY <2>1 DEF CaptureInv, IdsGrow, CountsTell, IsInScope, AllowedAddress, AllowedPort, Probe
  <2>4. CaptureTypeOK'
    BY <2>1 DEF CaptureInv, CaptureTypeOK, loopVars
  <2> QED BY <2>2, <2>3, <2>4 DEF CaptureInv
<1>2. CASE ForeignPacket \/ ChatterLine \/ \E p \in Probe : ProbeSends(p) \/ ProbeEnds(p)
  BY <1>2, TrafficKeepsInv
<1>3. CASE ReaderStep
  BY <1>3, ReaderKeepsInv
<1>4. CASE StartRun \/ StartGeneratorFails \/ NextWindow
  BY <1>4, StartKeepsInv
<1>5. CASE WindowEnds
  BY <1>5, WindowCuts
<1>6. CASE ClientStops \/ StopStep
  BY <1>6, StopKeepsInv
<1> QED BY <1>1, <1>2, <1>3, <1>4, <1>5, <1>6 DEF CaptureNext

(* What holds throughout a run.                                             *)
LEMMA CaptureInvHolds == CaptureSpec => []CaptureInv
  BY CaptureInvInit, CaptureInvNext, PTL DEF CaptureSpec

(* packet_capture.py, live_controller.py and provenance.py: each packet is   *)
(* in one window at most, the states cut what is collected, and the manifest *)
(* written while the reader may still be storing is true of it.             *)
THEOREM ManifestIsTrue == CaptureSpec => []ManifestIsHonest
<1>1. CaptureInv => ManifestIsHonest
  <2> SUFFICES ASSUME CaptureInv PROVE ManifestIsHonest
    OBVIOUS
  <2>1. ObservedOnce
    BY DEF CaptureInv, CollectedIsPast, StatesCut, IsCut, ObservedOnce
  <2>2. ASSUME manifest # None, manifest.valid
        PROVE  \A i \in DOMAIN collected : Belongs(collected[i])
    BY <2>2, EndpointsAre DEF CaptureInv, ManifestHolds
  <2> QED BY <2>1, <2>2 DEF CaptureInv, ManifestHolds, ManifestIsHonest
<1> QED BY <1>1, CaptureInvHolds, PTL

-----------------------------------------------------------------------------
(* When packets were stamped.                                               *)

(* The packets that are stored, held by the reader or in the pipe.          *)
Known ==
  {packets[k] : k \in DOMAIN packets}
    \union {pipe[k] : k \in {j \in DOMAIN pipe : pipe[j] # None}}
    \union {p \in Packet : reader.at = "storing" /\ p = reader.holds}

(* Stamps follow the order of the lines.                                    *)
StampsFollowIds ==
  \A p, q \in Known : p.at <= clock /\ (p.id < q.id => p.at <= q.at)

(* What was collected is in the order of time.                              *)
CollectedInOrder ==
  \A i, j \in DOMAIN collected : i < j => collected[i].at <= collected[j].at

(* The manifest has the flows of what was collected.                        *)
ManifestKeepsFlows == manifest # None => manifest.flows = FlowsOf(collected)

TimeInv == StampsFollowIds /\ CollectedInOrder /\ ManifestKeepsFlows

(* What is known are packets, and their lines have been written.            *)
LEMMA KnownAre ==
  ASSUME CaptureInv
  PROVE  \A p \in Known : /\ p \in Packet /\ p.id \in Nat /\ p.at \in Nat
                          /\ p.id <= lines
<1>1. /\ packets \in Seq(Packet) /\ DOMAIN packets = 1..Len(packets)
      /\ pipe \in Seq(Packet \union {None}) /\ DOMAIN pipe = 1..Len(pipe)
  BY LenProperties DEF CaptureInv, CaptureTypeOK
<1>2. \A k \in DOMAIN packets : packets[k] \in Packet /\ packets[k].id <= lines
  BY <1>1, ElementOfSeq DEF CaptureInv, IdsGrow
<1>3. \A k \in DOMAIN pipe : pipe[k] # None => pipe[k] \in Packet /\ pipe[k].id <= lines
  <2>1. \A k \in DOMAIN pipe : pipe[k] \in Packet \union {None}
    BY <1>1, ElementOfSeq
  <2> QED BY <2>1 DEF CaptureInv, IdsGrow
<1>4. reader.at = "storing" => reader.holds.id <= lines
  BY DEF CaptureInv, IdsGrow
<1>5. \A p \in Packet : p.id \in Nat /\ p.at \in Nat
  BY DEF Packet
<1> QED BY <1>2, <1>3, <1>4, <1>5 DEF Known

(* A line of tshark's makes at most one more packet known.                  *)
LEMMA LineIsKnown ==
  ASSUME CaptureInv, NEW line \in Packet \union {None}, pipe' = Append(pipe, line),
         UNCHANGED <<packets, reader>>
  PROVE  \A p \in Known' : p \in Known \/ (p = line /\ line # None)
<1>1. pipe \in Seq(Packet \union {None})
  BY DEF CaptureInv, CaptureTypeOK
<1>2. /\ DOMAIN pipe = 1..Len(pipe) /\ Len(pipe) \in Nat
      /\ DOMAIN pipe' = 1..(Len(pipe) + 1)
      /\ \A i \in 1..Len(pipe) : pipe'[i] = pipe[i]
      /\ pipe'[Len(pipe) + 1] = line
  BY <1>1, AppendProperties, LenProperties
<1>3. \A k \in DOMAIN pipe' : pipe'[k] = line \/ (k \in DOMAIN pipe /\ pipe'[k] = pipe[k])
  BY <1>2
<1>4. \A p \in {pipe'[k] : k \in {j \in DOMAIN pipe' : pipe'[j] # None}} :
        p \in {pipe[k] : k \in {j \in DOMAIN pipe : pipe[j] # None}} \/ (p = line /\ line # None)
  BY <1>3
<1> QED BY <1>4 DEF Known

(* A packet seen on the wire is stamped with the time it is.                *)
LEMMA ObservedIsKnown ==
  ASSUME CaptureInv, NEW src \in Int, NEW dst \in Int,
         Observe(src, dst), UNCHANGED <<packets, reader>>
  PROVE  \A p \in Known' : p \in Known \/ (p.id = lines + 1 /\ p.at = clock)
<1>1. CASE process /\ lines < MaxLines
  <2> DEFINE line == [id |-> lines + 1, at |-> clock, src |-> src, dst |-> dst]
  <2>1. line \in Packet /\ line.id = lines + 1 /\ line.at = clock
    BY DEF CaptureInv, CaptureTypeOK, Packet
  <2>2. pipe' = Append(pipe, line)
    BY <1>1 DEF Observe
  <2> HIDE DEF line
  <2> QED BY <2>1, <2>2, LineIsKnown
<1>2. CASE ~(process /\ lines < MaxLines)
  BY <1>2 DEF Observe, Known
<1> QED BY <1>1, <1>2

(* What becomes known in a step has the next line and the time it is.       *)
LEMMA KnownGrows ==
  ASSUME CaptureInv, [CaptureNext]_vars
  PROVE  /\ \A p \in Known' : p \in Known \/ (p.id = lines + 1 /\ p.at = clock)
         /\ clock' \in Nat /\ clock <= clock'
<1>0. clock \in Nat
  BY DEF CaptureInv, CaptureTypeOK
<1>1. CASE ForeignPacket \/ \E p \in Probe : ProbeSends(p) \/ ProbeEnds(p)
  <2>1. UNCHANGED <<clock, packets, reader>>
    BY <1>1 DEF ForeignPacket, ProbeSends, ProbeEnds
  <2>2. \/ UNCHANGED pipe
        \/ \E src, dst \in Int : Observe(src, dst)
    BY <1>1, EndpointsAre DEF ForeignPacket, ProbeSends, ProbeEnds, CaptureInv, CaptureTypeOK
  <2>3. CASE UNCHANGED pipe
    BY <1>0, <2>1, <2>3 DEF Known
  <2>4. CASE \E src, dst \in Int : Observe(src, dst)
    BY <1>0, <2>1, <2>4, ObservedIsKnown
  <2> QED BY <2>2, <2>3, <2>4
<1>2. CASE ChatterLine
  <2>1. pipe' = Append(pipe, None) /\ UNCHANGED <<clock, packets, reader>>
    BY <1>2 DEF ChatterLine
  <2>2. \A p \in Known' : p \in Known
    BY <2>1, LineIsKnown
  <2> QED BY <1>0, <2>1, <2>2
<1>3. CASE ReaderReads
  <2>1. /\ UNCHANGED <<clock, packets>> /\ pipe' = Tail(pipe) /\ pipe # <<>>
        /\ reader'.at = "storing" => reader'.holds = Head(pipe) /\ Head(pipe) # None
    BY <1>3 DEF ReaderReads, Idle, Ended
  <2>2. pipe \in Seq(Packet \union {None})
    BY DEF CaptureInv, CaptureTypeOK
  <2>3. /\ Head(pipe) = pipe[1] /\ 1 \in DOMAIN pipe
        /\ \A k \in DOMAIN pipe' : k + 1 \in DOMAIN pipe /\ pipe'[k] = pipe[k + 1]
    <3>1. Len(pipe) \in Nat \ {0} /\ DOMAIN pipe = 1..Len(pipe) /\ DOMAIN Tail(pipe) = 1..(Len(pipe) - 1)
          /\ \A k \in 1..(Len(pipe) - 1) : Tail(pipe)[k] = pipe[k + 1]
      BY <2>1, <2>2, EmptySeq, HeadTailProperties, LenProperties
    <3> QED BY <2>1, <3>1
  <2>4. \A p \in Known' : p \in Known
    BY <2>1, <2>3 DEF Known
  <2> QED BY <1>0, <2>1, <2>4
<1>4. CASE ReaderStores
  <2>1. /\ UNCHANGED <<clock, pipe>> /\ packets' = Append(packets, reader.holds)
        /\ reader.at = "storing" /\ reader'.at # "storing"
    BY <1>4 DEF ReaderStores, Idle
  <2>2. packets \in Seq(Packet) /\ reader.holds \in Packet
    BY <2>1 DEF CaptureInv, CaptureTypeOK
  <2>3. \A k \in DOMAIN packets' : packets'[k] = reader.holds \/ (k \in DOMAIN packets /\ packets'[k] = packets[k])
    <3>1. /\ DOMAIN packets = 1..Len(packets) /\ Len(packets) \in Nat
          /\ DOMAIN packets' = 1..(Len(packets) + 1)
          /\ \A i \in 1..Len(packets) : packets'[i] = packets[i]
          /\ packets'[Len(packets) + 1] = reader.holds
      BY <2>1, <2>2, AppendProperties, LenProperties
    <3> QED BY <3>1
  <2>4. \A p \in Known' : p \in Known
    BY <2>1, <2>2, <2>3 DEF Known
  <2> QED BY <1>0, <2>1, <2>4
<1>5. CASE ReaderSeesEnd
  <2>1. UNCHANGED <<clock, pipe, packets>> /\ reader'.at # "storing"
    BY <1>5 DEF ReaderSeesEnd, Ended
  <2> QED BY <1>0, <2>1 DEF Known
<1>6. CASE StartRun \/ StartGeneratorFails
  <2>1. UNCHANGED <<clock, pipe, packets>> /\ reader'.at # "storing"
    BY <1>6 DEF StartRun, StartGeneratorFails, StartCapture, Idle
  <2> QED BY <1>0, <2>1 DEF Known
<1>7. CASE Tick \/ TsharkDies \/ WindowEnds \/ NextWindow \/ ClientStops \/ StopStep \/ UNCHANGED vars
  <2>1. UNCHANGED <<pipe, packets, reader>>
    BY <1>7 DEF Tick, TsharkDies, WindowEnds, NextWindow, ClientStops, StopStep, HaltAll,
                KillTimesOut, WriteManifest, vars, captureVars
  <2>2. clock' = clock \/ clock' = clock + 1
    BY <1>7 DEF Tick, TsharkDies, WindowEnds, NextWindow, ClientStops, StopStep, HaltAll,
                KillTimesOut, WriteManifest, vars, captureVars
  <2> QED BY <1>0, <2>1, <2>2 DEF Known
<1> QED BY <1>1, <1>2, <1>3, <1>4, <1>5, <1>6, <1>7 DEF CaptureNext, ReaderStep

(* The packets of a window are in the order of their lines.                 *)
LEMMA RangeInOrder ==
  ASSUME CaptureTypeOK, IdsGrow, NEW from \in Nat, NEW until \in Nat
  PROVE  \A i, j \in DOMAIN PacketsInRange(from, until) :
           i < j => PacketsInRange(from, until)[i].id < PacketsInRange(from, until)[j].id
<1> DEFINE inside == {k \in DOMAIN packets : from <= packets[k].at /\ packets[k].at < until}
           n == Cardinality(inside)
           at == InOrder(inside)
<1>1. DOMAIN packets = 1..Len(packets) /\ Len(packets) \in Nat
  BY LenProperties DEF CaptureTypeOK
<1>2. inside \in SUBSET (1..Len(packets)) /\ inside \in SUBSET Int /\ IsFiniteSet(1..Len(packets))
  BY <1>1, FS_Interval
<1>3. IsFiniteSet(inside)
  BY <1>2, FS_Subset
<1>4. PacketsInRange(from, until) = Selected(packets, inside)
  BY DEF PacketsInRange
<1>5. inside \subseteq DOMAIN packets
  OBVIOUS
<1> HIDE DEF inside
<1>6. /\ n \in Nat /\ at \in [1..n -> inside]
      /\ \A i, j \in 1..n : i < j => at[i] < at[j]
  BY <1>2, <1>3, InOrderIs
<1>7. Selected(packets, inside) = [j \in 1..n |-> packets[at[j]]]
  BY DEF Selected, InOrder
<1> HIDE DEF n, at
<1>8. \A i, j \in 1..n : i < j => packets[at[i]].id < packets[at[j]].id
  <2>1. \A i \in 1..n : at[i] \in DOMAIN packets
    BY <1>5, <1>6
  <2> QED BY <1>6, <2>1 DEF IdsGrow
<1> QED BY <1>4, <1>7, <1>8

(* Every step keeps the order of time.                                      *)
LEMMA TimeInvNext ==
  ASSUME CaptureInv, TimeInv, [CaptureNext]_vars
  PROVE  TimeInv'
<1>1. StampsFollowIds'
  <2>1. /\ \A p \in Known' : p \in Known \/ (p.id = lines + 1 /\ p.at = clock)
        /\ clock' \in Nat /\ clock <= clock'
    BY KnownGrows
  <2>2. \A p \in Known : p.id \in Nat /\ p.at \in Nat /\ p.id <= lines /\ p.at <= clock
    BY KnownAre DEF TimeInv, StampsFollowIds
  <2>3. \A p, q \in Known : p.id < q.id => p.at <= q.at
    BY DEF TimeInv, StampsFollowIds
  <2>4. clock \in Nat /\ lines \in Nat
    BY DEF CaptureInv, CaptureTypeOK
  <2> SUFFICES ASSUME NEW p \in Known', NEW q \in Known'
               PROVE  p.at <= clock' /\ (p.id < q.id => p.at <= q.at)
    BY DEF StampsFollowIds
  <2>5. /\ p \in Known \/ (p.id = lines + 1 /\ p.at = clock)
        /\ q \in Known \/ (q.id = lines + 1 /\ q.at = clock)
    BY <2>1
  <2>6. CASE p \in Known /\ q \in Known
    BY <2>1, <2>2, <2>3, <2>4, <2>6
  <2>7. CASE p \in Known /\ q.id = lines + 1 /\ q.at = clock
    BY <2>1, <2>2, <2>4, <2>7
  <2>8. CASE p.id = lines + 1 /\ p.at = clock /\ q \in Known
    BY <2>1, <2>2, <2>4, <2>8
  <2>9. CASE p.id = lines + 1 /\ p.at = clock /\ q.id = lines + 1 /\ q.at = clock
    BY <2>1, <2>4, <2>9
  <2> QED BY <2>5, <2>6, <2>7, <2>8, <2>9
<1>2. CASE WindowEnds
  <2> DEFINE sel == PacketsInRange(tStart, clock)
             n == Len(collected)
  <2>1. CaptureTypeOK /\ IdsGrow /\ tStart \in Nat /\ clock \in Nat /\ collected \in Seq(Packet)
    BY DEF CaptureInv, CaptureTypeOK
  <2>2. /\ phase = "sleeping" /\ collected' = collected \o sel /\ manifest' = manifest
    BY <1>2 DEF WindowEnds, WindowBuilt
  <2>3. /\ sel \in Seq(Packet)
        /\ \A j \in DOMAIN sel : /\ \E k \in DOMAIN packets : sel[j] = packets[k]
                                /\ tStart <= sel[j].at
        /\ \A i, j \in DOMAIN sel : i < j => sel[i].id < sel[j].id
    <3> HIDE DEF sel
    <3> QED BY <2>1, RangeAre, RangeInOrder DEF sel
  <2>4. \A i \in DOMAIN collected : collected[i].at < tStart
    BY <2>2 DEF CaptureInv, CollectedIsPast
  <2> HIDE DEF sel
  <2>5. \A i, j \in DOMAIN sel : i < j => sel[i].at <= sel[j].at
    <3>1. \A j \in DOMAIN sel : sel[j] \in Known
      BY <2>3 DEF Known
    <3> QED BY <2>3, <3>1 DEF TimeInv, StampsFollowIds
  <2>6. /\ n \in Nat /\ DOMAIN collected = 1..n /\ Len(sel) \in Nat /\ DOMAIN sel = 1..Len(sel)
        /\ DOMAIN collected' = 1..(n + Len(sel))
        /\ \A i \in 1..(n + Len(sel)) : collected'[i] = IF i <= n THEN collected[i] ELSE sel[i - n]
    <3>1. /\ collected' \in Seq(Packet) /\ Len(collected') = n + Len(sel)
          /\ \A i \in 1..(n + Len(sel)) : collected'[i] = IF i <= n THEN collected[i] ELSE sel[i - n]
      BY <2>1, <2>2, <2>3, ConcatProperties
    <3> QED BY <2>1, <2>3, <3>1, LenProperties
  <2> HIDE DEF n
  <2>7. /\ \A i \in 1..n : collected[i].at \in Int
        /\ \A i \in DOMAIN sel : sel[i].at \in Int
    <3>1. /\ \A i \in 1..n : collected[i] \in Packet
          /\ \A i \in DOMAIN sel : sel[i] \in Packet
      BY <2>1, <2>3, <2>6, ElementOfSeq
    <3> QED BY <3>1 DEF Packet
  <2>8. CollectedInOrder'
    <3> SUFFICES ASSUME NEW i \in 1..(n + Len(sel)), NEW j \in 1..(n + Len(sel)), i < j
                 PROVE  collected'[i].at <= collected'[j].at
      BY <2>6 DEF CollectedInOrder
    <3>1. CASE j <= n
      <4>1. i \in 1..n /\ j \in 1..n
        BY <2>6, <3>1
      <4> QED BY <2>6, <3>1, <4>1 DEF TimeInv, CollectedInOrder
    <3>2. CASE i <= n /\ ~(j <= n)
      <4>1. i \in 1..n /\ j - n \in DOMAIN sel
        BY <2>6, <3>2
      <4>2. collected'[i] = collected[i] /\ collected'[j] = sel[j - n]
        BY <2>6, <3>2
      <4>3. collected[i].at < tStart /\ tStart <= sel[j - n].at
        BY <2>3, <2>4, <2>6, <4>1
      <4>4. collected[i].at \in Int /\ sel[j - n].at \in Int
        BY <2>7, <4>1
      <4> QED BY <2>1, <4>2, <4>3, <4>4
    <3>3. CASE ~(i <= n)
      <4>1. i - n \in DOMAIN sel /\ j - n \in DOMAIN sel /\ i - n < j - n /\ ~(j <= n)
        BY <2>6, <3>3
      <4>2. collected'[i] = sel[i - n] /\ collected'[j] = sel[j - n]
        BY <2>6, <3>3, <4>1
      <4> QED BY <2>5, <4>1, <4>2
    <3> QED BY <2>6, <3>1, <3>2, <3>3
  <2>9. ManifestKeepsFlows'
    <3>1. manifest' = None
      BY <2>2 DEF CaptureInv, ManifestHolds
    <3> QED BY <3>1 DEF ManifestKeepsFlows
  <2> QED BY <1>1, <2>8, <2>9 DEF TimeInv
<1>3. CASE ~WindowEnds
  <2>1. /\ collected' = collected
        /\ manifest' = manifest \/ manifest' = Manifest(stats, collected, states)
    BY <1>3 DEF CaptureNext, Tick, ForeignPacket, ChatterLine, TsharkDies, ProbeSends, ProbeEnds,
         ReaderStep, ReaderReads, ReaderSeesEnd, ReaderStores, StartRun, StartGeneratorFails,
         NextWindow, ClientStops, StopStep, HaltAll, KillTimesOut, WriteManifest, SaveArtifacts,
         vars, loopVars
  <2>2. CollectedInOrder'
    BY <2>1 DEF TimeInv, CollectedInOrder
  <2>3. Manifest(stats, collected, states).flows = FlowsOf(collected)
    BY DEF Manifest
  <2>4. ManifestKeepsFlows'
    BY <2>1, <2>3 DEF TimeInv, ManifestKeepsFlows
  <2> QED BY <1>1, <2>2, <2>4 DEF TimeInv
<1> QED BY <1>2, <1>3

(* Time goes forward throughout a run.                                      *)
LEMMA TimeInvHolds == CaptureSpec => [](CaptureInv /\ TimeInv)
<1>1. CaptureInit => TimeInv
  <2> SUFFICES ASSUME CaptureInit
               PROVE  TimeInv
    OBVIOUS
  <2>1. Known = {}
    BY DEF CaptureInit, Known
  <2> QED BY <2>1 DEF CaptureInit, TimeInv, StampsFollowIds, CollectedInOrder, ManifestKeepsFlows
<1>2. CaptureInv /\ TimeInv /\ [CaptureNext]_vars => TimeInv'
  BY TimeInvNext
<1> QED BY <1>1, <1>2, CaptureInvInit, CaptureInvNext, PTL DEF CaptureSpec

-----------------------------------------------------------------------------
(* Bins.                                                                    *)

(* Packets in the order of time.                                            *)
Timed(seq) ==
  /\ seq \in Seq(Packet)
  /\ \A i, j \in DOMAIN seq : i < j => seq[i].at <= seq[j].at
  /\ \A i, j \in DOMAIN seq : seq[i] = seq[j] => i = j

(* Their places and their times.                                            *)
LEMMA TimedAre ==
  ASSUME NEW seq, Timed(seq)
  PROVE  /\ Len(seq) \in Nat /\ DOMAIN seq = 1..Len(seq)
         /\ \A i \in 1..Len(seq) :
              /\ seq[i] \in Packet /\ seq[i].at \in Nat /\ seq[i].src \in Int /\ seq[i].dst \in Int
         /\ \A i, j \in 1..Len(seq) : i <= j => seq[i].at <= seq[j].at
<1>1. Len(seq) \in Nat /\ DOMAIN seq = 1..Len(seq)
  BY LenProperties DEF Timed
<1>2. \A i \in 1..Len(seq) : seq[i] \in Packet
  BY <1>1, ElementOfSeq DEF Timed
<1>3. \A p \in Packet : p.at \in Nat /\ p.src \in Int /\ p.dst \in Int
  BY DEF Packet
<1>4. \A i, j \in 1..Len(seq) : i < j \/ i = j \/ ~(i <= j)
  BY <1>1
<1> QED BY <1>1, <1>2, <1>3, <1>4 DEF Timed

(* Sorting them changes nothing.                                            *)
LEMMA ByTimeIs ==
  ASSUME NEW seq, Timed(seq)
  PROVE  ByTime(seq) = seq
<1> DEFINE n == Len(seq)
           upTo(i) == {j \in DOMAIN seq : seq[j].at < seq[i].at \/ (seq[j].at = seq[i].at /\ j <= i)}
<1>1. /\ n \in Nat /\ DOMAIN seq = 1..n
      /\ \A i \in 1..n : seq[i].at \in Int
      /\ \A i, j \in 1..n : i <= j => seq[i].at <= seq[j].at
  BY TimedAre
<1> HIDE DEF n
<1>2. \A i \in 1..n : Cardinality(upTo(i)) = i
  <2> SUFFICES ASSUME NEW i \in 1..n
               PROVE  Cardinality(upTo(i)) = i
    OBVIOUS
  <2>1. upTo(i) = 1..i
    <3>1. \A j \in 1..i : j \in 1..n /\ j <= i
      BY <1>1
    <3>2. \A j \in 1..i : j \in upTo(i)
      BY <1>1, <3>1
    <3>3. \A j \in upTo(i) : j \in 1..i
      <4> SUFFICES ASSUME NEW j \in 1..n, ~(j <= i), seq[j].at < seq[i].at \/ (seq[j].at = seq[i].at /\ j <= i)
                   PROVE  FALSE
        BY <1>1
      <4>1. i <= j
        BY <1>1
      <4> QED BY <1>1, <4>1
    <3> QED BY <3>2, <3>3
  <2>2. i \in Nat
    BY <1>1
  <2> HIDE DEF upTo
  <2> QED BY <2>1, <2>2, FS_Interval
<1>3. \A i \in 1..n : (CHOOSE j \in DOMAIN seq : Cardinality(upTo(j)) = i) = i
  BY <1>1, <1>2
<1> DEFINE pick(i) == CHOOSE j \in DOMAIN seq : Cardinality(upTo(j)) = i
<1>4. ByTime(seq) = [i \in DOMAIN seq |-> seq[pick(i)]]
  BY Zenon DEF ByTime
<1>6. \A i \in 1..n : pick(i) = i
  BY <1>3
<1> HIDE DEF pick, upTo
<1>7. ByTime(seq) = [i \in 1..n |-> seq[i]]
  BY <1>1, <1>4, <1>6
<1>5. seq = [i \in 1..n |-> seq[i]]
  BY <1>1 DEF Timed
<1> QED BY <1>5, <1>7

(* What is selected, by the places in order.                                *)
LEMMA SelectedByOrder ==
  ASSUME NEW seq, NEW chosen
  PROVE  Selected(seq, chosen) = [j \in 1..Cardinality(chosen) |-> seq[InOrder(chosen)[j]]]
BY DEF Selected, InOrder

(* The bins hold each packet once and nothing else, within their bounds and *)
(* in order.                                                                *)
LEMMA BinsHold ==
  ASSUME NEW seq, Timed(seq), NEW bins, bins = PartitionIntoWindows(seq)
  PROVE  LET place == UNION {{<<k, i>> : i \in DOMAIN bins[k]} : k \in DOMAIN bins} IN
         /\ \A p \in ToSet(seq) : \E at \in place : \A b \in place :
              bins[b[1]][b[2]] = p <=> b = at
         /\ \A k \in DOMAIN bins : \A i \in DOMAIN bins[k] :
              /\ bins[k][i] \in ToSet(seq)
              /\ bins[k][i].at - seq[1].at \in (k * WindowLength)..((k + 1) * WindowLength - 1)
              /\ i > 1 => bins[k][i - 1].at <= bins[k][i].at
<1> DEFINE n == Len(seq)
           index(i) == WindowIndex(seq[i], seq[1].at)
           places(k) == {i \in 1..n : index(i) = k}
           size(k) == Cardinality(places(k))
           at(k) == InOrder(places(k))
           keys == {index(i) : i \in 1..n}
           place == UNION {{<<k, i>> : i \in DOMAIN bins[k]} : k \in DOMAIN bins}
<1>1. /\ n \in Nat /\ DOMAIN seq = 1..n
      /\ \A i \in 1..n : seq[i].at \in Int
      /\ \A i, j \in 1..n : i <= j => seq[i].at <= seq[j].at
      /\ \A i, j \in 1..n : seq[i] = seq[j] => i = j
  BY TimedAre DEF Timed
<1>2. ByTime(seq) = seq
  BY ByTimeIs
<1> HIDE DEF n
<1>3. bins = [k \in keys |-> Selected(seq, places(k))]
  <2>1. {WindowIndex(p, seq[1].at) : p \in ToSet(seq)} = keys
    BY <1>1 DEF ToSet
  <2> QED BY <1>1, <1>2, <2>1 DEF PartitionIntoWindows
<1>4. \A k : places(k) \in SUBSET Int /\ IsFiniteSet(places(k))
  <2> SUFFICES ASSUME NEW k
               PROVE  places(k) \in SUBSET Int /\ IsFiniteSet(places(k))
    OBVIOUS
  <2>1. places(k) \in SUBSET (1..n) /\ IsFiniteSet(1..n)
    BY <1>1, FS_Interval
  <2>2. 1..n \subseteq Int
    BY <1>1
  <2> HIDE DEF places
  <2>3. IsFiniteSet(places(k))
    BY <2>1, FS_Subset
  <2> QED BY <2>1, <2>2, <2>3
<1>5. \A k : \A i \in places(k) : i \in 1..n /\ index(i) = k
  <2> SUFFICES ASSUME NEW k, NEW i \in places(k)
               PROVE  i \in 1..n /\ index(i) = k
    OBVIOUS
  <2> HIDE DEF index
  <2> QED OBVIOUS
<1>6. \A i \in 1..n : i \in places(index(i)) /\ index(i) \in keys
  OBVIOUS
<1>7. \A i \in 1..n : /\ index(i) \in Int /\ index(i) * WindowLength <= seq[i].at - seq[1].at
                       /\ seq[i].at - seq[1].at < index(i) * WindowLength + WindowLength
  <2> SUFFICES ASSUME NEW i \in 1..n
               PROVE  /\ index(i) \in Int /\ index(i) * WindowLength <= seq[i].at - seq[1].at
                      /\ seq[i].at - seq[1].at < index(i) * WindowLength + WindowLength
    OBVIOUS
  <2>1. WindowLength \in Nat \ {0} /\ seq[i].at - seq[1].at \in Int
    BY <1>1, CaptureAssumption
  <2> QED BY <2>1, DivIs DEF WindowIndex
<1> HIDE DEF index, places
<1>8. \A k : /\ size(k) \in Nat /\ at(k) \in [1..size(k) -> places(k)]
             /\ \A i, j \in 1..size(k) : i < j => at(k)[i] < at(k)[j]
             /\ \A m \in places(k) : \E i \in 1..size(k) : at(k)[i] = m
  BY <1>4, InOrderIs
<1>9. \A k \in keys : bins[k] = [j \in 1..size(k) |-> seq[at(k)[j]]]
  BY <1>3, SelectedByOrder
<1> HIDE DEF size, at
<1>10. DOMAIN bins = keys
  BY <1>3
<1> HIDE DEF keys
<1>11. \A k \in keys : /\ DOMAIN bins[k] = 1..size(k)
                       /\ \A i \in 1..size(k) : /\ bins[k][i] = seq[at(k)[i]]
                                               /\ at(k)[i] \in 1..n /\ index(at(k)[i]) = k
  <2> SUFFICES ASSUME NEW k \in keys
               PROVE  /\ DOMAIN bins[k] = 1..size(k)
                      /\ \A i \in 1..size(k) : /\ bins[k][i] = seq[at(k)[i]]
                                              /\ at(k)[i] \in 1..n /\ index(at(k)[i]) = k
    OBVIOUS
  <2>1. at(k) \in [1..size(k) -> places(k)]
    BY <1>8
  <2>2. bins[k] = [j \in 1..size(k) |-> seq[at(k)[j]]]
    BY <1>9
  <2>3. \A i \in places(k) : i \in 1..n /\ index(i) = k
    BY <1>5
  <2> QED BY <2>1, <2>2, <2>3
<1>12. \A p \in ToSet(seq) : \E a \in place : \A b \in place :
              bins[b[1]][b[2]] = p <=> b = a
  <2> SUFFICES ASSUME NEW m \in 1..n
               PROVE  \E a \in place : \A b \in place : bins[b[1]][b[2]] = seq[m] <=> b = a
    BY <1>1 DEF ToSet
  <2> DEFINE k == index(m)
  <2>1. k \in keys /\ m \in places(k)
    BY <1>6
  <2> HIDE DEF k
  <2>2. PICK i \in 1..size(k) : at(k)[i] = m
    BY <1>8, <2>1
  <2>3. <<k, i>> \in place
    <3>1. k \in DOMAIN bins /\ i \in DOMAIN bins[k]
      BY <1>10, <1>11, <2>1
    <3> QED BY <3>1
  <2>4. ASSUME NEW l \in keys, NEW h \in 1..size(l)
        PROVE  bins[l][h] = seq[m] <=> l = k /\ h = i
    <3>1. bins[l][h] = seq[at(l)[h]] /\ at(l)[h] \in 1..n /\ index(at(l)[h]) = l
      BY <1>11
    <3>2. ASSUME bins[l][h] = seq[m]
          PROVE  l = k /\ h = i
      <4>1. at(l)[h] = m /\ l = k
        BY <1>1, <3>1, <3>2 DEF k
      <4>2. ~(h < i) /\ ~(i < h)
        <5>1. at(k)[h] = m /\ h \in 1..size(k) /\ m \in Int
          BY <1>1, <4>1
        <5>2. h < i => at(k)[h] < at(k)[i]
          BY <1>8, <5>1
        <5>3. i < h => at(k)[i] < at(k)[h]
          BY <1>8, <5>1
        <5> QED BY <2>2, <5>1, <5>2, <5>3
      <4>3. h \in Int /\ i \in Int
        OBVIOUS
      <4> QED BY <4>1, <4>2, <4>3
    <3>3. ASSUME l = k, h = i
          PROVE  bins[l][h] = seq[m]
      BY <2>2, <3>1, <3>3
    <3> QED BY <3>2, <3>3
  <2>5. \A b \in place : bins[b[1]][b[2]] = seq[m] <=> b = <<k, i>>
    <3> SUFFICES ASSUME NEW l \in DOMAIN bins, NEW h \in DOMAIN bins[l]
                 PROVE  bins[l][h] = seq[m] <=> <<l, h>> = <<k, i>>
      OBVIOUS
    <3>1. l \in keys /\ h \in 1..size(l)
      BY <1>10, <1>11
    <3>2. bins[l][h] = seq[m] <=> l = k /\ h = i
      BY <2>4, <3>1
    <3> QED BY <3>2
  <2> QED BY <2>3, <2>5
<1>13. \A k \in DOMAIN bins : \A i \in DOMAIN bins[k] :
              /\ bins[k][i] \in ToSet(seq)
              /\ bins[k][i].at - seq[1].at \in (k * WindowLength)..((k + 1) * WindowLength - 1)
              /\ i > 1 => bins[k][i - 1].at <= bins[k][i].at
  <2> SUFFICES ASSUME NEW k \in keys, NEW i \in 1..size(k)
               PROVE  /\ bins[k][i] \in ToSet(seq)
                      /\ bins[k][i].at - seq[1].at \in (k * WindowLength)..((k + 1) * WindowLength - 1)
                      /\ i > 1 => bins[k][i - 1].at <= bins[k][i].at
    BY <1>10, <1>11
  <2> DEFINE m == at(k)[i]
  <2>1. bins[k][i] = seq[m] /\ m \in 1..n /\ index(m) = k
    BY <1>11
  <2> HIDE DEF m
  <2>2. bins[k][i] \in ToSet(seq)
    BY <1>1, <2>1 DEF ToSet
  <2>3. bins[k][i].at - seq[1].at \in (k * WindowLength)..((k + 1) * WindowLength - 1)
    <3>1. /\ k \in Int /\ k * WindowLength <= seq[m].at - seq[1].at
          /\ seq[m].at - seq[1].at < k * WindowLength + WindowLength
      BY <1>7, <2>1
    <3>2. WindowLength \in Nat /\ seq[m].at - seq[1].at \in Int
      BY <1>1, <2>1, CaptureAssumption
    <3>3. (k + 1) * WindowLength = k * WindowLength + WindowLength /\ k * WindowLength \in Int
      BY <3>1, <3>2
    <3> QED BY <2>1, <3>1, <3>2, <3>3
  <2>4. ASSUME i > 1
        PROVE  bins[k][i - 1].at <= bins[k][i].at
    <3>1. i - 1 \in 1..size(k) /\ i - 1 < i
      BY <1>8, <2>4
    <3>2. at(k)[i - 1] < m /\ bins[k][i - 1] = seq[at(k)[i - 1]] /\ at(k)[i - 1] \in 1..n
      BY <1>8, <1>11, <3>1 DEF m
    <3>3. at(k)[i - 1] <= m
      BY <1>1, <2>1, <3>2
    <3> QED BY <1>1, <2>1, <3>2, <3>3
  <2> QED BY <2>2, <2>3, <2>4
<1> QED BY <1>12, <1>13

-----------------------------------------------------------------------------
(* Flows.                                                                   *)

(* The greater of two numbers.                                              *)
LEMMA MaxOfTwo ==
  ASSUME NEW a \in Int, NEW b \in Int
  PROVE  Max({a, b}) = IF a <= b THEN b ELSE a
<1>1. {a, b} \in SUBSET Int /\ {a, b} # {} /\ IsFiniteSet({a, b})
  <2>1. IsFiniteSet({a}) /\ {a, b} = {a} \union {b}
    BY FS_Singleton
  <2>2. IsFiniteSet({a} \union {b})
    BY <2>1, FS_AddElement
  <2> QED BY <2>1, <2>2
<1>2. Max({a, b}) \in {a, b} /\ \A x \in {a, b} : x <= Max({a, b})
  BY <1>1, ExtremesAre
<1> QED BY <1>2

(* The sums of the first n numbers.                                         *)
IsSumming(u, seq, n) ==
  u = [k \in 0..n |-> IF k = 0 THEN 0 ELSE u[k - 1] + seq[k]]

(* The sums exist.                                                          *)
LEMMA SumsExist ==
  ASSUME NEW seq, NEW N \in Nat
  PROVE  \E u : IsSumming(u, seq, N)
<1> DEFINE S == {n \in 0..N : \E u : IsSumming(u, seq, n)}
<1>1. 0 \in S
  <2>1. IsSumming([k \in 0..0 |-> 0], seq, 0)
    BY DEF IsSumming
  <2> QED BY <2>1
<1>2. ASSUME NEW n \in 1..N, n - 1 \in S
      PROVE  n \in S
  <2>1. PICK u : IsSumming(u, seq, n - 1)
    BY <1>2
  <2> DEFINE v == [k \in 0..n |-> IF k = n THEN u[n - 1] + seq[n] ELSE u[k]]
  <2>2. \A k \in 0..(n - 1) : u[k] = IF k = 0 THEN 0 ELSE u[k - 1] + seq[k]
    BY <2>1 DEF IsSumming
  <2>3. /\ v = [k \in 0..n |-> v[k]] /\ v[n] = u[n - 1] + seq[n]
        /\ \A k \in 0..(n - 1) : v[k] = u[k]
    OBVIOUS
  <2> HIDE DEF v
  <2>4. \A k \in 0..n : v[k] = IF k = 0 THEN 0 ELSE v[k - 1] + seq[k]
    <3> SUFFICES ASSUME NEW k \in 0..n
                 PROVE  v[k] = IF k = 0 THEN 0 ELSE v[k - 1] + seq[k]
      OBVIOUS
    <3>1. CASE k = n
      <4>1. k # 0 /\ k - 1 = n - 1 /\ n - 1 \in 0..(n - 1)
        BY <3>1
      <4> QED BY <2>3, <3>1, <4>1
    <3>2. CASE k # n
      <4>1. k \in 0..(n - 1) /\ (k # 0 => k - 1 \in 0..(n - 1))
        BY <3>2
      <4> QED BY <2>2, <2>3, <4>1
    <3> QED BY <3>1, <3>2
  <2>5. IsSumming(v, seq, n)
    BY <2>3, <2>4 DEF IsSumming
  <2> QED BY <2>5
<1> HIDE DEF S
<1>3. \A n \in 0..N : n \in S
  BY <1>1, <1>2, UpToInduction
<1> QED BY <1>3 DEF S

(* A total is the last of the sums.                                         *)
LEMMA TotalIs ==
  ASSUME NEW seq, Len(seq) \in Nat
  PROVE  \E u : /\ Total(seq) = u[Len(seq)]
                /\ u[0] = 0 /\ \A k \in 1..Len(seq) : u[k] = u[k - 1] + seq[k]
<1> DEFINE N == Len(seq)
           body(f) == [k \in 0..N |-> IF k = 0 THEN 0 ELSE f[k - 1] + seq[k]]
           u == CHOOSE f : f = body(f)
<1>1. u = body(u)
  <2>1. \E f : f = body(f)
    <3> HIDE DEF N
    <3>1. N \in Nat
      BY DEF N
    <3> QED BY <3>1, SumsExist DEF IsSumming
  <2> HIDE DEF body
  <2> QED BY <2>1, Zenon
<1>2. Total(seq) = u[N]
  BY DEF Total
<1> HIDE DEF u
<1>3. \A k \in 0..N : u[k] = IF k = 0 THEN 0 ELSE u[k - 1] + seq[k]
  BY <1>1
<1> HIDE DEF N, body
<1>4. u[0] = 0 /\ \A k \in 1..N : u[k] = u[k - 1] + seq[k]
  BY <1>3 DEF N
<1> QED BY <1>2, <1>4 DEF N

(* The times between moments add up to the time from the first to the last. *)
LEMMA GapsAddUp ==
  ASSUME NEW ts \in Seq(Nat), Len(ts) # 0, NEW gaps,
         gaps = [i \in 1..(Len(ts) - 1) |-> ts[i + 1] - ts[i]]
  PROVE  Total(gaps) = ts[Len(ts)] - ts[1]
<1> DEFINE m == Len(ts) - 1
<1>1. m \in Nat /\ Len(gaps) = m /\ \A i \in 1..(m + 1) : ts[i] \in Nat
  <2>1. Len(ts) \in Nat /\ \A i \in 1..Len(ts) : ts[i] \in Nat
    BY LenProperties, ElementOfSeq
  <2>2. m \in Nat
    BY <2>1
  <2>3. Len(gaps) = m
    BY <2>2
  <2> QED BY <2>1, <2>2, <2>3
<1>2. \A i \in 1..m : gaps[i] = ts[i + 1] - ts[i]
  OBVIOUS
<1>3. m + 1 = Len(ts)
  BY <1>1, LenProperties
<1> HIDE DEF m
<1>4. PICK u : /\ Total(gaps) = u[m] /\ u[0] = 0
               /\ \A k \in 1..m : u[k] = u[k - 1] + gaps[k]
  BY <1>1, TotalIs
<1> DEFINE S == {k \in 0..m : u[k] = ts[k + 1] - ts[1]}
<1>5. 0 \in S
  BY <1>1, <1>4
<1>6. ASSUME NEW k \in 1..m, k - 1 \in S
      PROVE  k \in S
  <2>1. u[k - 1] = ts[k] - ts[1] /\ u[k] = u[k - 1] + gaps[k] /\ gaps[k] = ts[k + 1] - ts[k]
    BY <1>2, <1>4, <1>6
  <2>2. ts[k] \in Nat /\ ts[k + 1] \in Nat /\ ts[1] \in Nat
    BY <1>1
  <2> QED BY <2>1, <2>2
<1> HIDE DEF S
<1>7. m \in S
  <2>1. m \in Nat
    BY <1>1
  <2>2. \A k \in 0..m : k \in S
    BY <1>5, <1>6, <2>1, UpToInduction
  <2> QED BY <2>1, <2>2
<1> QED BY <1>3, <1>4, <1>7 DEF S

(* The flows of the first n packets.                                        *)
IsFlowing(u, seq, n) ==
  u = [k \in 0..n |-> IF k = 0 THEN <<>> ELSE AddPacket(u[k - 1], seq[k])]

(* They exist.                                                              *)
LEMMA FlowingExists ==
  ASSUME NEW seq, NEW N \in Nat
  PROVE  \E u : IsFlowing(u, seq, N)
<1> DEFINE S == {n \in 0..N : \E u : IsFlowing(u, seq, n)}
<1>1. 0 \in S
  <2>1. IsFlowing([k \in 0..0 |-> <<>>], seq, 0)
    BY DEF IsFlowing
  <2> QED BY <2>1
<1>2. ASSUME NEW n \in 1..N, n - 1 \in S
      PROVE  n \in S
  <2>1. PICK u : IsFlowing(u, seq, n - 1)
    BY <1>2
  <2> DEFINE v == [k \in 0..n |-> IF k = n THEN AddPacket(u[n - 1], seq[n]) ELSE u[k]]
  <2>2. \A k \in 0..(n - 1) : u[k] = IF k = 0 THEN <<>> ELSE AddPacket(u[k - 1], seq[k])
    BY <2>1 DEF IsFlowing
  <2>3. /\ v = [k \in 0..n |-> v[k]] /\ v[n] = AddPacket(u[n - 1], seq[n])
        /\ \A k \in 0..(n - 1) : v[k] = u[k]
    OBVIOUS
  <2> HIDE DEF v
  <2>4. \A k \in 0..n : v[k] = IF k = 0 THEN <<>> ELSE AddPacket(v[k - 1], seq[k])
    <3> SUFFICES ASSUME NEW k \in 0..n
                 PROVE  v[k] = IF k = 0 THEN <<>> ELSE AddPacket(v[k - 1], seq[k])
      OBVIOUS
    <3>1. CASE k = n
      <4>1. k # 0 /\ k - 1 = n - 1 /\ n - 1 \in 0..(n - 1)
        BY <3>1
      <4> QED BY <2>3, <3>1, <4>1
    <3>2. CASE k # n
      <4>1. k \in 0..(n - 1) /\ (k # 0 => k - 1 \in 0..(n - 1))
        BY <3>2
      <4> QED BY <2>2, <2>3, <4>1
    <3> QED BY <3>1, <3>2
  <2>5. IsFlowing(v, seq, n)
    BY <2>3, <2>4 DEF IsFlowing
  <2> QED BY <2>5
<1> HIDE DEF S
<1>3. \A n \in 0..N : n \in S
  BY <1>1, <1>2, UpToInduction
<1> QED BY <1>3 DEF S

(* FlowsOf adds the packets one by one.                                     *)
LEMMA FlowsOfIs ==
  ASSUME NEW seq, Len(seq) \in Nat
  PROVE  \E u : /\ FlowsOf(seq) = u[Len(seq)]
                /\ u[0] = <<>> /\ \A k \in 1..Len(seq) : u[k] = AddPacket(u[k - 1], seq[k])
<1> DEFINE N == Len(seq)
           body(f) == [k \in 0..N |-> IF k = 0 THEN <<>> ELSE AddPacket(f[k - 1], seq[k])]
           u == CHOOSE f : f = body(f)
<1>1. u = body(u)
  <2>1. \E f : f = body(f)
    <3> HIDE DEF N
    <3>1. N \in Nat
      BY DEF N
    <3> QED BY <3>1, FlowingExists DEF IsFlowing
  <2> HIDE DEF body
  <2> QED BY <2>1, Zenon
<1>2. FlowsOf(seq) = u[N]
  BY DEF FlowsOf
<1> HIDE DEF u
<1>3. \A k \in 0..N : u[k] = IF k = 0 THEN <<>> ELSE AddPacket(u[k - 1], seq[k])
  BY <1>1
<1> HIDE DEF N, body
<1>4. u[0] = <<>> /\ \A k \in 1..N : u[k] = AddPacket(u[k - 1], seq[k])
  BY <1>3 DEF N
<1> QED BY <1>2, <1>4 DEF N

(* A flow.                                                                  *)
Flow ==
  [initiator : Int, responder : Int, start : Nat, last : Nat, fwd : Nat, bwd : Nat,
   timestamps : Seq(Nat)]

(* What a later packet makes of a flow.                                     *)
LEMMA LaterIs ==
  ASSUME NEW f \in Flow, NEW p \in Packet, f.last <= p.at
  PROVE  /\ Later(f, p) \in Flow
         /\ Later(f, p).initiator = f.initiator /\ Later(f, p).start = f.start
         /\ Later(f, p).last = p.at
         /\ Later(f, p).timestamps = Append(f.timestamps, p.at)
         /\ p.src = f.initiator => Later(f, p).fwd = f.fwd + 1 /\ Later(f, p).bwd = f.bwd
         /\ p.src # f.initiator => Later(f, p).fwd = f.fwd /\ Later(f, p).bwd = f.bwd + 1
<1>1. p.at \in Nat /\ p.src \in Int
  BY DEF Packet
<1>2. f.last \in Nat /\ f.fwd \in Nat /\ f.bwd \in Nat /\ f.timestamps \in Seq(Nat)
  BY DEF Flow
<1> DEFINE last == Max({f.last, p.at})
           times == Append(f.timestamps, p.at)
           fwd == f.fwd + (IF p.src = f.initiator THEN 1 ELSE 0)
           bwd == f.bwd + (IF p.src = f.initiator THEN 0 ELSE 1)
           g == [f EXCEPT !.last = last, !.timestamps = times, !.fwd = fwd, !.bwd = bwd]
<1>3. Later(f, p) = g
  BY DEF Later
<1>4. last = p.at
  BY <1>1, <1>2, MaxOfTwo
<1>5. times \in Seq(Nat) /\ fwd \in Nat /\ bwd \in Nat
  BY <1>1, <1>2, AppendProperties
<1>6. /\ p.src = f.initiator => fwd = f.fwd + 1 /\ bwd = f.bwd
      /\ p.src # f.initiator => fwd = f.fwd /\ bwd = f.bwd + 1
  BY <1>2
<1>7. times = Append(f.timestamps, p.at)
  OBVIOUS
<1> HIDE DEF last, times, fwd, bwd
<1>8. /\ g.initiator = f.initiator /\ g.start = f.start /\ g.last = last /\ g.fwd = fwd
      /\ g.bwd = bwd /\ g.timestamps = times
  BY DEF Flow
<1>9. g \in Flow
  BY <1>1, <1>4, <1>5 DEF Flow
<1> HIDE DEF g
<1> QED BY <1>3, <1>4, <1>6, <1>7, <1>8, <1>9

(* The packets of a flow among the first n.                                 *)
Between(seq, key, n) == {i \in 1..n : FlowKey(seq[i]) = key}

Forward(seq, key, n, initiator) == {i \in Between(seq, key, n) : seq[i].src = initiator}

(* A flow stands for the packets with its key among the first n.            *)
FlowIs(f, seq, key, n) ==
  /\ f \in Flow
  /\ \E i \in Between(seq, key, n) :
       /\ \A j \in Between(seq, key, n) : i <= j
       /\ seq[i].src = f.initiator
  /\ f.fwd = Cardinality(Forward(seq, key, n, f.initiator))
  /\ f.fwd + f.bwd = Cardinality(Between(seq, key, n))
  /\ Len(f.timestamps) # 0
  /\ f.timestamps[1] = f.start /\ f.timestamps[Len(f.timestamps)] = f.last
  /\ \A i \in 1..(Len(f.timestamps) - 1) : f.timestamps[i] <= f.timestamps[i + 1]
  /\ \E i \in 1..n : f.last = seq[i].at

(* They are finitely many.                                                  *)
LEMMA BetweenIsFinite ==
  ASSUME NEW seq, NEW key, NEW n \in Nat, NEW initiator
  PROVE  /\ IsFiniteSet(Between(seq, key, n)) /\ Cardinality(Between(seq, key, n)) \in Nat
         /\ IsFiniteSet(Forward(seq, key, n, initiator))
         /\ Cardinality(Forward(seq, key, n, initiator)) \in Nat
<1>1. Between(seq, key, n) \in SUBSET (1..n) /\ IsFiniteSet(1..n)
  BY FS_Interval DEF Between
<1>2. Forward(seq, key, n, initiator) \in SUBSET (1..n)
  BY <1>1 DEF Forward
<1>3. IsFiniteSet(Between(seq, key, n)) /\ IsFiniteSet(Forward(seq, key, n, initiator))
  BY <1>1, <1>2, FS_Subset
<1> QED BY <1>3, FS_CardinalityType

(* The next packet joins the packets with its key, and no others.           *)
LEMMA BetweenGrows ==
  ASSUME NEW seq, NEW n \in Nat \ {0}, NEW key, NEW initiator
  PROVE  /\ FlowKey(seq[n]) # key =>
              /\ Between(seq, key, n) = Between(seq, key, n - 1)
              /\ Forward(seq, key, n, initiator) = Forward(seq, key, n - 1, initiator)
         /\ FlowKey(seq[n]) = key =>
              /\ Between(seq, key, n) = Between(seq, key, n - 1) \union {n}
              /\ Cardinality(Between(seq, key, n)) = Cardinality(Between(seq, key, n - 1)) + 1
              /\ seq[n].src = initiator =>
                   Cardinality(Forward(seq, key, n, initiator))
                     = Cardinality(Forward(seq, key, n - 1, initiator)) + 1
              /\ seq[n].src # initiator =>
                   Forward(seq, key, n, initiator) = Forward(seq, key, n - 1, initiator)
<1>1. \A i : i \in 1..n <=> i = n \/ i \in 1..(n - 1)
  OBVIOUS
<1>2. n \notin 1..(n - 1) /\ n - 1 \in Nat
  OBVIOUS
<1>3. ASSUME FlowKey(seq[n]) # key
      PROVE  /\ Between(seq, key, n) = Between(seq, key, n - 1)
             /\ Forward(seq, key, n, initiator) = Forward(seq, key, n - 1, initiator)
  <2>1. Between(seq, key, n) = Between(seq, key, n - 1)
    BY <1>1, <1>3 DEF Between
  <2> QED BY <2>1 DEF Forward
<1>4. ASSUME FlowKey(seq[n]) = key
      PROVE  /\ Between(seq, key, n) = Between(seq, key, n - 1) \union {n}
             /\ Cardinality(Between(seq, key, n)) = Cardinality(Between(seq, key, n - 1)) + 1
             /\ seq[n].src = initiator =>
                  Cardinality(Forward(seq, key, n, initiator))
                    = Cardinality(Forward(seq, key, n - 1, initiator)) + 1
             /\ seq[n].src # initiator =>
                  Forward(seq, key, n, initiator) = Forward(seq, key, n - 1, initiator)
  <2>1. Between(seq, key, n) = Between(seq, key, n - 1) \union {n}
    BY <1>1, <1>4 DEF Between
  <2>2. n \notin Between(seq, key, n - 1) /\ n \notin Forward(seq, key, n - 1, initiator)
    BY <1>2 DEF Between, Forward
  <2>3. IsFiniteSet(Between(seq, key, n - 1)) /\ IsFiniteSet(Forward(seq, key, n - 1, initiator))
    BY <1>2, BetweenIsFinite
  <2>4. seq[n].src = initiator =>
          Forward(seq, key, n, initiator) = Forward(seq, key, n - 1, initiator) \union {n}
    BY <2>1 DEF Forward
  <2>5. seq[n].src # initiator =>
          Forward(seq, key, n, initiator) = Forward(seq, key, n - 1, initiator)
    BY <2>1 DEF Forward
  <2>6. Cardinality(Between(seq, key, n)) = Cardinality(Between(seq, key, n - 1)) + 1
    BY <2>1, <2>2, <2>3, FS_AddElement
  <2>7. seq[n].src = initiator =>
          Cardinality(Forward(seq, key, n, initiator))
            = Cardinality(Forward(seq, key, n - 1, initiator)) + 1
    BY <2>2, <2>3, <2>4, FS_AddElement
  <2> QED BY <2>1, <2>5, <2>6, <2>7
<1> QED BY <1>3, <1>4

(* The first packet opens the flow.                                         *)
LEMMA FlowOpens ==
  ASSUME NEW seq, Timed(seq), NEW n \in 1..Len(seq), NEW key, key = FlowKey(seq[n]),
         Between(seq, key, n - 1) = {}
  PROVE  FlowIs(Later(NewFlow(seq[n]), seq[n]), seq, key, n)
<1> DEFINE p == seq[n]
           f == NewFlow(p)
           g == Later(f, p)
<1>1. n \in Nat \ {0} /\ p \in Packet /\ p.at \in Nat /\ p.src \in Int /\ p.dst \in Int
  BY TimedAre
<1>2. /\ f \in Flow /\ f.last = p.at /\ f.start = p.at /\ f.initiator = p.src
      /\ f.fwd = 0 /\ f.bwd = 0 /\ f.timestamps = <<>>
  <2> HIDE DEF p
  <2>1. <<>> \in Seq(Nat)
    BY EmptySeq
  <2> QED BY <1>1, <2>1 DEF NewFlow, Flow
<1> HIDE DEF p, f
<1>3. /\ g \in Flow /\ g.initiator = p.src /\ g.start = p.at /\ g.last = p.at
      /\ g.timestamps = Append(<<>>, p.at) /\ g.fwd = 1 /\ g.bwd = 0
  <2>1. f.last <= p.at
    BY <1>1, <1>2
  <2> QED BY <1>1, <1>2, <2>1, LaterIs
<1> HIDE DEF g
<1>4. Len(g.timestamps) = 1 /\ g.timestamps[1] = p.at
  <2>1. <<>> \in Seq(Nat) /\ Len(<<>>) = 0
    BY EmptySeq
  <2> QED BY <1>1, <1>3, <2>1, AppendProperties
<1>5. FlowKey(seq[n]) = key /\ seq[n].src = p.src
  BY DEF p
<1>6. /\ Between(seq, key, n) = {n}
      /\ Cardinality(Between(seq, key, n)) = Cardinality(Between(seq, key, n - 1)) + 1
      /\ Cardinality(Forward(seq, key, n, p.src)) = Cardinality(Forward(seq, key, n - 1, p.src)) + 1
  <2>1. /\ Between(seq, key, n) = Between(seq, key, n - 1) \union {n}
        /\ Cardinality(Between(seq, key, n)) = Cardinality(Between(seq, key, n - 1)) + 1
    BY <1>1, <1>5, BetweenGrows
  <2>2. \A initiator : seq[n].src = initiator =>
          Cardinality(Forward(seq, key, n, initiator)) = Cardinality(Forward(seq, key, n - 1, initiator)) + 1
    BY <1>1, <1>5, BetweenGrows
  <2> QED BY <1>5, <2>1, <2>2
<1>7. Cardinality(Between(seq, key, n - 1)) = 0 /\ Cardinality(Forward(seq, key, n - 1, p.src)) = 0
  <2>1. Forward(seq, key, n - 1, p.src) = {}
    BY DEF Forward
  <2> QED BY <2>1, FS_EmptySet
<1>8. g.fwd = Cardinality(Forward(seq, key, n, g.initiator)) /\ g.fwd + g.bwd = Cardinality(Between(seq, key, n))
  BY <1>3, <1>6, <1>7
<1>9. \E i \in Between(seq, key, n) :
        /\ \A j \in Between(seq, key, n) : i <= j
        /\ seq[i].src = g.initiator
  BY <1>1, <1>3, <1>5, <1>6
<1>10. \E i \in 1..n : g.last = seq[i].at
  BY <1>1, <1>3 DEF p
<1>11. FlowIs(g, seq, key, n)
  BY <1>3, <1>4, <1>8, <1>9, <1>10 DEF FlowIs
<1> QED BY <1>11 DEF g, f, p

(* A later packet goes on with the flow.                                    *)
LEMMA FlowGoesOn ==
  ASSUME NEW seq, Timed(seq), NEW n \in 1..Len(seq), NEW key, key = FlowKey(seq[n]),
         NEW f, FlowIs(f, seq, key, n - 1)
  PROVE  FlowIs(Later(f, seq[n]), seq, key, n)
<1> DEFINE p == seq[n]
           g == Later(f, p)
           m == Len(f.timestamps)
<1>1. n \in Nat \ {0} /\ n - 1 \in Nat /\ p \in Packet /\ p.at \in Nat
  BY TimedAre
<1>2. FlowKey(seq[n]) = key /\ seq[n].src = p.src
  OBVIOUS
<1>3. /\ f \in Flow /\ f.fwd \in Nat /\ f.bwd \in Nat /\ f.last \in Nat /\ f.timestamps \in Seq(Nat)
  BY DEF FlowIs, Flow
<1>4. f.last <= p.at
  <2>1. PICK i \in 1..(n - 1) : f.last = seq[i].at
    BY DEF FlowIs
  <2>2. i \in 1..Len(seq) /\ i <= n
    BY TimedAre
  <2> QED BY <2>1, <2>2, TimedAre
<1>5. \E i \in 1..n : p.at = seq[i].at
  BY <1>1
<1> HIDE DEF p
<1>6. /\ g \in Flow /\ g.initiator = f.initiator /\ g.start = f.start /\ g.last = p.at
      /\ g.timestamps = Append(f.timestamps, p.at)
      /\ p.src = f.initiator => g.fwd = f.fwd + 1 /\ g.bwd = f.bwd
      /\ p.src # f.initiator => g.fwd = f.fwd /\ g.bwd = f.bwd + 1
  BY <1>1, <1>3, <1>4, LaterIs
<1> HIDE DEF g
<1>7. /\ m \in Nat \ {0} /\ f.timestamps[1] = f.start /\ f.timestamps[m] = f.last
      /\ \A i \in 1..(m - 1) : f.timestamps[i] <= f.timestamps[i + 1]
  BY <1>3, LenProperties DEF FlowIs
<1>8. /\ Len(g.timestamps) = m + 1 /\ g.timestamps[m + 1] = p.at
      /\ \A i \in 1..m : g.timestamps[i] = f.timestamps[i]
  BY <1>1, <1>3, <1>6, AppendProperties
<1> HIDE DEF m
<1>9. /\ Len(g.timestamps) # 0
      /\ g.timestamps[1] = g.start /\ g.timestamps[Len(g.timestamps)] = g.last
  BY <1>6, <1>7, <1>8
<1>10. \A i \in 1..(Len(g.timestamps) - 1) : g.timestamps[i] <= g.timestamps[i + 1]
  <2> SUFFICES ASSUME NEW i \in 1..m
               PROVE  g.timestamps[i] <= g.timestamps[i + 1]
    BY <1>7, <1>8
  <2>1. CASE i = m
    BY <1>4, <1>7, <1>8, <2>1
  <2>2. CASE i # m
    <3>1. i \in 1..(m - 1) /\ i + 1 \in 1..m
      BY <1>7, <2>2
    <3> QED BY <1>7, <1>8, <3>1
  <2> QED BY <2>1, <2>2
<1>11. /\ Between(seq, key, n) = Between(seq, key, n - 1) \union {n}
       /\ Cardinality(Between(seq, key, n)) = Cardinality(Between(seq, key, n - 1)) + 1
  BY <1>1, <1>2, BetweenGrows
<1>12. /\ p.src = f.initiator =>
            Cardinality(Forward(seq, key, n, f.initiator)) = Cardinality(Forward(seq, key, n - 1, f.initiator)) + 1
       /\ p.src # f.initiator =>
            Forward(seq, key, n, f.initiator) = Forward(seq, key, n - 1, f.initiator)
  <2>1. \A initiator :
          /\ seq[n].src = initiator =>
               Cardinality(Forward(seq, key, n, initiator)) = Cardinality(Forward(seq, key, n - 1, initiator)) + 1
          /\ seq[n].src # initiator =>
               Forward(seq, key, n, initiator) = Forward(seq, key, n - 1, initiator)
    BY <1>1, <1>2, BetweenGrows
  <2> QED BY <1>2, <2>1
<1>13. /\ f.fwd = Cardinality(Forward(seq, key, n - 1, f.initiator))
       /\ f.fwd + f.bwd = Cardinality(Between(seq, key, n - 1))
  BY DEF FlowIs
<1>14. g.fwd = Cardinality(Forward(seq, key, n, g.initiator)) /\ g.fwd + g.bwd = Cardinality(Between(seq, key, n))
  <2>1. CASE p.src = f.initiator
    <3>1. g.fwd = f.fwd + 1 /\ g.bwd = f.bwd /\ g.initiator = f.initiator
      BY <1>6, <2>1
    <3>2. g.fwd = Cardinality(Forward(seq, key, n, f.initiator))
      BY <1>12, <1>13, <2>1, <3>1
    <3>3. g.fwd + g.bwd = (f.fwd + f.bwd) + 1
      <4>1. \A a, b \in Nat : (a + 1) + b = (a + b) + 1 /\ a + (b + 1) = (a + b) + 1
        OBVIOUS
      <4> QED BY <1>3, <3>1, <4>1
    <3>4. g.fwd + g.bwd = Cardinality(Between(seq, key, n))
      BY <1>11, <1>13, <3>3
    <3> QED BY <3>1, <3>2, <3>4
  <2>2. CASE p.src # f.initiator
    <3>1. g.fwd = f.fwd /\ g.bwd = f.bwd + 1 /\ g.initiator = f.initiator
      BY <1>6, <2>2
    <3>2. g.fwd = Cardinality(Forward(seq, key, n, f.initiator))
      BY <1>12, <1>13, <2>2, <3>1
    <3>3. g.fwd + g.bwd = (f.fwd + f.bwd) + 1
      <4>1. \A a, b \in Nat : (a + 1) + b = (a + b) + 1 /\ a + (b + 1) = (a + b) + 1
        OBVIOUS
      <4> QED BY <1>3, <3>1, <4>1
    <3>4. g.fwd + g.bwd = Cardinality(Between(seq, key, n))
      BY <1>11, <1>13, <3>3
    <3> QED BY <3>1, <3>2, <3>4
  <2> QED BY <2>1, <2>2
<1>15. \E i \in Between(seq, key, n) :
         /\ \A j \in Between(seq, key, n) : i <= j
         /\ seq[i].src = g.initiator
  <2>1. PICK i \in Between(seq, key, n - 1) :
          /\ \A j \in Between(seq, key, n - 1) : i <= j
          /\ seq[i].src = f.initiator
    BY DEF FlowIs
  <2>2. i \in 1..(n - 1)
    BY DEF Between
  <2>3. i <= n
    BY <1>1, <2>2
  <2> QED BY <1>6, <1>11, <2>1, <2>3
<1>16. FlowIs(g, seq, key, n)
  BY <1>5, <1>6, <1>9, <1>10, <1>14, <1>15 DEF FlowIs
<1> QED BY <1>16 DEF g, p

(* A packet of another flow leaves a flow as it is.                         *)
LEMMA FlowStays ==
  ASSUME NEW seq, NEW n \in Nat \ {0}, NEW key, key # FlowKey(seq[n]),
         NEW f, FlowIs(f, seq, key, n - 1)
  PROVE  FlowIs(f, seq, key, n)
<1>1. Between(seq, key, n) = Between(seq, key, n - 1)
  BY BetweenGrows
<1>2. Forward(seq, key, n, f.initiator) = Forward(seq, key, n - 1, f.initiator)
  BY <1>1 DEF Forward
<1>3. \E i \in 1..n : f.last = seq[i].at
  <2>1. PICK i \in 1..(n - 1) : f.last = seq[i].at
    BY DEF FlowIs
  <2>2. i \in 1..n
    OBVIOUS
  <2> QED BY <2>1, <2>2
<1> QED BY <1>1, <1>2, <1>3 DEF FlowIs

(* The flows of the first n packets stand for them.                         *)
FlowsAre(flows, seq, n) ==
  /\ DOMAIN flows = {FlowKey(seq[i]) : i \in 1..n}
  /\ \A key \in DOMAIN flows : FlowIs(flows[key], seq, key, n)

(* One packet more, and they still do.                                      *)
LEMMA PacketJoins ==
  ASSUME NEW seq, Timed(seq), NEW n \in 1..Len(seq), NEW flows, FlowsAre(flows, seq, n - 1)
  PROVE  FlowsAre(AddPacket(flows, seq[n]), seq, n)
<1> DEFINE p == seq[n]
           added == AddPacket(flows, p)
           entry(key) == IF key # FlowKey(p) THEN flows[key]
                         ELSE Later(IF key \in DOMAIN flows THEN flows[key] ELSE NewFlow(p), p)
<1>1. n \in Nat \ {0}
  BY TimedAre
<1>2. /\ DOMAIN flows = {FlowKey(seq[i]) : i \in 1..(n - 1)}
      /\ \A key \in DOMAIN flows : FlowIs(flows[key], seq, key, n - 1)
  BY DEF FlowsAre
<1>3. added = [key \in DOMAIN flows \union {FlowKey(p)} |-> entry(key)]
  BY DEF AddPacket
<1>4. DOMAIN added = {FlowKey(seq[i]) : i \in 1..n}
  <2>1. \A i : i \in 1..n <=> i = n \/ i \in 1..(n - 1)
    BY <1>1
  <2>2. DOMAIN added = DOMAIN flows \union {FlowKey(seq[n])}
    BY <1>3
  <2> QED BY <1>2, <2>1, <2>2
<1>5. ASSUME NEW key \in DOMAIN flows \union {FlowKey(p)}
      PROVE  FlowIs(entry(key), seq, key, n)
  <2>1. CASE key # FlowKey(p)
    <3>1. entry(key) = flows[key] /\ key \in DOMAIN flows
      BY <2>1
    <3>2. FlowIs(flows[key], seq, key, n)
      BY <1>1, <1>2, <2>1, <3>1, FlowStays
    <3> QED BY <3>1, <3>2
  <2>2. CASE key = FlowKey(p) /\ key \in DOMAIN flows
    <3>1. entry(key) = Later(flows[key], p)
      BY <2>2
    <3>2. FlowIs(Later(flows[key], seq[n]), seq, key, n)
      BY <1>2, <2>2, FlowGoesOn
    <3> QED BY <3>1, <3>2
  <2>3. CASE key = FlowKey(p) /\ key \notin DOMAIN flows
    <3>1. entry(key) = Later(NewFlow(p), p)
      BY <2>3
    <3>2. Between(seq, key, n - 1) = {}
      BY <1>2, <2>3 DEF Between
    <3>3. FlowIs(Later(NewFlow(seq[n]), seq[n]), seq, key, n)
      BY <2>3, <3>2, FlowOpens
    <3> QED BY <3>1, <3>3
  <2> QED BY <2>1, <2>2, <2>3
<1> HIDE DEF entry
<1>6. \A key \in DOMAIN added : FlowIs(added[key], seq, key, n)
  BY <1>3, <1>5
<1> QED BY <1>4, <1>6 DEF FlowsAre

(* So do the flows of all of them.                                          *)
LEMMA FlowsOfAre ==
  ASSUME NEW seq, Timed(seq)
  PROVE  FlowsAre(FlowsOf(seq), seq, Len(seq))
<1> DEFINE N == Len(seq)
<1>1. N \in Nat
  BY TimedAre
<1>2. PICK u : /\ FlowsOf(seq) = u[N] /\ u[0] = <<>>
               /\ \A k \in 1..N : u[k] = AddPacket(u[k - 1], seq[k])
  BY <1>1, FlowsOfIs
<1> DEFINE S == {k \in 0..N : FlowsAre(u[k], seq, k)}
<1>3. 0 \in S
  <2>1. DOMAIN u[0] = {} /\ {FlowKey(seq[i]) : i \in 1..0} = {}
    BY <1>2
  <2> QED BY <1>1, <2>1 DEF FlowsAre
<1>4. ASSUME NEW k \in 1..N, k - 1 \in S
      PROVE  k \in S
  <2>1. FlowsAre(u[k - 1], seq, k - 1) /\ k \in 0..N
    BY <1>4
  <2>2. FlowsAre(AddPacket(u[k - 1], seq[k]), seq, k)
    BY <2>1, PacketJoins
  <2> QED BY <1>2, <2>1, <2>2
<1> HIDE DEF S
<1>5. \A k \in 0..N : k \in S
  BY <1>1, <1>3, <1>4, UpToInduction
<1>6. N \in S
  BY <1>1, <1>5
<1> QED BY <1>2, <1>6 DEF S

(* A key names the two sides of the conversation, whichever spoke first.    *)
LEMMA KeysAre ==
  ASSUME NEW p \in Packet, NEW q \in Packet
  PROVE  /\ ToSet(FlowKey(p)) = {p.src, p.dst}
         /\ {p.src, p.dst} = ToSet(FlowKey(q)) <=> FlowKey(p) = FlowKey(q)
<1>1. \A a, b : ToSet(<<a, b>>) = {a, b}
  BY DEF ToSet
<1>2. /\ p.src \in Int /\ p.dst \in Int /\ q.src \in Int /\ q.dst \in Int
  BY DEF Packet
<1>3. ToSet(FlowKey(p)) = {p.src, p.dst} /\ ToSet(FlowKey(q)) = {q.src, q.dst}
  <2>1. \A r : FlowKey(r) = <<r.src, r.dst>> \/ FlowKey(r) = <<r.dst, r.src>>
    BY DEF FlowKey
  <2>2. \A r : {r.src, r.dst} = {r.dst, r.src}
    OBVIOUS
  <2>3. \A r : ToSet(FlowKey(r)) = {r.src, r.dst}
    BY <1>1, <2>1, <2>2
  <2> QED BY <2>3
<1>4. {p.src, p.dst} = {q.src, q.dst} <=> FlowKey(p) = FlowKey(q)
  <2>1. ASSUME FlowKey(p) = FlowKey(q)
        PROVE  {p.src, p.dst} = {q.src, q.dst}
    BY <1>3, <2>1
  <2>2. ASSUME {p.src, p.dst} = {q.src, q.dst}
        PROVE  FlowKey(p) = FlowKey(q)
    <3>1. \/ p.src = q.src /\ p.dst = q.dst
          \/ p.src = q.dst /\ p.dst = q.src
      BY <2>2
    <3>2. CASE p.src = q.src /\ p.dst = q.dst
      BY <3>2 DEF FlowKey
    <3>3. CASE p.src = q.dst /\ p.dst = q.src
      BY <1>2, <3>3 DEF FlowKey
    <3> QED BY <3>1, <3>2, <3>3
  <2> QED BY <2>1, <2>2
<1> QED BY <1>3, <1>4

(* The features of a flow agree with one another.                           *)
LEMMA FeaturesAgree ==
  ASSUME NEW f, NEW seq, NEW key, NEW n \in Nat, FlowIs(f, seq, key, n), NEW x, x = FlowFeatures(f)
  PROVE  /\ x.fwd.of + x.bwd.of = x.fwd.over
         /\ x.iatMean.of = x.duration /\ x.iatMax <= x.duration
<1> DEFINE ts == f.timestamps
           m == Len(ts)
           iats == Interarrivals(f)
<1>1. /\ f.fwd \in Nat /\ f.bwd \in Nat /\ ts \in Seq(Nat) /\ f.start \in Nat /\ f.last \in Nat
      /\ m # 0 /\ ts[1] = f.start /\ ts[m] = f.last
      /\ \A i \in 1..(m - 1) : ts[i] <= ts[i + 1]
  BY DEF FlowIs, Flow
<1>2. m \in Nat \ {0} /\ \A i \in 1..m : ts[i] \in Nat
  BY <1>1, LenProperties, ElementOfSeq
<1>3. iats = [i \in 1..(m - 1) |-> ts[i + 1] - ts[i]]
  BY DEF Interarrivals
<1> HIDE DEF iats
<1>4. Total(iats) = f.last - f.start
  BY <1>1, <1>3, GapsAddUp
<1> HIDE DEF ts, m
<1>5. f.fwd + f.bwd # 0
  <2>1. PICK i \in Between(seq, key, n) : TRUE
    BY DEF FlowIs
  <2>2. Cardinality(Between(seq, key, n)) # 0
    BY <2>1, BetweenIsFinite, FS_EmptySet
  <2> QED BY <2>2 DEF FlowIs
<1>6. \A i, j \in 1..m : i <= j => ts[i] <= ts[j]
  <2> SUFFICES ASSUME NEW i \in 1..m
               PROVE  \A j \in 1..m : i <= j => ts[i] <= ts[j]
    OBVIOUS
  <2> DEFINE S == {j \in 0..m : i <= j => ts[i] <= ts[j]}
  <2>1. 0 \in S
    BY <1>2
  <2>2. ASSUME NEW j \in 1..m, j - 1 \in S
        PROVE  j \in S
    <3>1. CASE i <= j - 1
      <4>1. j - 1 \in 1..(m - 1) /\ (j - 1) + 1 = j
        BY <1>2, <3>1
      <4>2. ts[j - 1] <= ts[j] /\ ts[i] <= ts[j - 1]
        BY <1>1, <2>2, <3>1, <4>1
      <4>3. ts[i] \in Nat /\ ts[j - 1] \in Nat /\ ts[j] \in Nat
        BY <1>2, <4>1
      <4> QED BY <4>2, <4>3
    <3>2. CASE ~(i <= j - 1)
      <4>1. i <= j => i = j
        BY <1>2, <3>2
      <4> QED BY <1>2, <4>1
    <3> QED BY <3>1, <3>2
  <2> HIDE DEF S
  <2>3. \A j \in 0..m : j \in S
    BY <1>2, <2>1, <2>2, UpToInduction
  <2> QED BY <1>2, <2>3 DEF S
<1>7. f.start <= f.last /\ \A i \in 1..(m - 1) : iats[i] \in Int /\ iats[i] <= f.last - f.start
  <2>1. 1 \in 1..m /\ m \in 1..m
    BY <1>2
  <2>2. ts[1] <= ts[m]
    BY <1>6, <1>2, <2>1
  <2>3. ASSUME NEW i \in 1..(m - 1)
        PROVE  iats[i] \in Int /\ iats[i] <= f.last - f.start
    <3>1. i \in 1..m /\ i + 1 \in 1..m /\ 1 <= i /\ i + 1 <= m
      BY <1>2
    <3>2. ts[1] <= ts[i] /\ ts[i + 1] <= ts[m]
      BY <1>6, <2>1, <3>1
    <3>3. iats[i] = ts[i + 1] - ts[i] /\ ts[i] \in Nat /\ ts[i + 1] \in Nat
      BY <1>2, <1>3, <3>1
    <3>4. \A a, b, c, d \in Nat : a <= b /\ c <= d => c - b \in Int /\ c - b <= d - a
      OBVIOUS
    <3>5. f.start <= ts[i] /\ ts[i + 1] <= f.last
      BY <1>1, <3>2
    <3>6. ts[i + 1] - ts[i] \in Int /\ ts[i + 1] - ts[i] <= f.last - f.start
      BY <1>1, <3>3, <3>4, <3>5
    <3> QED BY <3>3, <3>6
  <2> QED BY <1>1, <2>2, <2>3
<1>8. x.duration = f.last - f.start
  <2>1. Max({0, f.last - f.start}) = f.last - f.start
    BY <1>1, <1>7, MaxOfTwo
  <2> QED BY <2>1 DEF FlowFeatures
<1>9. x.iatMax <= f.last - f.start
  <2>1. x.iatMax = IF iats = <<>> THEN 0 ELSE Max(ToSet(iats))
    BY DEF FlowFeatures, iats
  <2>2. CASE iats = <<>>
    BY <1>1, <1>7, <2>1, <2>2
  <2>3. CASE iats # <<>>
    <3>1. DOMAIN iats = 1..(m - 1) /\ m - 1 \in Nat
      BY <1>2, <1>3
    <3>2. m - 1 # 0
      <4> SUFFICES ASSUME m - 1 = 0
                   PROVE  FALSE
        OBVIOUS
      <4>1. DOMAIN iats = {}
        BY <3>1
      <4>2. iats = <<>>
        BY <1>3, <4>1
      <4> QED BY <2>3, <4>2
    <3>3. ToSet(iats) = {iats[i] : i \in 1..(m - 1)}
      BY <3>1 DEF ToSet
    <3>4. /\ ToSet(iats) \in SUBSET Int /\ ToSet(iats) # {} /\ IsFiniteSet(ToSet(iats))
      <4>1. IsFiniteSet(1..(m - 1))
        BY <3>1, FS_Interval
      <4>2. IsFiniteSet({iats[i] : i \in 1..(m - 1)})
        BY <3>1, <4>1, ImageIsFinite
      <4>3. 1 \in 1..(m - 1)
        <5>1. m # 1
          BY <1>2, <3>2
        <5> QED BY <1>2, <5>1
      <4>4. iats[1] \in ToSet(iats)
        BY <3>3, <4>3
      <4>5. \A y \in ToSet(iats) : y \in Int
        BY <1>7, <3>3
      <4> QED BY <3>3, <4>2, <4>4, <4>5
    <3>5. Max(ToSet(iats)) \in ToSet(iats)
      BY <3>4, ExtremesAre
    <3> QED BY <1>7, <2>1, <2>3, <3>3, <3>5
  <2> QED BY <2>2, <2>3
<1>10. x.fwd.of = f.fwd /\ x.bwd.of = f.bwd /\ x.fwd.over = f.fwd + f.bwd
  <2>1. f.fwd + f.bwd \in Int /\ 1 <= f.fwd + f.bwd
    BY <1>1, <1>5
  <2>2. Max({1, f.fwd + f.bwd}) = f.fwd + f.bwd
    BY <2>1, MaxOfTwo
  <2> QED BY <2>2 DEF FlowFeatures, Ratio
<1>11. x.iatMean.of = Total(iats)
  BY DEF FlowFeatures, Ratio, iats
<1> QED BY <1>4, <1>8, <1>9, <1>10, <1>11

(* FlowsAreConversations, of any packets and flows.                         *)
Conversations(seq, flows) ==
  LET between(key) == {i \in DOMAIN seq : {seq[i].src, seq[i].dst} = ToSet(key)} IN
  /\ \A p \in ToSet(seq) :
       Cardinality({key \in DOMAIN flows : ToSet(key) = {p.src, p.dst}}) = 1
  /\ \A key \in DOMAIN flows :
       LET f == flows[key] forward == {i \in between(key) : seq[i].src = f.initiator}
       IN  /\ between(key) # {} /\ Min(between(key)) \in forward
           /\ f.fwd = Cardinality(forward) /\ f.fwd + f.bwd = Cardinality(between(key))
           /\ \E x \in {FlowFeatures(f)} :
                /\ x.fwd.of + x.bwd.of = x.fwd.over
                /\ x.iatMean.of = x.duration /\ x.iatMax <= x.duration

(* Each conversation has one flow, and the flow stands for it.              *)
LEMMA FlowsHold ==
  ASSUME NEW seq, Timed(seq), NEW flows, flows = FlowsOf(seq)
  PROVE  Conversations(seq, flows)
<1> DEFINE n == Len(seq)
           between(key) == {i \in DOMAIN seq : {seq[i].src, seq[i].dst} = ToSet(key)}
<1>1. n \in Nat /\ DOMAIN seq = 1..n /\ \A i \in 1..n : seq[i] \in Packet
  BY TimedAre
<1>2. /\ DOMAIN flows = {FlowKey(seq[i]) : i \in 1..n}
      /\ \A key \in DOMAIN flows : FlowIs(flows[key], seq, key, n)
  BY FlowsOfAre DEF FlowsAre
<1> HIDE DEF n
<1>3. ASSUME NEW p \in ToSet(seq)
      PROVE  Cardinality({key \in DOMAIN flows : ToSet(key) = {p.src, p.dst}}) = 1
  <2>1. PICK j \in 1..n : seq[j] = p
    BY <1>1, <1>3 DEF ToSet
  <2>2. {key \in DOMAIN flows : ToSet(key) = {p.src, p.dst}} = {FlowKey(p)}
    <3>1. p \in Packet /\ FlowKey(p) \in DOMAIN flows /\ ToSet(FlowKey(p)) = {p.src, p.dst}
      BY <1>1, <1>2, <2>1, KeysAre
    <3>2. ASSUME NEW key \in DOMAIN flows, ToSet(key) = {p.src, p.dst}
          PROVE  key = FlowKey(p)
      <4>1. PICK i \in 1..n : key = FlowKey(seq[i])
        BY <1>2
      <4>2. seq[i] \in Packet
        BY <1>1
      <4> QED BY <3>1, <3>2, <4>1, <4>2, KeysAre
    <3> QED BY <3>1, <3>2
  <2> QED BY <2>2, FS_Singleton
<1>4. ASSUME NEW key \in DOMAIN flows
      PROVE  LET f == flows[key] forward == {i \in between(key) : seq[i].src = f.initiator}
             IN  /\ between(key) # {} /\ Min(between(key)) \in forward
                 /\ f.fwd = Cardinality(forward) /\ f.fwd + f.bwd = Cardinality(between(key))
                 /\ \E x \in {FlowFeatures(f)} :
                      /\ x.fwd.of + x.bwd.of = x.fwd.over
                      /\ x.iatMean.of = x.duration /\ x.iatMax <= x.duration
  <2> DEFINE f == flows[key]
             forward == {i \in between(key) : seq[i].src = f.initiator}
  <2>1. FlowIs(f, seq, key, n)
    BY <1>2
  <2> HIDE DEF f
  <2>2. between(key) = Between(seq, key, n)
    <3>1. PICK j \in 1..n : key = FlowKey(seq[j])
      BY <1>2
    <3>2. \A i \in 1..n : {seq[i].src, seq[i].dst} = ToSet(key) <=> FlowKey(seq[i]) = key
      BY <1>1, <3>1, KeysAre
    <3> QED BY <1>1, <3>2 DEF Between
  <2> HIDE DEF between
  <2>3. forward = Forward(seq, key, n, f.initiator)
    BY <2>2 DEF Forward
  <2>4. PICK i \in Between(seq, key, n) :
          /\ \A j \in Between(seq, key, n) : i <= j
          /\ seq[i].src = f.initiator
    BY <2>1 DEF FlowIs
  <2>5. Between(seq, key, n) # {} /\ Between(seq, key, n) \in SUBSET Int
    BY <1>1, <2>4 DEF Between
  <2>6. Min(Between(seq, key, n)) = i
    <3> DEFINE B == Between(seq, key, n)
    <3>1. IsFiniteSet(B)
      BY <1>1, BetweenIsFinite
    <3> HIDE DEF B
    <3>2. Min(B) \in B /\ \A y \in B : Min(B) <= y
      BY <2>5, <3>1, ExtremesAre DEF B
    <3>3. i \in B /\ i <= Min(B) /\ Min(B) <= i /\ i \in Int /\ Min(B) \in Int
      BY <2>4, <2>5, <3>2 DEF B
    <3> QED BY <3>3 DEF B
  <2>7. i \in Forward(seq, key, n, f.initiator)
    BY <2>4 DEF Forward
  <2>8. \A x : x = FlowFeatures(f) =>
          /\ x.fwd.of + x.bwd.of = x.fwd.over
          /\ x.iatMean.of = x.duration /\ x.iatMax <= x.duration
    BY <1>1, <2>1, FeaturesAgree
  <2>9. f.fwd = Cardinality(Forward(seq, key, n, f.initiator)) /\ f.fwd + f.bwd = Cardinality(Between(seq, key, n))
    BY <2>1 DEF FlowIs
  <2>10. /\ between(key) # {} /\ Min(between(key)) \in forward
         /\ f.fwd = Cardinality(forward) /\ f.fwd + f.bwd = Cardinality(between(key))
    BY <2>2, <2>3, <2>5, <2>6, <2>7, <2>9
  <2>11. \E x \in {FlowFeatures(f)} :
           /\ x.fwd.of + x.bwd.of = x.fwd.over
           /\ x.iatMean.of = x.duration /\ x.iatMax <= x.duration
    BY <2>8
  <2> QED BY <2>10, <2>11 DEF f
<1> QED BY <1>3, <1>4 DEF Conversations

(* Whatever was collected, the bins of time and the flows of the manifest   *)
(* account for every packet of it: nothing is lost, doubled or put where it *)
(* does not belong.                                                         *)
THEOREM PacketsAreAccountedForAlways == CaptureSpec => []PacketsAreAccountedFor
<1>1. CaptureInv /\ TimeInv => PacketsAreAccountedFor
  <2> SUFFICES ASSUME CaptureInv, TimeInv
               PROVE  PacketsAreAccountedFor
    OBVIOUS
  <2>1. Timed(collected)
    <3>1. collected \in Seq(Packet)
      BY DEF CaptureInv, CaptureTypeOK
    <3>2. \A i, j \in DOMAIN collected : collected[i].id = collected[j].id => i = j
      BY DEF CaptureInv, CollectedIsPast
    <3>3. \A i, j \in DOMAIN collected : i < j => collected[i].at <= collected[j].at
      BY DEF TimeInv, CollectedInOrder
    <3> QED BY <3>1, <3>2, <3>3 DEF Timed
  <2>2. BinsPartition
    BY <2>1, BinsHold DEF BinsPartition
  <2>3. FlowsAreConversations
    <3> SUFFICES ASSUME manifest # None
                 PROVE  FlowsAreConversations
      BY DEF FlowsAreConversations
    <3>1. manifest.flows = FlowsOf(collected)
      BY DEF TimeInv, ManifestKeepsFlows
    <3>2. Conversations(collected, manifest.flows)
      BY <2>1, <3>1, FlowsHold
    <3> QED BY <3>2, Zenon DEF Conversations, FlowsAreConversations
  <2> QED BY <2>2, <2>3 DEF PacketsAreAccountedFor
<1> QED BY <1>1, TimeInvHolds, PTL

-----------------------------------------------------------------------------
(* What reading keeps.                                                      *)

IngestTypeOK ==
  /\ progress \in {"reading", "refused", "built"}
  /\ rowsRead \in Nat /\ removed \in [Reason -> Nat]
  /\ retained \in SUBSET Row /\ IsFiniteSet(retained)

(* Every row read is retained or removed.                                   *)
RowsAreAccountedFor ==
  rowsRead = Cardinality(retained)
               + removed["header"] + removed["timestamp"] + removed["duplicate"]

(* The states are built of what was retained.                               *)
StatesAreBuilt ==
  progress = "built" =>
    networkStates = IF retained = {} THEN <<>> ELSE StatesOf(retained)

(* The invariant of the ingestion.                                          *)
IngestInv == IngestTypeOK /\ RowsAreAccountedFor /\ StatesAreBuilt

(* A row removed is counted once.                                           *)
LEMMA RemovingCounts ==
  ASSUME IngestInv, NEW reason \in Reason, RemoveRow(reason)
  PROVE  IngestInv'
<1>1. /\ removed' \in [Reason -> Nat] /\ rowsRead' \in Nat
      /\ progress' = progress /\ retained' = retained /\ networkStates' = networkStates
  BY DEF IngestInv, IngestTypeOK, RemoveRow
<1>2. removed'[reason] = removed[reason] + 1 /\ \A r \in Reason \ {reason} : removed'[r] = removed[r]
  BY DEF IngestInv, IngestTypeOK, RemoveRow
<1>3. Cardinality(retained) \in Nat /\ \A r \in Reason : removed[r] \in Nat
  BY FS_CardinalityType DEF IngestInv, IngestTypeOK
<1>4. removed'["header"] + removed'["timestamp"] + removed'["duplicate"]
        = removed["header"] + removed["timestamp"] + removed["duplicate"] + 1
  BY <1>2, <1>3 DEF Reason
<1>5. RowsAreAccountedFor'
  BY <1>1, <1>2, <1>3, <1>4 DEF IngestInv, RowsAreAccountedFor, RemoveRow, Reason
<1> QED BY <1>1, <1>5 DEF IngestInv, IngestTypeOK, StatesAreBuilt

(* Every step of the reading keeps it.                                      *)
LEMMA IngestStep ==
  ASSUME IngestInv, [Next]_ingestVars
  PROVE  IngestInv'
<1>1. CASE UNCHANGED ingestVars
  BY <1>1 DEF ingestVars, IngestInv, IngestTypeOK, RowsAreAccountedFor, StatesAreBuilt
<1>2. CASE ReadHeader
  BY <1>2, RemovingCounts DEF ReadHeader, Reason
<1>3. CASE ReadBadTimestamp
  BY <1>3, RemovingCounts DEF ReadBadTimestamp, Reason
<1>4. CASE ReadDuplicate
  BY <1>4, RemovingCounts DEF ReadDuplicate, Reason
<1>5. ASSUME NEW row \in Row, ReadFlow(row)
      PROVE  IngestInv'
  <2>1. IsFiniteSet(retained') /\ Cardinality(retained') = Cardinality(retained) + 1
    BY <1>5, FS_AddElement DEF IngestInv, IngestTypeOK, ReadFlow
  <2>2. Cardinality(retained) \in Nat /\ \A r \in Reason : removed[r] \in Nat
    BY FS_CardinalityType DEF IngestInv, IngestTypeOK
  <2>3. RowsAreAccountedFor'
    BY <1>5, <2>1, <2>2 DEF IngestInv, RowsAreAccountedFor, ReadFlow, Reason
  <2> QED BY <1>5, <2>1, <2>3 DEF IngestInv, IngestTypeOK, StatesAreBuilt, ReadFlow
<1>6. CASE Refuse
  BY <1>6 DEF Refuse, IngestInv, IngestTypeOK, RowsAreAccountedFor, StatesAreBuilt
<1>7. CASE BuildStates
  BY <1>7 DEF BuildStates, IngestInv, IngestTypeOK, RowsAreAccountedFor, StatesAreBuilt
<1> QED BY <1>1, <1>2, <1>3, <1>4, <1>5, <1>6, <1>7 DEF Next

(* Whatever rows are read, these hold of what was read.                     *)
THEOREM IngestInvariant == Spec => []IngestInv
<1>1. Init => IngestInv
  BY FS_EmptySet DEF Init, IngestInv, IngestTypeOK, RowsAreAccountedFor, StatesAreBuilt, Reason
<1>2. IngestInv /\ [Next]_ingestVars => IngestInv'
  BY IngestStep
<1> QED BY <1>1, <1>2, PTL DEF Spec

-----------------------------------------------------------------------------
(* The states, window by window.                                            *)

(* The start of the k-th window, the first being the p-th since time zero.  *)
At(p, k) == (p + k - 1) * WindowSize

(* Which of the windows hold no flow.                                       *)
EmptyIn(p, n) == [k \in 1..n |-> Observed(At(p, k)) = {}]

(* The states are n windows that lie end to end from the first flow to the  *)
(* last, each told by the flows in it.                                      *)
TiledBy(p, n) ==
  /\ p \in Int /\ n \in Nat
  /\ DOMAIN networkStates = 1..n /\ Len(networkStates) = n
  /\ \E S : networkStates \in Seq(S)
  /\ \A k \in 1..n :
       /\ networkStates[k].from = At(p, k) /\ networkStates[k].until = At(p, k + 1)
       /\ networkStates[k].isEmpty <=> Observed(At(p, k)) = {}
       /\ networkStates[k].flowCount = Cardinality(Observed(At(p, k)))
       /\ networkStates[k].features = AvailableFeatures(Observed(At(p, k)))
       /\ networkStates[k].session = Sessions(EmptyIn(p, n))[k]
       /\ networkStates[k].gapBefore <=> k > 1 /\ networkStates[k - 1].isEmpty
  /\ \A f \in retained : \E k \in 1..n : f \in Observed(At(p, k))
  /\ n = 0 \/ (Observed(At(p, 1)) # {} /\ Observed(At(p, n)) # {})

(* A flow's bucket starts at a multiple of the window, at most a window     *)
(* before the flow.                                                         *)
LEMMA FloorIs ==
  ASSUME NEW t \in Nat
  PROVE  \E q \in Nat : Floor(t) = q * WindowSize /\ q * WindowSize <= t /\ t < q * WindowSize + WindowSize
<1>1. WindowSize \in Nat \ {0} /\ t \in Int
  BY TrainingAssumption
<1>2. /\ t \div WindowSize \in Nat /\ (t \div WindowSize) * WindowSize <= t
      /\ t < (t \div WindowSize) * WindowSize + WindowSize
  BY <1>1, DivIs
<1> QED BY <1>2 DEF Floor

(* A bucket starts at the one multiple of the window that a flow is within. *)
LEMMA FloorIsOnly ==
  ASSUME NEW t \in Nat, NEW q \in Int
  PROVE  Floor(t) = q * WindowSize <=> q * WindowSize <= t /\ t < q * WindowSize + WindowSize
<1>1. PICK p \in Nat : Floor(t) = p * WindowSize /\ p * WindowSize <= t /\ t < p * WindowSize + WindowSize
  BY FloorIs
<1>2. WindowSize \in Nat \ {0} /\ p \in Int
  BY TrainingAssumption
<1>3. CASE p = q
  BY <1>1, <1>3
<1>4. CASE p < q
  <2>1. p * WindowSize \in Int /\ q * WindowSize \in Int /\ p * WindowSize + WindowSize <= q * WindowSize
    BY <1>2, <1>4, MultiplesAreApart
  <2> QED BY <1>1, <1>2, <2>1
<1>5. CASE q < p
  <2>1. p * WindowSize \in Int /\ q * WindowSize \in Int /\ q * WindowSize + WindowSize <= p * WindowSize
    BY <1>2, <1>5, MultiplesAreApart
  <2> QED BY <1>1, <1>2, <2>1
<1> QED BY <1>2, <1>3, <1>4, <1>5

(* The time of a flow.                                                      *)
LEMMA RetainedAt ==
  ASSUME IngestInv, NEW f \in retained
  PROVE  f.at \in Nat
<1>1. f \in Row
  BY DEF IngestInv, IngestTypeOK
<1> QED BY <1>1, TrainingAssumption DEF Row

(* A bucket holds what is observed in its window.                           *)
LEMMA BucketIsObserved ==
  ASSUME IngestInv, NEW q \in Int
  PROVE  Bucket(retained, q * WindowSize) = Observed(q * WindowSize)
<1>1. \A f \in retained : Floor(f.at) = q * WindowSize
                           <=> q * WindowSize <= f.at /\ f.at < q * WindowSize + WindowSize
  BY RetainedAt, FloorIsOnly
<1> QED BY <1>1 DEF Bucket, Observed

(* The windows run from the first bucket to the last.                       *)
LEMMA StartsAre ==
  ASSUME IngestInv, retained # {}
  PROVE  \E p \in Nat, n \in Nat \ {0} :
           /\ Starts(retained) = [k \in 1..n |-> At(p, k)]
           /\ \A f \in retained : \E k \in 1..n : f \in Observed(At(p, k))
           /\ Observed(At(p, 1)) # {} /\ Observed(At(p, n)) # {}
<1> DEFINE buckets == {Floor(f.at) : f \in retained}
           g == [f \in retained |-> Floor(f.at)]
<1>1. \A f \in retained : \E q \in Nat : Floor(f.at) = q * WindowSize /\ f \in Observed(q * WindowSize)
  BY RetainedAt, FloorIs DEF Observed
<1>2. WindowSize \in Nat \ {0}
  BY TrainingAssumption
<1>3. IsFiniteSet(buckets)
  <2>1. IsFiniteSet({g[f] : f \in retained})
    BY ImageIsFinite DEF IngestInv, IngestTypeOK
  <2>2. {g[f] : f \in retained} = buckets
    OBVIOUS
  <2> QED BY <2>1, <2>2
<1>4. buckets \in SUBSET Int /\ buckets # {}
  BY <1>1, <1>2
<1>5. /\ Min(buckets) \in buckets /\ \A x \in buckets : Min(buckets) <= x
      /\ Max(buckets) \in buckets /\ \A x \in buckets : x <= Max(buckets)
  BY <1>3, <1>4, ExtremesAre
<1>6. PICK p \in Nat : Min(buckets) = p * WindowSize /\ Observed(p * WindowSize) # {}
  BY <1>1, <1>5
<1>7. PICK q \in Nat : Max(buckets) = q * WindowSize /\ Observed(q * WindowSize) # {}
  BY <1>1, <1>5
<1>8. \A r \in Nat : r * WindowSize \in buckets => p <= r /\ r <= q
  <2> SUFFICES ASSUME NEW r \in Nat, r * WindowSize \in buckets
               PROVE  p <= r /\ r <= q
    OBVIOUS
  <2>1. p * WindowSize <= r * WindowSize /\ r * WindowSize <= q * WindowSize
    BY <1>5, <1>6, <1>7
  <2>2. ~(r < p)
    <3>1. r < p => r * WindowSize \in Int /\ p * WindowSize \in Int /\ r * WindowSize + WindowSize <= p * WindowSize
      BY <1>2, MultiplesAreApart
    <3> QED BY <1>2, <2>1, <3>1
  <2>3. ~(q < r)
    <3>1. q < r => q * WindowSize \in Int /\ r * WindowSize \in Int /\ q * WindowSize + WindowSize <= r * WindowSize
      BY <1>2, MultiplesAreApart
    <3> QED BY <1>2, <2>1, <3>1
  <2> QED BY <2>2, <2>3
<1> DEFINE n == q - p + 1
<1>9. n \in Nat \ {0} /\ p + 1 - 1 = p /\ p + n - 1 = q
  BY <1>5, <1>6, <1>7, <1>8
<1>10. (Max(buckets) - Min(buckets)) \div WindowSize + 1 = n
  <2>1. q * WindowSize - p * WindowSize = (q - p) * WindowSize /\ q - p \in Int
    BY <1>2
  <2>2. ((q - p) * WindowSize) \div WindowSize = q - p
    BY <1>2, <2>1, MultiplesDivide
  <2> QED BY <1>6, <1>7, <2>1, <2>2
<1>11. \A k \in Int : Min(buckets) + (k - 1) * WindowSize = At(p, k)
  BY <1>2, <1>6 DEF At
<1> HIDE DEF n
<1>12. Starts(retained) = [k \in 1..n |-> At(p, k)]
  <2>1. Starts(retained) = [k \in 1..n |-> Min(buckets) + (k - 1) * WindowSize]
    BY <1>10 DEF Starts
  <2>2. \A k \in 1..n : k \in Int
    BY <1>9
  <2> QED BY <1>11, <2>1, <2>2
<1>13. \A f \in retained : \E k \in 1..n : f \in Observed(At(p, k))
  <2> SUFFICES ASSUME NEW f \in retained
               PROVE  \E k \in 1..n : f \in Observed(At(p, k))
    OBVIOUS
  <2>1. PICK r \in Nat : Floor(f.at) = r * WindowSize /\ f \in Observed(r * WindowSize)
    BY <1>1
  <2>2. p <= r /\ r <= q
    BY <1>8, <2>1
  <2>3. r - p + 1 \in 1..n /\ p + (r - p + 1) - 1 = r
    BY <2>2 DEF n
  <2> QED BY <2>1, <2>3 DEF At
<1> QED BY <1>6, <1>7, <1>9, <1>12, <1>13 DEF At

(* What was built of the flows retained.                                    *)
LEMMA StatesAre ==
  ASSUME IngestInv, progress = "built"
  PROVE  \E p, n \in Int : TiledBy(p, n)
<1>1. CASE retained = {}
  <2>1. networkStates = <<>>
    BY <1>1 DEF IngestInv, StatesAreBuilt
  <2>2. TiledBy(0, 0)
    BY <1>1, <2>1 DEF TiledBy
  <2> QED BY <2>2
<1>2. CASE retained # {}
  <2>1. networkStates = StatesOf(retained)
    BY <1>2 DEF IngestInv, StatesAreBuilt
  <2>2. PICK p \in Nat, n \in Nat \ {0} :
           /\ Starts(retained) = [k \in 1..n |-> At(p, k)]
           /\ \A f \in retained : \E k \in 1..n : f \in Observed(At(p, k))
           /\ Observed(At(p, 1)) # {} /\ Observed(At(p, n)) # {}
    BY <1>2, StartsAre
  <2> DEFINE starts == Starts(retained)
             empty == [k \in DOMAIN starts |-> Bucket(retained, starts[k]) = {}]
  <2>3. DOMAIN starts = 1..n /\ \A k \in 1..n : starts[k] = At(p, k)
    BY <2>2
  <2>4. starts \in Seq({starts[k] : k \in 1..n}) /\ Len(starts) = n
    <3>1. starts \in [1..n -> {starts[k] : k \in 1..n}]
      BY <2>2
    <3> QED BY <2>2, <3>1, LenProperties
  <2> HIDE DEF starts
  <2>5. \A k \in 1..n : Bucket(retained, starts[k]) = Observed(At(p, k))
    <3> SUFFICES ASSUME NEW k \in 1..n
                 PROVE  Bucket(retained, starts[k]) = Observed(At(p, k))
      OBVIOUS
    <3>1. p + k - 1 \in Int
      BY <2>2
    <3> QED BY <2>3, <3>1, BucketIsObserved DEF At
  <2>6. empty = EmptyIn(p, n)
    BY <2>3, <2>5 DEF EmptyIn
  <2> DEFINE state(k) ==
        StateOf(starts[k], Bucket(retained, starts[k]), Sessions(empty)[k],
                k > 1 /\ empty[k - 1], k < Len(starts) /\ empty[k + 1])
  <2>7. networkStates = [k \in 1..n |-> state(k)]
    BY <2>1, <2>3 DEF StatesOf, starts
  <2>8. networkStates \in Seq({state(k) : k \in 1..n}) /\ Len(networkStates) = n /\ DOMAIN networkStates = 1..n
    <3>1. networkStates \in [1..n -> {state(k) : k \in 1..n}]
      <4> HIDE DEF state
      <4>1. \A k \in 1..n : state(k) \in {state(j) : j \in 1..n}
        OBVIOUS
      <4> QED BY <2>7, <4>1
    <3> DEFINE T == {state(k) : k \in 1..n}
    <3>2. networkStates \in [1..n -> T]
      BY <3>1
    <3> HIDE DEF T
    <3>3. networkStates \in Seq(T)
      BY <2>2, <3>2
    <3>4. Len(networkStates) = n /\ DOMAIN networkStates = 1..n
      BY <2>2, <3>2, <3>3, LenProperties
    <3> QED BY <3>3, <3>4 DEF T
  <2>9. \A k \in 1..n :
       /\ networkStates[k].from = At(p, k) /\ networkStates[k].until = At(p, k) + WindowSize
       /\ networkStates[k].isEmpty <=> Observed(At(p, k)) = {}
       /\ networkStates[k].flowCount = Cardinality(Observed(At(p, k)))
       /\ networkStates[k].features = AvailableFeatures(Observed(At(p, k)))
       /\ networkStates[k].session = Sessions(EmptyIn(p, n))[k]
       /\ networkStates[k].gapBefore <=> k > 1 /\ EmptyIn(p, n)[k - 1]
    <3> SUFFICES ASSUME NEW k \in 1..n
                 PROVE
       /\ networkStates[k].from = At(p, k) /\ networkStates[k].until = At(p, k) + WindowSize
       /\ networkStates[k].isEmpty <=> Observed(At(p, k)) = {}
       /\ networkStates[k].flowCount = Cardinality(Observed(At(p, k)))
       /\ networkStates[k].features = AvailableFeatures(Observed(At(p, k)))
       /\ networkStates[k].session = Sessions(EmptyIn(p, n))[k]
       /\ networkStates[k].gapBefore <=> k > 1 /\ EmptyIn(p, n)[k - 1]
      OBVIOUS
    <3> HIDE DEF empty
    <3> DEFINE before == k > 1 /\ EmptyIn(p, n)[k - 1]
               after == k < Len(starts) /\ EmptyIn(p, n)[k + 1]
    <3>1. networkStates[k] = StateOf(At(p, k), Observed(At(p, k)), Sessions(EmptyIn(p, n))[k], before, after)
      BY <2>3, <2>5, <2>6, <2>7
    <3>2. before \in BOOLEAN /\ (before <=> k > 1 /\ EmptyIn(p, n)[k - 1])
      OBVIOUS
    <3> HIDE DEF before, after
    <3>3. /\ networkStates[k].from = At(p, k) /\ networkStates[k].until = At(p, k) + WindowSize
          /\ networkStates[k].flowCount = Cardinality(Observed(At(p, k)))
          /\ networkStates[k].features = AvailableFeatures(Observed(At(p, k)))
          /\ networkStates[k].session = Sessions(EmptyIn(p, n))[k]
      BY <3>1 DEF StateOf
    <3>4. networkStates[k].isEmpty = (Observed(At(p, k)) = {})
      BY <3>1 DEF StateOf
    <3>5. networkStates[k].gapBefore = before
      BY <3>1 DEF StateOf
    <3> QED BY <3>2, <3>3, <3>4, <3>5
  <2>10. \A k \in 1..n : At(p, k) + WindowSize = At(p, k + 1)
    BY <2>2, TrainingAssumption DEF At
  <2>11. \A k \in 1..n : k > 1 => (EmptyIn(p, n)[k - 1] <=> networkStates[k - 1].isEmpty)
    <3> SUFFICES ASSUME NEW k \in 1..n, k > 1
                 PROVE  EmptyIn(p, n)[k - 1] <=> networkStates[k - 1].isEmpty
      OBVIOUS
    <3>1. k - 1 \in 1..n
      BY <2>2
    <3> QED BY <2>9, <3>1 DEF EmptyIn
  <2>12. TiledBy(p, n)
    BY <2>2, <2>8, <2>9, <2>10, <2>11 DEF TiledBy
  <2> QED BY <2>2, <2>12
<1> QED BY <1>1, <1>2

(* The windows start one after the other.                                   *)
LEMMA AtGrows ==
  ASSUME NEW p \in Int, NEW k \in Int, NEW l \in Int
  PROVE  /\ At(p, k) \in Int
         /\ k < l => At(p, k) + WindowSize <= At(p, l)
         /\ At(p, k + l) = At(p, k) + l * WindowSize
<1>1. WindowSize \in Nat \ {0} /\ p + k - 1 \in Int /\ p + l - 1 \in Int
  BY TrainingAssumption
<1>2. k < l => p + k - 1 < p + l - 1
  OBVIOUS
<1>3. k < l => (p + k - 1) * WindowSize + WindowSize <= (p + l - 1) * WindowSize
  BY <1>1, <1>2, MultiplesAreApart
<1>4. (p + (k + l) - 1) * WindowSize = (p + k - 1) * WindowSize + l * WindowSize
  BY <1>1
<1> QED BY <1>1, <1>3, <1>4 DEF At

(* The lesser of two numbers.                                               *)
LEMMA MinOfTwo ==
  ASSUME NEW a \in Int, NEW b \in Int
  PROVE  Min({a, b}) = IF a <= b THEN a ELSE b
<1>1. {a, b} \in SUBSET Int /\ {a, b} # {} /\ IsFiniteSet({a, b})
  <2>1. IsFiniteSet({a}) /\ {a, b} = {a} \union {b}
    BY FS_Singleton
  <2>2. IsFiniteSet({a} \union {b})
    BY <2>1, FS_AddElement
  <2> QED BY <2>1, <2>2
<1>2. Min({a, b}) \in {a, b} /\ \A x \in {a, b} : Min({a, b}) <= x
  BY <1>1, ExtremesAre
<1> QED BY <1>2
-----------------------------------------------------------------------------
(* Samples.                                                                 *)

(* Where a stretch may begin.                                               *)
LEMMA UsableAtIs ==
  ASSUME NEW p \in Int, NEW n \in Int, TiledBy(p, n), NEW length \in Nat \ {0}, NEW wanted
  PROVE  /\ UsableAt(networkStates, length, wanted) \in SUBSET Int
         /\ IsFiniteSet(UsableAt(networkStates, length, wanted))
         /\ \A i \in UsableAt(networkStates, length, wanted) : i \in 1..n /\ i + length - 1 \in 1..n
<1>1. UsableAt(networkStates, length, wanted) \in SUBSET (1..(n - length + 1))
  BY DEF UsableAt, TiledBy
<1>2. n \in Nat
  BY DEF TiledBy
<1>3. IsFiniteSet(1..(n - length + 1))
  BY <1>2, FS_Interval
<1>4. IsFiniteSet(UsableAt(networkStates, length, wanted))
  BY <1>1, <1>3, FS_Subset
<1>5. \A i \in 1..(n - length + 1) : i \in Int /\ i \in 1..n /\ i + length - 1 \in 1..n
  BY <1>2
<1> HIDE DEF UsableAt
<1> QED BY <1>1, <1>4, <1>5

Sample == [target : Int, first : Int]

(* A transition for each place, in the order of time.                       *)
LEMMA TransitionsAre ==
  ASSUME IngestInv, progress = "built"
  PROVE  /\ Transitions(networkStates) \in Seq(Sample)
         /\ \A i, j \in DOMAIN Transitions(networkStates) :
              i < j => Transitions(networkStates)[i].target < Transitions(networkStates)[j].target
<1>1. PICK p \in Int, n \in Int : TiledBy(p, n)
  BY StatesAre
<1> DEFINE U == UsableAt(networkStates, HistoryDepth + 1, AllFeatures)
           at == InOrder(U)
           m == Cardinality(U)
           samples == Transitions(networkStates)
<1>2. HistoryDepth \in Nat /\ HistoryDepth + 1 \in Nat \ {0} /\ WindowSize \in Nat \ {0}
  BY TrainingAssumption
<1>3. /\ U \in SUBSET Int /\ IsFiniteSet(U)
      /\ \A i \in U : i \in 1..n /\ i + HistoryDepth \in 1..n
  BY <1>1, <1>2, UsableAtIs
<1> HIDE DEF U
<1>4. /\ m \in Nat /\ at \in [1..m -> U]
      /\ \A i, j \in 1..m : i < j => at[i] < at[j]
  BY <1>3, InOrderIs
<1> HIDE DEF m, at
<1>5. samples = [j \in 1..m |-> [target |-> networkStates[at[j] + HistoryDepth].from, first |-> networkStates[at[j]].from]]
  BY <1>4 DEF Transitions, U, at
<1>6. \A j \in 1..m : /\ at[j] \in Int
                      /\ networkStates[at[j] + HistoryDepth].from = At(p, at[j] + HistoryDepth)
                      /\ networkStates[at[j]].from = At(p, at[j])
  BY <1>1, <1>3, <1>4 DEF TiledBy
<1>7. \A j \in 1..m : samples[j] = [target |-> At(p, at[j] + HistoryDepth), first |-> At(p, at[j])]
  BY <1>5, <1>6
<1>8. \A j \in 1..m : samples[j] \in Sample
  <2> SUFFICES ASSUME NEW j \in 1..m
               PROVE  samples[j] \in Sample
    OBVIOUS
  <2>1. at[j] \in Int /\ at[j] + HistoryDepth \in Int
    BY <1>2, <1>6
  <2>2. At(p, at[j]) \in Int /\ At(p, at[j] + HistoryDepth) \in Int
    BY <1>1, <2>1, AtGrows
  <2>3. [target |-> At(p, at[j] + HistoryDepth), first |-> At(p, at[j])] \in Sample
    BY <2>2 DEF Sample
  <2> HIDE DEF samples
  <2> QED BY <1>7, <2>3
<1>9. samples \in Seq(Sample) /\ DOMAIN samples = 1..m
  <2>1. DOMAIN samples = 1..m
    BY <1>5
  <2>2. samples \in [1..m -> Sample]
    <3>1. samples = [j \in 1..m |-> samples[j]]
      BY <1>5
    <3> HIDE DEF samples
    <3> QED BY <1>8, <3>1
  <2> HIDE DEF samples
  <2> QED BY <1>4, <2>1, <2>2
<1>10. \A i, j \in 1..m : i < j => samples[i].target < samples[j].target
  <2> SUFFICES ASSUME NEW i \in 1..m, NEW j \in 1..m, i < j
               PROVE  samples[i].target < samples[j].target
    OBVIOUS
  <2>1. at[i] + HistoryDepth \in Int /\ at[j] + HistoryDepth \in Int /\ at[i] + HistoryDepth < at[j] + HistoryDepth
    BY <1>2, <1>4, <1>6
  <2>2. /\ At(p, at[i] + HistoryDepth) \in Int /\ At(p, at[j] + HistoryDepth) \in Int
        /\ At(p, at[i] + HistoryDepth) + WindowSize <= At(p, at[j] + HistoryDepth)
    BY <1>1, <2>1, AtGrows
  <2>3. samples[i].target = At(p, at[i] + HistoryDepth) /\ samples[j].target = At(p, at[j] + HistoryDepth)
    <3> HIDE DEF samples
    <3>1. /\ samples[i] = [target |-> At(p, at[i] + HistoryDepth), first |-> At(p, at[i])]
          /\ samples[j] = [target |-> At(p, at[j] + HistoryDepth), first |-> At(p, at[j])]
      BY <1>7
    <3>2. samples[i].target = At(p, at[i] + HistoryDepth)
      BY <3>1
    <3>3. samples[j].target = At(p, at[j] + HistoryDepth)
      BY <3>1
    <3> QED BY <3>2, <3>3
  <2> QED BY <1>2, <2>2, <2>3
<1> QED BY <1>9, <1>10

-----------------------------------------------------------------------------
(* Labels.                                                                  *)

Rank == [BENIGN |-> 1, RECONNAISSANCE |-> 2, EXPLOITATION_INFILTRATION |-> 3,
         LATERAL_EXFILTRATION |-> 4, IMPACT_DOS |-> 5]

(* The stages of an attack are never gone through backwards.                *)
LEMMA StagesGoForward ==
  ASSUME NEW t \in Int, StageOf(t) # "BENIGN"
  PROVE  Rank[StageOf(Current(t))] <= Rank[StageOf(t)]
<1>1. /\ Block.start \in Int /\ Block.end \in Int /\ Block.recon \in Int
      /\ WindowSize \in Nat \ {0}
  BY TrainingAssumption
<1>2. /\ Rank["BENIGN"] = 1 /\ Rank["RECONNAISSANCE"] = 2 /\ Rank["EXPLOITATION_INFILTRATION"] = 3
      /\ Rank["LATERAL_EXFILTRATION"] = 4 /\ Rank["IMPACT_DOS"] = 5
  BY DEF Rank
<1>3. /\ Current(t) \in Int /\ Current(t) < t
  BY <1>1 DEF Current
<1>4. StageOf(t) \in {"RECONNAISSANCE", "EXPLOITATION_INFILTRATION", "LATERAL_EXFILTRATION", "IMPACT_DOS"}
  BY DEF StageOf
<1>5. CASE ~InBlock(Current(t))
  <2>1. StageOf(Current(t)) = "BENIGN"
    BY <1>5 DEF StageOf
  <2> QED BY <1>2, <1>4, <2>1
<1>6. CASE InBlock(Current(t))
  <2>1. StageOf(t) = "RECONNAISSANCE" => StageOf(Current(t)) = "RECONNAISSANCE"
    BY <1>1, <1>3, <1>6 DEF StageOf, InBlock
  <2>2. StageOf(t) = "EXPLOITATION_INFILTRATION" => StageOf(Current(t)) \in {"RECONNAISSANCE", "EXPLOITATION_INFILTRATION"}
    BY <1>1, <1>3, <1>6 DEF StageOf, InBlock
  <2>3. StageOf(t) = "LATERAL_EXFILTRATION"
          => StageOf(Current(t)) \in {"RECONNAISSANCE", "EXPLOITATION_INFILTRATION", "LATERAL_EXFILTRATION"}
    BY <1>1, <1>3, <1>6 DEF StageOf, InBlock
  <2>4. StageOf(t) = "IMPACT_DOS" => StageOf(Current(t)) \in {"RECONNAISSANCE", "IMPACT_DOS"}
    BY <1>1, <1>3, <1>6 DEF StageOf, InBlock
  <2> QED BY <1>2, <1>4, <2>1, <2>2, <2>3, <2>4
<1> QED BY <1>5, <1>6

(* The state a transition ends in is the state the next one starts from.    *)
LEMMA StagesMeet ==
  ASSUME NEW t \in Int
  PROVE  StageOf(Current(t + WindowSize)) = StageOf(t)
<1>1. Current(t + WindowSize) = t
  BY TrainingAssumption DEF Current
<1> QED BY <1>1

(* An onset is counted down to, and the horizons only widen.                *)
LEMMA OnsetsAreAhead ==
  ASSUME NEW seq \in Seq(Sample), NEW i \in DOMAIN seq
  PROVE  /\ (TransitionType(seq[i].target) = "ATTACK_ONSET") <=> StepsToOnset(seq, i) = 1
         /\ LooksAhead(seq, i, 1) => LooksAhead(seq, i, 2)
         /\ LooksAhead(seq, i, 2) => LooksAhead(seq, i, 3)
         /\ \A h \in 1..3 : StepsToOnset(seq, i) = h => LooksAhead(seq, i, h)
<1> DEFINE n == Len(seq)
           onset(k) == TransitionType(seq[k].target) = "ATTACK_ONSET"
           end == Min({n, i + 29})
           onsets == {k \in i..end : onset(k)}
           reach(h) == Min({n, i + h - 1})
<1>1. n \in Nat /\ i \in 1..n
  BY LenProperties
<1>2. end \in Int /\ i <= end /\ end <= n
  BY <1>1, MinOfTwo
<1>3. \A h \in 1..3 : reach(h) = IF n <= i + h - 1 THEN n ELSE i + h - 1
  BY <1>1, MinOfTwo
<1>4. \A h \in 1..3 : LooksAhead(seq, i, h) <=> \E k \in i..reach(h) : InBlock(seq[k].target)
  BY DEF LooksAhead
<1> HIDE DEF n
<1>5. /\ LooksAhead(seq, i, 1) => LooksAhead(seq, i, 2)
      /\ LooksAhead(seq, i, 2) => LooksAhead(seq, i, 3)
  <2>1. i..reach(1) \subseteq i..reach(2) /\ i..reach(2) \subseteq i..reach(3)
    <3> HIDE DEF reach
    <3>1. /\ reach(1) = IF n <= i + 1 - 1 THEN n ELSE i + 1 - 1
          /\ reach(2) = IF n <= i + 2 - 1 THEN n ELSE i + 2 - 1
          /\ reach(3) = IF n <= i + 3 - 1 THEN n ELSE i + 3 - 1
      BY <1>3
    <3> QED BY <1>1, <3>1
  <2> HIDE DEF reach
  <2> QED BY <1>4, <2>1
<1>6. \A k : onset(k) => InBlock(seq[k].target)
  BY DEF TransitionType
<1>7. StepsToOnset(seq, i) = IF onsets = {} THEN -1 ELSE Min(onsets) - i + 1
  BY DEF StepsToOnset, n
<1>8. onsets # {} => /\ Min(onsets) \in i..end /\ onset(Min(onsets))
                    /\ \A x \in onsets : Min(onsets) <= x
  <2>1. onsets \in SUBSET Int
    BY <1>1, <1>2
  <2>2. IsFiniteSet(i..end) /\ onsets \in SUBSET (i..end)
    BY <1>1, <1>2, FS_Interval
  <2>3. IsFiniteSet(onsets)
    BY <2>2, FS_Subset
  <2>4. onsets # {} => Min(onsets) \in onsets /\ \A x \in onsets : Min(onsets) <= x
    <3> HIDE DEF onsets
    <3> QED BY <2>1, <2>3, ExtremesAre
  <2> QED BY <2>4
<1>9. onset(i) <=> StepsToOnset(seq, i) = 1
  <2>1. onset(i) => i \in onsets
    BY <1>1, <1>2
  <2> HIDE DEF onset, end
  <2>2. onset(i) => Min(onsets) = i
    BY <1>1, <1>2, <1>8, <2>1
  <2>3. StepsToOnset(seq, i) = 1 => onsets # {} /\ Min(onsets) = i
    BY <1>1, <1>2, <1>7, <1>8
  <2> QED BY <1>1, <1>7, <1>8, <2>1, <2>2, <2>3
<1>10. \A h \in 1..3 : StepsToOnset(seq, i) = h => LooksAhead(seq, i, h)
  <2> SUFFICES ASSUME NEW h \in 1..3, StepsToOnset(seq, i) = h
               PROVE  LooksAhead(seq, i, h)
    OBVIOUS
  <2> DEFINE k == Min(onsets)
  <2> HIDE DEF end, onset
  <2>1. onsets # {} /\ k \in i..end /\ onset(k) /\ k - i + 1 = h
    BY <1>7, <1>8
  <2> HIDE DEF k, reach
  <2>2. k \in i..reach(h)
    <3>1. k \in Int /\ i <= k /\ k <= n /\ k = i + h - 1
      BY <1>1, <1>2, <2>1
    <3>2. reach(h) = IF n <= i + h - 1 THEN n ELSE i + h - 1
      BY <1>3
    <3> QED BY <1>1, <3>1, <3>2
  <2> QED BY <1>4, <1>6, <2>1, <2>2
<1> QED BY <1>5, <1>9, <1>10

(* The labels of the transitions tell one story.                            *)
THEOREM LabelsTellOneStoryAlways == Spec => []LabelsTellOneStory
<1>1. IngestInv => LabelsTellOneStory
  <2> SUFFICES ASSUME IngestInv, progress = "built"
               PROVE  LabelsTellOneStory
    BY DEF LabelsTellOneStory
  <2> DEFINE samples == Transitions(networkStates)
             labels == Labels(samples)
  <2>1. samples \in Seq(Sample)
    BY TransitionsAre
  <2> HIDE DEF samples
  <2>2. \A i \in DOMAIN samples : samples[i] \in Sample /\ samples[i].target \in Int
    <3>1. \A i \in DOMAIN samples : samples[i] \in Sample
      BY <2>1, ElementOfSeq, LenProperties
    <3> QED BY <3>1 DEF Sample
  <2>3. \A i \in DOMAIN samples :
          /\ labels[i].type = TransitionType(samples[i].target)
          /\ labels[i].stage = StageOf(Current(samples[i].target))
          /\ labels[i].nextStage = StageOf(samples[i].target)
          /\ labels[i].stepsToOnset = StepsToOnset(samples, i)
    BY DEF Labels
  <2>4. \A i \in DOMAIN samples : \A h \in 1..3 : labels[i].ahead[h] <=> LooksAhead(samples, i, h)
    BY DEF Labels
  <2> HIDE DEF labels
  <2> SUFFICES ASSUME NEW i \in DOMAIN samples
               PROVE  /\ (labels[i].type = "ATTACK_ONSET") <=> labels[i].stepsToOnset = 1
                      /\ (labels[i].ahead[1] => labels[i].ahead[2]) /\ (labels[i].ahead[2] => labels[i].ahead[3])
                      /\ (labels[i].stepsToOnset \in 1..3) => labels[i].ahead[labels[i].stepsToOnset]
                      /\ labels[i].nextStage # "BENIGN" => Rank[labels[i].stage] <= Rank[labels[i].nextStage]
                      /\ \A j \in DOMAIN samples :
                           samples[j].target = samples[i].target + WindowSize =>
                             labels[i].nextStage = labels[j].stage
    BY DEF LabelsTellOneStory, Rank, samples, labels
  <2>5. /\ (labels[i].type = "ATTACK_ONSET") <=> labels[i].stepsToOnset = 1
        /\ (labels[i].ahead[1] => labels[i].ahead[2]) /\ (labels[i].ahead[2] => labels[i].ahead[3])
        /\ (labels[i].stepsToOnset \in 1..3) => labels[i].ahead[labels[i].stepsToOnset]
    BY <2>1, <2>3, <2>4, OnsetsAreAhead
  <2>6. labels[i].nextStage # "BENIGN" => Rank[labels[i].stage] <= Rank[labels[i].nextStage]
    BY <2>2, <2>3, StagesGoForward
  <2>7. ASSUME NEW j \in DOMAIN samples, samples[j].target = samples[i].target + WindowSize
        PROVE  labels[i].nextStage = labels[j].stage
    BY <2>2, <2>3, <2>7, StagesMeet
  <2> QED BY <2>5, <2>6, <2>7
<1> QED BY <1>1, IngestInvariant, PTL

-----------------------------------------------------------------------------
(* Splits.                                                                  *)

(* The shares of a list fit into it.                                        *)
LEMMA SharesFit ==
  ASSUME NEW n \in Nat
  PROVE  /\ Rounded(n, 60) \in Nat /\ Rounded(n, 15) \in Nat /\ Rounded(n, 60) + Rounded(n, 15) <= n
         /\ Rounded(n, 80) \in 0..n
<1>1. \A share \in {15, 60, 80} :
        /\ Rounded(n, share) \in Nat /\ 100 * Rounded(n, share) <= n * share + 50
        /\ n = 0 => Rounded(n, share) = 0
  BY DEF Rounded
<1>2. /\ 100 * Rounded(n, 60) <= n * 60 + 50 /\ 100 * Rounded(n, 15) <= n * 15 + 50
      /\ 100 * Rounded(n, 80) <= n * 80 + 50
      /\ Rounded(n, 60) \in Nat /\ Rounded(n, 15) \in Nat /\ Rounded(n, 80) \in Nat
  BY <1>1
<1>3. n = 0 => Rounded(n, 60) = 0 /\ Rounded(n, 15) = 0 /\ Rounded(n, 80) = 0
  BY <1>1
<1> QED BY <1>2, <1>3

(* The targets of a list of samples come in the order of time.              *)
Timely(seq) == \A i, j \in DOMAIN seq : i < j => seq[i].target < seq[j].target

(* Those of the samples at chosen places.                                   *)
Picked(seq, chosen) == LET at == InOrder(chosen) IN [n \in DOMAIN at |-> seq[at[n]]]

(* They keep the order of time, and none is lost.                           *)
LEMMA PickedAre ==
  ASSUME NEW seq \in Seq(Sample), Timely(seq), NEW chosen \in SUBSET DOMAIN seq
  PROVE  /\ Picked(seq, chosen) \in Seq(Sample) /\ Timely(Picked(seq, chosen))
         /\ Len(Picked(seq, chosen)) = Cardinality(chosen)
         /\ ToSet(Picked(seq, chosen)) = {seq[n] : n \in chosen}
         /\ IsFiniteSet(chosen)
<1> DEFINE at == InOrder(chosen)
           m == Cardinality(chosen)
           P == Picked(seq, chosen)
<1>1. DOMAIN seq = 1..Len(seq) /\ Len(seq) \in Nat /\ \A n \in DOMAIN seq : seq[n] \in Sample
  BY LenProperties, ElementOfSeq
<1>2. chosen \in SUBSET Int /\ IsFiniteSet(chosen)
  <2>1. IsFiniteSet(1..Len(seq)) /\ chosen \in SUBSET (1..Len(seq))
    BY <1>1, FS_Interval
  <2> QED BY <1>1, <2>1, FS_Subset
<1>3. /\ m \in Nat /\ at \in [1..m -> chosen]
      /\ \A i, j \in 1..m : i < j => at[i] < at[j]
      /\ \A k \in chosen : \E i \in 1..m : at[i] = k
  BY <1>2, InOrderIs
<1> HIDE DEF m, at
<1>4. P = [n \in 1..m |-> seq[at[n]]]
  BY <1>3 DEF Picked, at
<1> HIDE DEF P
<1>5. P \in Seq(Sample) /\ Len(P) = m /\ DOMAIN P = 1..m
  <2>1. \A n \in 1..m : seq[at[n]] \in Sample
    BY <1>1, <1>3
  <2>2. P \in [1..m -> Sample]
    BY <1>4, <2>1
  <2> QED BY <1>3, <2>2, LenProperties
<1>6. Timely(P)
  BY <1>3, <1>4, <1>5 DEF Timely
<1>7. ToSet(P) = {seq[n] : n \in chosen}
  BY <1>3, <1>4, <1>5 DEF ToSet
<1> QED BY <1>2, <1>5, <1>6, <1>7 DEF P, m

(* What is picked of a list and what is left of it are the list.            *)
LEMMA PickedAndOthers ==
  ASSUME NEW seq \in Seq(Sample), Timely(seq), NEW chosen \in SUBSET DOMAIN seq
  PROVE  LET others == DOMAIN seq \ chosen IN
         /\ ToSet(Picked(seq, others) \o Picked(seq, chosen)) = ToSet(seq)
         /\ Len(Picked(seq, others) \o Picked(seq, chosen)) = Len(seq)
<1> DEFINE others == DOMAIN seq \ chosen
           P == Picked(seq, others)
           Q == Picked(seq, chosen)
<1>1. others \in SUBSET DOMAIN seq
  OBVIOUS
<1>2. /\ P \in Seq(Sample) /\ Len(P) = Cardinality(others) /\ IsFiniteSet(others)
      /\ ToSet(P) = {seq[n] : n \in others}
  BY <1>1, PickedAre
<1>3. /\ Q \in Seq(Sample) /\ Len(Q) = Cardinality(chosen) /\ IsFiniteSet(chosen)
      /\ ToSet(Q) = {seq[n] : n \in chosen}
  BY PickedAre
<1>4. DOMAIN seq = 1..Len(seq) /\ Len(seq) \in Nat
  BY LenProperties
<1>5. Cardinality(others) + Cardinality(chosen) = Len(seq)
  <2>1. others \union chosen = 1..Len(seq) /\ others \intersect chosen = {}
    BY <1>4
  <2>2. Cardinality(others \union chosen)
          = Cardinality(others) + Cardinality(chosen) - Cardinality(others \intersect chosen)
    BY <1>2, <1>3, FS_Union
  <2>3. Cardinality(1..Len(seq)) = Len(seq)
    <3> DEFINE l == Len(seq)
    <3>1. l \in Nat
      BY <1>4
    <3> HIDE DEF l
    <3>2. Cardinality(1..l) = l
      BY <3>1, FS_Interval
    <3> QED BY <3>2 DEF l
  <2>4. Cardinality({}) = 0 /\ Cardinality(others) \in Nat /\ Cardinality(chosen) \in Nat
    BY <1>2, <1>3, FS_EmptySet, FS_CardinalityType
  <2> HIDE DEF others
  <2>5. Cardinality(others \union chosen) = Len(seq) /\ Cardinality(others \intersect chosen) = 0
    BY <2>1, <2>3, <2>4
  <2> QED BY <1>4, <2>2, <2>4, <2>5
<1> HIDE DEF P, Q
<1>6. ToSet(P \o Q) = ToSet(P) \union ToSet(Q)
  <2>1. Range(P \o Q) = Range(P) \union Range(Q)
    BY <1>2, <1>3, RangeConcatenation
  <2>2. \A s : ToSet(s) = Range(s)
    BY DEF ToSet, Range
  <2> QED BY <2>1, <2>2
<1>7. ToSet(P) \union ToSet(Q) = ToSet(seq)
  BY <1>2, <1>3 DEF ToSet
<1>8. Len(P \o Q) = Len(seq)
  BY <1>2, <1>3, <1>5, ConcatProperties
<1> QED BY <1>6, <1>7, <1>8 DEF P, Q

(* A list cut after some of its samples.                                    *)
LEMMA CutsAre ==
  ASSUME NEW seq \in Seq(Sample), Timely(seq), NEW k \in 0..Len(seq)
  PROVE  /\ SubSeq(seq, 1, k) \o SubSeq(seq, k + 1, Len(seq)) = seq
         /\ \A a \in ToSet(SubSeq(seq, 1, k)) : \A b \in ToSet(SubSeq(seq, k + 1, Len(seq))) :
              a.target < b.target
         /\ ToSet(SubSeq(seq, 1, k)) \union ToSet(SubSeq(seq, k + 1, Len(seq))) \subseteq ToSet(seq)
<1> DEFINE n == Len(seq)
           P == SubSeq(seq, 1, k)
           Q == SubSeq(seq, k + 1, n)
<1>1. n \in Nat /\ DOMAIN seq = 1..n /\ k \in Nat /\ k <= n /\ \A i \in 1..n : seq[i] \in Sample
  BY LenProperties, ElementOfSeq
<1>2. P \o Q = seq
  <2>1. P \o Q = SubSeq(seq, 1, n)
    <3>1. 1 \in 1..(Len(seq) + 1) /\ k \in (1 - 1)..Len(seq) /\ Len(seq) \in k..Len(seq)
      BY <1>1
    <3> QED BY <3>1, ConcatAdjacentSubSeq
  <2> QED BY <2>1, SubSeqFull
<1>3. DOMAIN P = 1..k /\ \A i \in 1..k : P[i] = seq[i]
  <2>1. /\ P \in Seq(Sample) /\ Len(P) = IF 1 <= k THEN k - 1 + 1 ELSE 0
        /\ \A i \in 1..(k - 1 + 1) : P[i] = seq[1 + i - 1]
    BY <1>1, SubSeqProperties
  <2> HIDE DEF P
  <2> QED BY <1>1, <2>1, LenProperties
<1>4. DOMAIN Q = 1..(n - k) /\ \A i \in 1..(n - k) : Q[i] = seq[k + i]
  <2>1. k + 1 \in Int /\ n \in Int /\ \A i \in (k + 1)..n : seq[i] \in Sample
    BY <1>1
  <2> HIDE DEF n
  <2>2. /\ Q \in Seq(Sample) /\ Len(Q) = IF k + 1 <= n THEN n - (k + 1) + 1 ELSE 0
        /\ \A i \in 1..(n - (k + 1) + 1) : Q[i] = seq[(k + 1) + i - 1]
    BY <2>1, SubSeqProperties
  <2> HIDE DEF Q
  <2>3. Len(Q) = n - k /\ n - (k + 1) + 1 = n - k /\ \A i \in 1..(n - k) : (k + 1) + i - 1 = k + i
    BY <1>1, <2>2
  <2> QED BY <1>1, <2>2, <2>3, LenProperties
<1> HIDE DEF P, Q
<1>5. \A i \in 1..k, j \in 1..(n - k) : P[i].target < Q[j].target
  <2> SUFFICES ASSUME NEW i \in 1..k, NEW j \in 1..(n - k)
               PROVE  P[i].target < Q[j].target
    OBVIOUS
  <2>1. i \in 1..n /\ k + j \in 1..n /\ i < k + j
    BY <1>1
  <2> QED BY <1>1, <1>3, <1>4, <2>1 DEF Timely
<1>6. ToSet(P) \union ToSet(Q) \subseteq ToSet(seq)
  <2>1. \A i \in 1..k : i \in 1..n
    BY <1>1
  <2>2. \A i \in 1..(n - k) : k + i \in 1..n
    BY <1>1
  <2> QED BY <1>1, <1>3, <1>4, <2>1, <2>2 DEF ToSet
<1>7. \A a \in ToSet(P) : \A b \in ToSet(Q) : a.target < b.target
  BY <1>3, <1>4, <1>5 DEF ToSet
<1> QED BY <1>2, <1>6, <1>7 DEF P, Q

(* What a list is split into is the list.                                   *)
LEMMA ChronologicalSplitIs ==
  ASSUME NEW seq \in Seq(Sample)
  PROVE  LET split == ChronologicalSplit(seq) IN split.train \o split.val \o split.test = seq
<1> DEFINE n == Len(seq)
           train == Rounded(n, 60)
           val == Rounded(n, 15)
<1>1. n \in Nat
  BY LenProperties
<1>2. train \in Nat /\ val \in Nat /\ train + val <= n
  BY <1>1, SharesFit
<1> DEFINE split == ChronologicalSplit(seq)
<1>3. split = [train |-> SubSeq(seq, 1, train),
               val |-> SubSeq(seq, train + 1, train + val),
               test |-> SubSeq(seq, train + val + 1, n)]
  BY DEF ChronologicalSplit
<1> HIDE DEF train, val
<1>4. SubSeq(seq, 1, train) \o SubSeq(seq, train + 1, train + val) = SubSeq(seq, 1, train + val)
  <2>1. 1 \in 1..(Len(seq) + 1) /\ train \in (1 - 1)..Len(seq) /\ train + val \in train..Len(seq)
    BY <1>1, <1>2
  <2> QED BY <2>1, ConcatAdjacentSubSeq
<1>5. SubSeq(seq, 1, train + val) \o SubSeq(seq, train + val + 1, n) = SubSeq(seq, 1, n)
  <2>1. 1 \in 1..(Len(seq) + 1) /\ train + val \in (1 - 1)..Len(seq) /\ Len(seq) \in (train + val)..Len(seq)
    BY <1>1, <1>2
  <2> QED BY <2>1, ConcatAdjacentSubSeq
<1>6. SubSeq(seq, 1, n) = seq
  BY SubSeqFull
<1> HIDE DEF n, split
<1>7. /\ split.train = SubSeq(seq, 1, train) /\ split.val = SubSeq(seq, train + 1, train + val)
      /\ split.test = SubSeq(seq, train + val + 1, n)
  BY <1>3
<1>8. split.train \o split.val \o split.test = seq
  BY <1>4, <1>5, <1>6, <1>7
<1> QED BY <1>8 DEF split

(* Leaving a block out uses every sample once, keeps the time and keeps the *)
(* block out.                                                               *)
LEMMA LeaveBlockOutIs ==
  ASSUME NEW seq \in Seq(Sample), Timely(seq)
  PROVE  LET leave == LeaveBlockOut(seq)
             all == leave.train \o leave.val \o leave.test
         IN  /\ ToSet(all) = ToSet(seq) /\ Len(all) = Len(seq)
             /\ \A a \in ToSet(leave.train) : \A b \in ToSet(leave.val) : a.target < b.target
             /\ \A s \in ToSet(leave.train) \union ToSet(leave.val) : ~InBlock(s.target)
<1> DEFINE chosen == {n \in DOMAIN seq : InBlock(seq[n].target)}
           left == DOMAIN seq \ chosen
           others == Picked(seq, left)
           train == Rounded(Len(others), 80)
           leave == LeaveBlockOut(seq)
<1>1. chosen \in SUBSET DOMAIN seq /\ left \in SUBSET DOMAIN seq
  OBVIOUS
<1>2. {n \in DOMAIN seq : ~InBlock(seq[n].target)} = left
  OBVIOUS
<1>3. SamplesWith(seq, LAMBDA t : ~InBlock(t)) = others
  BY <1>2 DEF SamplesWith, Picked
<1>4. SamplesWith(seq, InBlock) = Picked(seq, chosen)
  BY DEF SamplesWith, Picked
<1>5. leave = [train |-> SubSeq(others, 1, train),
               val |-> SubSeq(others, train + 1, Len(others)),
               test |-> Picked(seq, chosen)]
  BY <1>3, <1>4 DEF LeaveBlockOut
<1>6. others \in Seq(Sample) /\ Timely(others) /\ ToSet(others) = {seq[n] : n \in left}
  BY <1>1, PickedAre
<1>7. \A s \in ToSet(others) : ~InBlock(s.target)
  BY <1>6
<1>8. /\ ToSet(others \o Picked(seq, chosen)) = ToSet(seq)
      /\ Len(others \o Picked(seq, chosen)) = Len(seq)
  BY <1>1, PickedAndOthers
<1> HIDE DEF chosen, left, others, leave
<1>9. train \in 0..Len(others)
  BY <1>6, SharesFit, LenProperties
<1> HIDE DEF train
<1>10. /\ SubSeq(others, 1, train) \o SubSeq(others, train + 1, Len(others)) = others
       /\ \A a \in ToSet(SubSeq(others, 1, train)) : \A b \in ToSet(SubSeq(others, train + 1, Len(others))) :
              a.target < b.target
       /\ ToSet(SubSeq(others, 1, train)) \union ToSet(SubSeq(others, train + 1, Len(others))) \subseteq ToSet(others)
  BY <1>6, <1>9, CutsAre
<1>11. /\ leave.train = SubSeq(others, 1, train) /\ leave.val = SubSeq(others, train + 1, Len(others))
       /\ leave.test = Picked(seq, chosen)
  BY <1>5
<1> QED BY <1>7, <1>8, <1>10, <1>11 DEF leave

(* Nothing is trained or tuned on a target later than it is tested on, or   *)
(* on one of the block left out, and every sample is used once.             *)
THEOREM SplitsAreHonestAlways == Spec => []SplitsAreHonest
<1>1. IngestInv => SplitsAreHonest
  <2> SUFFICES ASSUME IngestInv, progress = "built"
               PROVE  SplitsAreHonest
    BY DEF SplitsAreHonest
  <2> DEFINE samples == Transitions(networkStates)
  <2>1. samples \in Seq(Sample) /\ Timely(samples)
    BY TransitionsAre DEF Timely
  <2> HIDE DEF samples
  <2>2. LET split == ChronologicalSplit(samples) IN split.train \o split.val \o split.test = samples
    BY <2>1, ChronologicalSplitIs
  <2>3. LET leave == LeaveBlockOut(samples)
            all == leave.train \o leave.val \o leave.test
         IN  /\ ToSet(all) = ToSet(samples) /\ Len(all) = Len(samples)
             /\ \A a \in ToSet(leave.train) : \A b \in ToSet(leave.val) : a.target < b.target
             /\ \A s \in ToSet(leave.train) \union ToSet(leave.val) : ~InBlock(s.target)
    BY <2>1, LeaveBlockOutIs
  <2> QED BY <2>2, <2>3 DEF SplitsAreHonest, samples
<1> QED BY <1>1, IngestInvariant, PTL

-----------------------------------------------------------------------------
(* Rollouts.                                                                *)

(* The last lags, after one more delta.                                     *)
LEMMA LastLagsAppend ==
  ASSUME NEW seq \in Seq(Int), Len(seq) >= Len(Lags), NEW x \in Int
  PROVE  LastLags(seq \o <<x>>) = Append(Tail(LastLags(seq)), x)
<1> DEFINE n == Len(seq)
           l == Len(Lags)
           more == seq \o <<x>>
           last == LastLags(seq)
           moved == LastLags(more)
<1>1. n \in Nat /\ l \in Nat \ {0} /\ l <= n /\ DOMAIN seq = 1..n /\ \A i \in 1..n : seq[i] \in Int
  <2>1. l \in 1..(RolloutDepth - 1) /\ RolloutDepth \in Nat
    BY TrainingAssumption
  <2>2. l \in Nat \ {0}
    BY <2>1
  <2> QED BY <2>2, LenProperties, ElementOfSeq
<1>2. /\ more \in Seq(Int) /\ Len(more) = n + 1
      /\ \A i \in 1..n : more[i] = seq[i]
      /\ more[n + 1] = x
  <2>1. <<x>> \in Seq(Int) /\ Len(<<x>>) = 1 /\ <<x>>[1] = x
    OBVIOUS
  <2>2. /\ more \in Seq(Int) /\ Len(more) = n + Len(<<x>>)
        /\ \A i \in 1..(n + Len(<<x>>)) : more[i] = IF i <= n THEN seq[i] ELSE <<x>>[i - n]
    BY <2>1, ConcatProperties
  <2>3. \A i \in 1..(n + 1) : more[i] = IF i <= n THEN seq[i] ELSE <<x>>[i - n]
    BY <2>1, <2>2
  <2>4. n + 1 \in 1..(n + 1) /\ ~(n + 1 <= n) /\ (n + 1) - n = 1
    BY <1>1
  <2>5. more[n + 1] = x
    BY <2>1, <2>3, <2>4
  <2>6. \A i \in 1..n : more[i] = seq[i]
    BY <1>1, <2>3
  <2> QED BY <2>1, <2>2, <2>5, <2>6
<1> HIDE DEF more
<1>3. \A i \in 1..(n + 1) : more[i] \in Int
  BY <1>1, <1>2
<1>4. last \in Seq(Int) /\ Len(last) = l /\ \A i \in 1..l : last[i] = seq[n - l + i]
  <2>1. n - l + 1 \in Int /\ n \in Int /\ \A i \in (n - l + 1)..n : seq[i] \in Int
    BY <1>1
  <2>2. /\ SubSeq(seq, n - l + 1, n) \in Seq(Int)
        /\ Len(SubSeq(seq, n - l + 1, n)) = IF n - l + 1 <= n THEN n - (n - l + 1) + 1 ELSE 0
        /\ \A i \in 1..(n - (n - l + 1) + 1) : SubSeq(seq, n - l + 1, n)[i] = seq[(n - l + 1) + i - 1]
    <3> HIDE DEF n, l
    <3> QED BY <2>1, SubSeqProperties
  <2>3. last = SubSeq(seq, n - l + 1, n)
    BY DEF LastLags
  <2> HIDE DEF n, l, last
  <2>4. n - (n - l + 1) + 1 = l /\ n - l + 1 <= n /\ \A i \in 1..l : (n - l + 1) + i - 1 = n - l + i
    BY <1>1
  <2> QED BY <2>2, <2>3, <2>4
<1>5. moved \in Seq(Int) /\ Len(moved) = l /\ \A i \in 1..l : moved[i] = more[n + 1 - l + i]
  <2>1. n + 1 - l + 1 \in Int /\ n + 1 \in Int /\ \A i \in (n + 1 - l + 1)..(n + 1) : more[i] \in Int
    BY <1>1, <1>3
  <2>2. /\ SubSeq(more, n + 1 - l + 1, n + 1) \in Seq(Int)
        /\ Len(SubSeq(more, n + 1 - l + 1, n + 1)) = IF n + 1 - l + 1 <= n + 1 THEN (n + 1) - (n + 1 - l + 1) + 1 ELSE 0
        /\ \A i \in 1..((n + 1) - (n + 1 - l + 1) + 1) :
             SubSeq(more, n + 1 - l + 1, n + 1)[i] = more[(n + 1 - l + 1) + i - 1]
    <3> HIDE DEF n, l
    <3> QED BY <2>1, SubSeqProperties
  <2>3. moved = SubSeq(more, n + 1 - l + 1, n + 1)
    <3>1. moved = SubSeq(more, Len(more) - l + 1, Len(more))
      BY DEF LastLags
    <3> HIDE DEF n, l, moved
    <3>2. Len(more) - l + 1 = n + 1 - l + 1
      BY <1>1, <1>2
    <3> QED BY <1>2, <3>1, <3>2
  <2> HIDE DEF n, l, moved
  <2>4. /\ (n + 1) - (n + 1 - l + 1) + 1 = l /\ n + 1 - l + 1 <= n + 1
        /\ \A i \in 1..l : (n + 1 - l + 1) + i - 1 = n + 1 - l + i
    BY <1>1
  <2> QED BY <2>2, <2>3, <2>4
<1> HIDE DEF n, l, last, moved
<1> DEFINE tail == Tail(last)
           next == Append(tail, x)
<1>6. tail \in Seq(Int) /\ Len(tail) = l - 1 /\ \A i \in 1..(l - 1) : tail[i] = last[i + 1]
  <2>1. last # <<>>
    BY <1>1, <1>4
  <2> QED BY <1>4, <2>1, HeadTailProperties
<1>7. /\ next \in Seq(Int) /\ Len(next) = l
      /\ \A i \in 1..(l - 1) : next[i] = last[i + 1]
      /\ next[l] = x
  <2> HIDE DEF tail
  <2>1. /\ next \in Seq(Int) /\ Len(next) = Len(tail) + 1
        /\ \A i \in 1..Len(tail) : next[i] = tail[i] /\ next[Len(tail) + 1] = x
    BY <1>6, AppendProperties
  <2> QED BY <1>1, <1>6, <2>1, AppendProperties
<1> HIDE DEF tail, next
<1>8. \A i \in 1..l : moved[i] = next[i]
  <2> SUFFICES ASSUME NEW i \in 1..l
               PROVE  moved[i] = next[i]
    OBVIOUS
  <2>1. CASE i = l
    <3>1. n + 1 - l + i = n + 1
      BY <1>1, <2>1
    <3> QED BY <1>2, <1>5, <1>7, <2>1, <3>1
  <2>2. CASE i # l
    <3>1. i \in 1..(l - 1) /\ i + 1 \in 1..l /\ n + 1 - l + i \in 1..n /\ n - l + (i + 1) = n + 1 - l + i
      BY <1>1, <2>2
    <3> QED BY <1>2, <1>4, <1>5, <1>7, <3>1
  <2> QED BY <2>1, <2>2
<1>9. moved = next
  BY <1>1, <1>5, <1>7, <1>8, SeqEqual
<1> QED BY <1>9 DEF moved, next, tail, last, more

(* The buffers of a rollout, up to the n-th step.                           *)
IsBuffer(f, last, n) ==
  /\ DOMAIN f = 1..n
  /\ f = [h \in 1..n |-> IF h = 1 THEN last ELSE Append(Tail(f[h - 1]), Predict(f[h - 1]))]

(* The buffers of a rollout are well defined.                               *)
LEMMA BuffersExist ==
  ASSUME NEW last, NEW N \in Nat \ {0}
  PROVE  \E f : IsBuffer(f, last, N)
<1> DEFINE missing == {n \in 1..N : ~ \E f : IsBuffer(f, last, n)}
<1> SUFFICES ASSUME missing # {}
             PROVE  FALSE
  OBVIOUS
<1> DEFINE n == Min(missing)
<1>1. /\ n \in missing /\ \A k \in missing : n <= k
  <2>1. missing \in SUBSET Int /\ missing \in SUBSET (1..N) /\ IsFiniteSet(1..N)
    BY FS_Interval
  <2>2. IsFiniteSet(missing)
    BY <2>1, FS_Subset
  <2> HIDE DEF missing
  <2> QED BY <2>1, <2>2, ExtremesAre
<1> HIDE DEF n
<1>2. n \in 1..N /\ ~ \E f : IsBuffer(f, last, n)
  BY <1>1
<1>3. n # 1
  <2>1. IsBuffer([h \in 1..1 |-> last], last, 1)
    BY DEF IsBuffer
  <2> QED BY <1>2, <2>1
<1>4. n - 1 \in 1..N /\ n - 1 \notin missing
  BY <1>1, <1>2, <1>3
<1>5. PICK f : IsBuffer(f, last, n - 1)
  BY <1>4
<1> DEFINE g == [h \in 1..n |-> IF h = n THEN Append(Tail(f[n - 1]), Predict(f[n - 1])) ELSE f[h]]
<1>6. /\ DOMAIN f = 1..(n - 1)
      /\ \A h \in 1..(n - 1) : f[h] = IF h = 1 THEN last ELSE Append(Tail(f[h - 1]), Predict(f[h - 1]))
  BY <1>5 DEF IsBuffer
<1>7. \A h \in 1..(n - 1) : g[h] = f[h]
  BY <1>2, <1>3
<1>8. g[n] = Append(Tail(f[n - 1]), Predict(f[n - 1]))
  BY <1>2
<1>9. DOMAIN g = 1..n /\ g = [h \in 1..n |-> g[h]]
  OBVIOUS
<1> HIDE DEF g
<1>10. \A h \in 1..n : g[h] = IF h = 1 THEN last ELSE Append(Tail(g[h - 1]), Predict(g[h - 1]))
  <2> SUFFICES ASSUME NEW h \in 1..n
               PROVE  g[h] = IF h = 1 THEN last ELSE Append(Tail(g[h - 1]), Predict(g[h - 1]))
    OBVIOUS
  <2>1. CASE h = n
    <3>1. h # 1 /\ h - 1 = n - 1 /\ n - 1 \in 1..(n - 1)
      BY <1>2, <1>3, <2>1
    <3>2. g[n - 1] = f[n - 1]
      BY <1>7, <3>1
    <3> QED BY <1>8, <2>1, <3>1, <3>2
  <2>2. CASE h # n
    <3>1. h \in 1..(n - 1) /\ (h # 1 => h - 1 \in 1..(n - 1))
      BY <1>2, <2>2
    <3> QED BY <1>6, <1>7, <3>1
  <2> QED BY <2>1, <2>2
<1>11. IsBuffer(g, last, n)
  BY <1>9, <1>10 DEF IsBuffer
<1> QED BY <1>2, <1>11

(* What the multi-step samples hold.                                        *)
MultiStep == {s \in [target : Int, history : Seq(Int), future : Seq(Int)] :
                Len(s.history) = RolloutDepth - 1 /\ Len(s.future) = MaxHorizon}

(* As long as what was observed is what was predicted, the two rollouts     *)
(* predict the same.                                                        *)
LEMMA RolloutsAgreeOn ==
  ASSUME NEW sample \in MultiStep, NEW h \in 1..MaxHorizon,
         \A k \in 1..(h - 1) : sample.future[k] = OpenLoop(sample)[k]
  PROVE  OpenLoop(sample)[h] = RecedingHorizon(sample)[h]
<1> DEFINE last == LastLags(sample.history)
           body(f) == [k \in 1..MaxHorizon |-> IF k = 1 THEN last ELSE Append(Tail(f[k - 1]), Predict(f[k - 1]))]
           buffer == CHOOSE f : f = body(f)
           known(k) == sample.history \o SubSeq(sample.future, 1, k - 1)
           want(k) == LastLags(known(k))
           bad == {k \in 1..h : buffer[k] # want(k)}
<1>1. MaxHorizon \in Nat \ {0} /\ h \in Nat \ {0} /\ h <= MaxHorizon /\ RolloutDepth \in Nat
  BY TrainingAssumption
<1>2. /\ sample.history \in Seq(Int) /\ sample.future \in Seq(Int)
      /\ Len(sample.history) = RolloutDepth - 1 /\ Len(sample.future) = MaxHorizon
  BY DEF MultiStep
<1>3. buffer = body(buffer)
  <2>1. PICK f : IsBuffer(f, last, MaxHorizon)
    BY <1>1, BuffersExist
  <2>2. f = body(f)
    BY <2>1 DEF IsBuffer
  <2> QED BY <2>2
<1>4. \A k \in 1..MaxHorizon : buffer[k] = IF k = 1 THEN last ELSE Append(Tail(buffer[k - 1]), Predict(buffer[k - 1]))
  <2> HIDE DEF buffer, last
  <2> QED BY <1>3
<1>5. OpenLoop(sample) = [k \in 1..MaxHorizon |-> Predict(buffer[k])]
  BY DEF OpenLoop
<1>6. RecedingHorizon(sample) = [k \in 1..MaxHorizon |-> Predict(want(k))]
  BY DEF RecedingHorizon
<1> HIDE DEF buffer, last
<1>7. bad = {}
  <2> SUFFICES ASSUME bad # {}
               PROVE  FALSE
    OBVIOUS
  <2> DEFINE k == Min(bad)
  <2>1. k \in bad /\ \A j \in bad : k <= j
    <3>1. bad \in SUBSET Int /\ bad \in SUBSET (1..h) /\ IsFiniteSet(1..h)
      BY <1>1, FS_Interval
    <3>2. IsFiniteSet(bad)
      BY <3>1, FS_Subset
    <3> HIDE DEF bad
    <3> QED BY <3>1, <3>2, ExtremesAre
  <2> HIDE DEF k
  <2>2. k \in 1..h /\ k \in 1..MaxHorizon /\ buffer[k] # want(k)
    BY <1>1, <2>1
  <2>3. CASE k = 1
    <3>1. SubSeq(sample.future, 1, 1 - 1) = <<>>
      BY SubSeqEmpty
    <3>2. known(1) = sample.history
      BY <1>2, <3>1, ConcatEmptySeq
    <3> QED BY <1>4, <2>2, <2>3, <3>2 DEF last
  <2>4. CASE k # 1
    <3> DEFINE x == sample.future[k - 1]
    <3>1. k - 1 \in 1..h /\ k - 1 \notin bad /\ k - 1 \in 1..MaxHorizon /\ k - 1 \in 1..(h - 1)
      BY <1>1, <2>1, <2>2, <2>4
    <3>2. buffer[k - 1] = want(k - 1)
      BY <3>1
    <3>3. Predict(buffer[k - 1]) = x
      BY <1>5, <3>1
    <3>4. buffer[k] = Append(Tail(want(k - 1)), x)
      BY <1>4, <2>2, <2>4, <3>2, <3>3
    <3>5. x \in Int
      BY <1>2, <3>1, ElementOfSeq
    <3>6. SubSeq(sample.future, 1, k - 1) = SubSeq(sample.future, 1, (k - 1) - 1) \o <<x>>
      <4>1. 1 \in 1..Len(sample.future) /\ k - 1 \in 1..Len(sample.future)
        BY <1>1, <1>2, <3>1
      <4> QED BY <1>2, <4>1, SubSeqRecursiveSecond
    <3>7. SubSeq(sample.future, 1, (k - 1) - 1) \in Seq(Int)
      <4>1. \A j \in 1..((k - 1) - 1) : sample.future[j] \in Int
        BY <1>1, <1>2, <2>2, ElementOfSeq
      <4> QED BY <2>2, <4>1, SubSeqProperties
    <3>8. known(k) = known(k - 1) \o <<x>>
      <4> DEFINE before == SubSeq(sample.future, 1, (k - 1) - 1)
                 history == sample.history
      <4> HIDE DEF x, before, history
      <4>1. <<x>> \in Seq(Int) /\ before \in Seq(Int) /\ history \in Seq(Int)
        BY <1>2, <3>5, <3>7 DEF before, history
      <4>2. (history \o before) \o <<x>> = history \o (before \o <<x>>)
        <5> DEFINE more == <<x>>
        <5> HIDE DEF more
        <5>1. more \in Seq(Int)
          BY <4>1 DEF more
        <5>2. (history \o before) \o more = history \o (before \o more)
          BY <4>1, <5>1, ConcatAssociative
        <5> QED BY <5>2 DEF more
      <4>3. known(k) = history \o (before \o <<x>>)
        BY <3>6 DEF history, before
      <4>4. known(k - 1) = history \o before
        BY DEF history, before
      <4> HIDE DEF known
      <4> QED BY <4>2, <4>3, <4>4
    <3>9. known(k - 1) \in Seq(Int) /\ Len(known(k - 1)) >= Len(Lags)
      <4>1. /\ known(k - 1) \in Seq(Int)
            /\ Len(known(k - 1)) = Len(sample.history) + Len(SubSeq(sample.future, 1, (k - 1) - 1))
        BY <1>2, <3>7, ConcatProperties
      <4>2. Len(SubSeq(sample.future, 1, (k - 1) - 1)) \in Nat
        BY <3>7, LenProperties
      <4>3. Len(Lags) \in Int /\ Len(Lags) <= RolloutDepth - 1
        BY <1>1, TrainingAssumption
      <4> HIDE DEF known
      <4>4. Len(known(k - 1)) >= RolloutDepth - 1 /\ Len(known(k - 1)) \in Int
        <5> DEFINE b == Len(SubSeq(sample.future, 1, (k - 1) - 1))
        <5>1. b \in Nat
          BY <4>2
        <5> HIDE DEF b
        <5>2. Len(known(k - 1)) = (RolloutDepth - 1) + b
          BY <1>2, <4>1 DEF b
        <5> QED BY <1>1, <5>1, <5>2
      <4> QED BY <1>1, <4>1, <4>3, <4>4
    <3> HIDE DEF known, x
    <3>10. want(k) = Append(Tail(want(k - 1)), x)
      BY <3>5, <3>8, <3>9, LastLagsAppend
    <3> QED BY <2>2, <3>4, <3>10
  <2> QED BY <2>3, <2>4
<1>8. buffer[h] = want(h)
  BY <1>1, <1>7
<1> HIDE DEF want
<1> QED BY <1>5, <1>6, <1>8

(* The changes from each number to the next.                                *)
LEMMA DeltasAre ==
  ASSUME NEW n \in Nat \ {0}, NEW values \in [1..n -> Int]
  PROVE  Deltas(values) \in Seq(Int) /\ Len(Deltas(values)) = n - 1
<1>1. Len(values) = n
  <2>1. values \in Seq(Int) /\ DOMAIN values = 1..n
    OBVIOUS
  <2> QED BY <2>1, LenProperties
<1>2. \A k \in 1..(n - 1) : values[k + 1] - values[k] \in Int
  <2>1. \A k \in 1..(n - 1) : k \in 1..n /\ k + 1 \in 1..n
    OBVIOUS
  <2>2. \A k \in 1..n : values[k] \in Int
    OBVIOUS
  <2> QED BY <2>1, <2>2
<1>3. Deltas(values) \in [1..(n - 1) -> Int]
  BY <1>1, <1>2 DEF Deltas
<1> HIDE DEF Deltas
<1> QED BY <1>3, LenProperties

(* What the multi-step samples are.                                         *)
LEMMA MultiStepSamplesAre ==
  ASSUME IngestInv, progress = "built"
  PROVE  \A s \in ToSet(MultiStepSamples(networkStates)) : s \in MultiStep
<1>1. PICK p \in Int, n \in Int : TiledBy(p, n)
  BY StatesAre
<1> DEFINE length == RolloutDepth + MaxHorizon
           U == UsableAt(networkStates, length, AllFeatures)
           at == InOrder(U)
           m == Cardinality(U)
           samples == MultiStepSamples(networkStates)
           counts(i) == [k \in 1..length |-> networkStates[i + k - 1].flowCount]
           sample(i) == [target |-> networkStates[i + RolloutDepth].from,
                         history |-> SubSeq(Deltas(counts(i)), 1, RolloutDepth - 1),
                         future |-> SubSeq(Deltas(counts(i)), RolloutDepth, length - 1)]
<1>2. /\ RolloutDepth \in Nat /\ RolloutDepth >= 2 /\ MaxHorizon \in Nat \ {0} /\ length \in Nat \ {0}
  <2>1. Len(Lags) \in 1..(RolloutDepth - 1) /\ RolloutDepth \in Nat /\ MaxHorizon \in Nat \ {0}
    BY TrainingAssumption
  <2> QED BY <2>1
<1> HIDE DEF length
<1>3. /\ U \in SUBSET Int /\ IsFiniteSet(U)
      /\ \A i \in U : i \in 1..n /\ i + length - 1 \in 1..n
  BY <1>1, <1>2, UsableAtIs
<1> HIDE DEF U
<1>4. m \in Nat /\ at \in [1..m -> U]
  BY <1>3, InOrderIs
<1> HIDE DEF m, at
<1>5. samples = [j \in 1..m |-> sample(at[j])]
  <2>1. (RolloutDepth + MaxHorizon) - 1 = RolloutDepth + MaxHorizon - 1
    BY <1>2
  <2>2. DOMAIN at = 1..m
    BY <1>4
  <2>3. samples = [j \in 1..m |-> [sample(at[j]) EXCEPT !.future =
                     SubSeq(Deltas(counts(at[j])), RolloutDepth, RolloutDepth + MaxHorizon - 1)]]
    BY <2>2 DEF MultiStepSamples, U, at, length
  <2> QED BY <2>1, <2>3 DEF length
<1>6. \A i \in U : sample(i) \in MultiStep
  <2> SUFFICES ASSUME NEW i \in U
               PROVE  sample(i) \in MultiStep
    OBVIOUS
  <2>1. i \in Int /\ \A k \in 1..length : i + k - 1 \in 1..n
    BY <1>1, <1>2, <1>3 DEF TiledBy
  <2>2. \A k \in 1..n : networkStates[k].flowCount \in Int
    <3> SUFFICES ASSUME NEW k \in 1..n
                 PROVE  networkStates[k].flowCount \in Int
      OBVIOUS
    <3>1. networkStates[k].flowCount = Cardinality(Observed(At(p, k)))
      BY <1>1 DEF TiledBy
    <3>2. Observed(At(p, k)) \subseteq retained
      BY DEF Observed
    <3>3. Cardinality(Observed(At(p, k))) \in Nat
      BY <3>2, FS_Subset, FS_CardinalityType DEF IngestInv, IngestTypeOK
    <3> QED BY <3>1, <3>3
  <2>3. counts(i) \in [1..length -> Int]
    BY <2>1, <2>2
  <2> DEFINE deltas == Deltas(counts(i))
  <2> HIDE DEF counts
  <2>4. deltas \in Seq(Int) /\ Len(deltas) = length - 1
    BY <1>2, <2>3, DeltasAre
  <2> HIDE DEF deltas
  <2>5. \A k \in 1..(length - 1) : deltas[k] \in Int
    BY <1>2, <2>4, ElementOfSeq
  <2>6. SubSeq(deltas, 1, RolloutDepth - 1) \in Seq(Int) /\ Len(SubSeq(deltas, 1, RolloutDepth - 1)) = RolloutDepth - 1
    <3>1. RolloutDepth - 1 \in Int /\ 1 <= RolloutDepth - 1 /\ RolloutDepth - 1 <= length - 1
      BY <1>2 DEF length
    <3>2. \A k \in 1..(RolloutDepth - 1) : deltas[k] \in Int
      BY <1>2, <2>5, <3>1
    <3>3. /\ SubSeq(deltas, 1, RolloutDepth - 1) \in Seq(Int)
          /\ Len(SubSeq(deltas, 1, RolloutDepth - 1)) = IF 1 <= RolloutDepth - 1 THEN (RolloutDepth - 1) - 1 + 1 ELSE 0
      BY <3>1, <3>2, SubSeqProperties
    <3> QED BY <1>2, <3>1, <3>3
  <2>7. /\ SubSeq(deltas, RolloutDepth, length - 1) \in Seq(Int)
        /\ Len(SubSeq(deltas, RolloutDepth, length - 1)) = MaxHorizon
    <3>1. RolloutDepth \in Int /\ length - 1 \in Int /\ RolloutDepth <= length - 1
      BY <1>2 DEF length
    <3>2. \A k \in RolloutDepth..(length - 1) : deltas[k] \in Int
      BY <1>2, <2>5
    <3>3. /\ SubSeq(deltas, RolloutDepth, length - 1) \in Seq(Int)
          /\ Len(SubSeq(deltas, RolloutDepth, length - 1))
               = IF RolloutDepth <= length - 1 THEN (length - 1) - RolloutDepth + 1 ELSE 0
      BY <3>1, <3>2, SubSeqProperties
    <3> QED BY <1>2, <3>1, <3>3 DEF length
  <2>8. networkStates[i + RolloutDepth].from \in Int
    <3>1. i + RolloutDepth \in 1..n /\ i + RolloutDepth \in Int
      <4>1. RolloutDepth + 1 \in 1..length /\ i + (RolloutDepth + 1) - 1 = i + RolloutDepth
        BY <1>2, <2>1 DEF length
      <4>2. i + (RolloutDepth + 1) - 1 \in 1..n
        BY <2>1, <4>1
      <4> QED BY <1>2, <2>1, <4>1, <4>2
    <3>2. networkStates[i + RolloutDepth].from = At(p, i + RolloutDepth)
      BY <1>1, <3>1 DEF TiledBy
    <3> QED BY <1>1, <3>1, <3>2, AtGrows
  <2> DEFINE s == sample(i)
  <2>9. /\ s.target = networkStates[i + RolloutDepth].from
        /\ s.history = SubSeq(deltas, 1, RolloutDepth - 1)
        /\ s.future = SubSeq(deltas, RolloutDepth, length - 1)
        /\ s = [target |-> s.target, history |-> s.history, future |-> s.future]
    BY DEF deltas
  <2> HIDE DEF s
  <2>10. s \in [target : Int, history : Seq(Int), future : Seq(Int)]
    BY <2>6, <2>7, <2>8, <2>9
  <2>11. s \in MultiStep
    BY <2>6, <2>7, <2>9, <2>10 DEF MultiStep
  <2> QED BY <2>11 DEF s
<1>7. ASSUME NEW s \in ToSet(samples)
      PROVE  s \in MultiStep
  <2> HIDE DEF sample
  <2>1. PICK j \in 1..m : s = sample(at[j])
    BY <1>5, <1>7 DEF ToSet
  <2> QED BY <1>4, <1>6, <2>1
<1> QED BY <1>7

(* The open-loop forecast agrees with the receding one for as long as what  *)
(* was observed is what it predicted.                                       *)
THEOREM RolloutsAgreeAlways == Spec => []RolloutsAgree
<1>1. IngestInv => RolloutsAgree
  BY MultiStepSamplesAre, RolloutsAgreeOn DEF RolloutsAgree
<1> QED BY <1>1, IngestInvariant, PTL

-----------------------------------------------------------------------------
(* Sessions.                                                                *)

Numbered == [session : Nat, run : Nat]

(* One window's number.                                                     *)
LEMMA NumberWindowIs ==
  ASSUME NEW acc \in Numbered, NEW isEmpty \in BOOLEAN, NEW next, next = NumberWindow(acc, isEmpty)
  PROVE  /\ next \in Numbered
         /\ isEmpty => next.session = acc.session /\ next.run = acc.run + 1
         /\ ~isEmpty => next.run = 0
         /\ ~isEmpty /\ acc.run * WindowSize >= LongGap => next.session = acc.session + 1
         /\ ~isEmpty /\ ~(acc.run * WindowSize >= LongGap) => next.session = acc.session
<1>1. acc = [session |-> acc.session, run |-> acc.run] /\ acc.session \in Nat /\ acc.run \in Nat
  BY DEF Numbered
<1>2. CASE isEmpty
  <2>1. NumberWindow(acc, isEmpty) = [session |-> acc.session, run |-> acc.run + 1]
    BY <1>1, <1>2 DEF NumberWindow
  <2>2. acc.run + 1 \in Nat
    BY <1>1
  <2>3. next.session = acc.session /\ next.run = acc.run + 1
    BY <2>1
  <2>4. next \in Numbered
    BY <1>1, <2>1, <2>2 DEF Numbered
  <2> QED BY <1>2, <2>3, <2>4
<1>3. CASE ~isEmpty
  <2>1. CASE acc.run * WindowSize >= LongGap
    <3>1. NumberWindow(acc, isEmpty) = [session |-> acc.session + 1, run |-> 0]
      BY <1>1, <1>3, <2>1 DEF NumberWindow
    <3> QED BY <1>1, <1>3, <2>1, <3>1 DEF Numbered
  <2>2. CASE ~(acc.run * WindowSize >= LongGap)
    <3>1. NumberWindow(acc, isEmpty) = [session |-> acc.session, run |-> 0]
      BY <1>1, <1>3, <2>2 DEF NumberWindow
    <3> QED BY <1>1, <1>3, <2>2, <3>1 DEF Numbered
  <2> QED BY <2>1, <2>2
<1> QED BY <1>2, <1>3

(* The numbers of the first n windows.                                      *)
IsNumbering(u, empty, n) ==
  /\ DOMAIN u = 0..n
  /\ u = [k \in 0..n |-> IF k = 0 THEN [session |-> 1, run |-> 0] ELSE NumberWindow(u[k - 1], empty[k])]

(* A numbering of the windows exists.                                       *)
LEMMA NumberingExists ==
  ASSUME NEW empty, NEW N \in Nat
  PROVE  \E u : IsNumbering(u, empty, N)
<1> DEFINE missing == {n \in 0..N : ~ \E u : IsNumbering(u, empty, n)}
<1> SUFFICES ASSUME missing # {}
             PROVE  FALSE
  OBVIOUS
<1> DEFINE n == Min(missing)
<1>1. /\ n \in missing /\ \A k \in missing : n <= k
  <2>1. missing \in SUBSET Int /\ missing \in SUBSET (0..N) /\ IsFiniteSet(0..N)
    BY FS_Interval
  <2>2. IsFiniteSet(missing)
    BY <2>1, FS_Subset
  <2> HIDE DEF missing
  <2> QED BY <2>1, <2>2, ExtremesAre
<1> HIDE DEF n
<1>2. n \in 0..N /\ ~ \E u : IsNumbering(u, empty, n)
  BY <1>1
<1>3. n # 0
  <2>1. IsNumbering([k \in 0..0 |-> [session |-> 1, run |-> 0]], empty, 0)
    BY DEF IsNumbering
  <2> QED BY <1>2, <2>1
<1>4. n - 1 \in 0..N /\ n - 1 \notin missing
  BY <1>1, <1>2, <1>3
<1>5. PICK u : IsNumbering(u, empty, n - 1)
  BY <1>4
<1> DEFINE v == [k \in 0..n |-> IF k = n THEN NumberWindow(u[n - 1], empty[n]) ELSE u[k]]
<1>6. /\ DOMAIN u = 0..(n - 1)
      /\ \A k \in 0..(n - 1) : u[k] = IF k = 0 THEN [session |-> 1, run |-> 0] ELSE NumberWindow(u[k - 1], empty[k])
  BY <1>5 DEF IsNumbering
<1>7. \A k \in 0..(n - 1) : v[k] = u[k]
  BY <1>2, <1>3
<1>8. v[n] = NumberWindow(u[n - 1], empty[n])
  BY <1>2
<1>9. DOMAIN v = 0..n /\ v = [k \in 0..n |-> v[k]]
  OBVIOUS
<1> HIDE DEF v
<1>10. \A k \in 0..n : v[k] = IF k = 0 THEN [session |-> 1, run |-> 0] ELSE NumberWindow(v[k - 1], empty[k])
  <2> SUFFICES ASSUME NEW k \in 0..n
               PROVE  v[k] = IF k = 0 THEN [session |-> 1, run |-> 0] ELSE NumberWindow(v[k - 1], empty[k])
    OBVIOUS
  <2>1. CASE k = n
    <3>1. k # 0 /\ k - 1 = n - 1 /\ n - 1 \in 0..(n - 1)
      BY <1>2, <1>3, <2>1
    <3>2. v[n - 1] = u[n - 1]
      BY <1>7, <3>1
    <3> QED BY <1>8, <2>1, <3>1, <3>2
  <2>2. CASE k # n
    <3>1. k \in 0..(n - 1) /\ (k # 0 => k - 1 \in 0..(n - 1))
      BY <1>2, <2>2
    <3> QED BY <1>6, <1>7, <3>1
  <2> QED BY <2>1, <2>2
<1>11. IsNumbering(v, empty, n)
  BY <1>9, <1>10 DEF IsNumbering
<1> QED BY <1>2, <1>11

(* A numbering counts the empty windows before each window.                 *)
Counts(u, empty, n) ==
  /\ \A k \in 0..n :
       /\ u[k] \in Numbered /\ u[k].run <= k
       /\ \A j \in (k - u[k].run + 1)..k : empty[j]
       /\ u[k].run < k => ~empty[k - u[k].run]
  /\ \A k \in 1..n : u[k] = NumberWindow(u[k - 1], empty[k])

(* It counts the empty windows since the last one with flows.               *)
LEMMA NumberingCounts ==
  ASSUME NEW n \in Nat, NEW empty \in [1..n -> BOOLEAN], NEW u, IsNumbering(u, empty, n)
  PROVE  Counts(u, empty, n)
<1> DEFINE fine(k) == /\ u[k] \in Numbered /\ u[k].run <= k
                      /\ \A j \in (k - u[k].run + 1)..k : empty[j]
                      /\ u[k].run < k => ~empty[k - u[k].run]
           bad == {k \in 0..n : ~fine(k)}
<1>1. \A k \in 0..n : u[k] = IF k = 0 THEN [session |-> 1, run |-> 0] ELSE NumberWindow(u[k - 1], empty[k])
  BY DEF IsNumbering
<1>2. \A k \in 1..n : k \in 0..n /\ k - 1 \in 0..n /\ u[k] = NumberWindow(u[k - 1], empty[k])
  BY <1>1
<1>3. fine(0)
  <2>1. u[0] = [session |-> 1, run |-> 0]
    BY <1>1
  <2> QED BY <2>1 DEF Numbered
<1>4. ASSUME NEW k \in 1..n, fine(k - 1)
      PROVE  fine(k)
  <2> DEFINE acc == u[k - 1]
  <2>1. acc \in Numbered /\ acc.run \in Nat /\ acc.run <= k - 1 /\ empty[k] \in BOOLEAN /\ k \in Int
    BY <1>4 DEF Numbered
  <2>2. u[k] = NumberWindow(acc, empty[k])
    BY <1>2
  <2>3. u[k] \in Numbered
    BY <2>1, <2>2, NumberWindowIs
  <2>4. CASE empty[k]
    <3>1. u[k].run = acc.run + 1
      BY <2>1, <2>2, <2>4, NumberWindowIs
    <3>2. \A j \in ((k - 1) - acc.run + 1)..(k - 1) : empty[j]
      BY <1>4
    <3>3. acc.run < k - 1 => ~empty[(k - 1) - acc.run]
      BY <1>4
    <3> HIDE DEF acc
    <3>4. k - u[k].run = (k - 1) - acc.run /\ k - u[k].run + 1 = (k - 1) - acc.run + 1
      BY <2>1, <3>1
    <3>5. \A j \in (k - u[k].run + 1)..k : j = k \/ j \in ((k - 1) - acc.run + 1)..(k - 1)
      BY <2>1, <3>1
    <3>6. \A j \in (k - u[k].run + 1)..k : empty[j]
      BY <2>4, <3>2, <3>5
    <3>7. u[k].run < k => ~empty[k - u[k].run]
      BY <2>1, <3>1, <3>3, <3>4
    <3> QED BY <2>1, <2>3, <3>1, <3>6, <3>7
  <2>5. CASE ~empty[k]
    <3>1. u[k].run = 0
      <4>1. empty[k] = FALSE
        BY <2>1, <2>5
      <4>2. u[k] = NumberWindow(acc, FALSE)
        BY <2>2, <4>1
      <4> HIDE DEF acc
      <4> QED BY <4>2 DEF NumberWindow
    <3>2. k - u[k].run = k /\ (k - u[k].run + 1)..k = {}
      BY <2>1, <3>1
    <3> QED BY <2>1, <2>3, <2>5, <3>1, <3>2
  <2> QED BY <2>1, <2>4, <2>5
<1>5. bad = {}
  <2> SUFFICES ASSUME bad # {}
               PROVE  FALSE
    OBVIOUS
  <2> HIDE DEF fine
  <2> DEFINE k == Min(bad)
  <2>1. k \in bad /\ \A j \in bad : k <= j
    <3>1. bad \in SUBSET Int /\ bad \in SUBSET (0..n) /\ IsFiniteSet(0..n)
      BY FS_Interval
    <3>2. IsFiniteSet(bad)
      BY <3>1, FS_Subset
    <3> HIDE DEF bad
    <3> QED BY <3>1, <3>2, ExtremesAre
  <2> HIDE DEF k
  <2>2. k \in 0..n /\ ~fine(k)
    BY <2>1
  <2>3. k # 0
    BY <1>3, <2>2
  <2>4. k \in 1..n /\ k - 1 \in 0..n /\ k - 1 \notin bad
    BY <2>1, <2>2, <2>3
  <2> QED BY <1>4, <2>2, <2>4
<1> QED BY <1>2, <1>5 DEF Counts

(* What the sessions of windows are.                                        *)
LEMMA SessionsAre ==
  ASSUME NEW n \in Nat, NEW empty \in [1..n -> BOOLEAN]
  PROVE  \E u : Counts(u, empty, n) /\ \A k \in 1..n : Sessions(empty)[k] = u[k].session
<1> DEFINE body(f) == [k \in 0..n |-> IF k = 0 THEN [session |-> 1, run |-> 0] ELSE NumberWindow(f[k - 1], empty[k])]
           u == CHOOSE f : f = body(f)
<1>1. Len(empty) = n /\ DOMAIN empty = 1..n
  <2>1. empty \in Seq(BOOLEAN) /\ DOMAIN empty = 1..n
    OBVIOUS
  <2> QED BY <2>1, LenProperties
<1>2. u = body(u)
  <2>1. PICK f : IsNumbering(f, empty, n)
    BY NumberingExists
  <2>2. f = body(f)
    BY <2>1 DEF IsNumbering
  <2> QED BY <2>2
<1>3. Sessions(empty) = [k \in 1..n |-> u[k].session]
  BY <1>1 DEF Sessions
<1> HIDE DEF u
<1>4. DOMAIN u = 0..n
  BY <1>2
<1>5. Counts(u, empty, n)
  BY <1>2, <1>4, NumberingCounts DEF IsNumbering
<1> QED BY <1>3, <1>5

(* A run of empty windows as long as the long gap.                          *)
IsLong(run) == run * WindowSize >= LongGap

(* From one window to the next the session stays or, after a long gap, goes *)
(* up by one.                                                               *)
LEMMA SessionsMove ==
  ASSUME NEW n \in Nat, NEW empty \in [1..n -> BOOLEAN], NEW u, Counts(u, empty, n),
         NEW k \in 1..n
  PROVE  IF ~empty[k] /\ IsLong(u[k - 1].run) THEN u[k].session = u[k - 1].session + 1
                                              ELSE u[k].session = u[k - 1].session
<1> DEFINE acc == u[k - 1]
<1>1. k \in 0..n /\ k - 1 \in 0..n /\ k \in Int
  OBVIOUS
<1>2. acc \in Numbered /\ u[k] = NumberWindow(acc, empty[k])
  BY <1>1 DEF Counts
<1>3. empty[k] \in BOOLEAN
  OBVIOUS
<1> HIDE DEF acc
<1>4. acc.run \in Nat /\ acc.session \in Nat
  BY <1>2 DEF Numbered
<1>5. CASE empty[k]
  <2>1. empty[k] = TRUE
    BY <1>3, <1>5
  <2>2. u[k] = [acc EXCEPT !.run = @ + 1]
    BY <1>2, <2>1 DEF NumberWindow
  <2>3. u[k].session = acc.session
    BY <1>2, <2>2 DEF Numbered
  <2> QED BY <1>5, <2>3 DEF acc
<1>6. CASE ~empty[k]
  <2>1. empty[k] = FALSE
    BY <1>3, <1>6
  <2>2. u[k] = [session |-> acc.session + (IF acc.run * WindowSize >= LongGap THEN 1 ELSE 0), run |-> 0]
    BY <1>2, <2>1 DEF NumberWindow
  <2>3. u[k].session = acc.session + (IF acc.run * WindowSize >= LongGap THEN 1 ELSE 0)
    BY <2>2
  <2>4. IF IsLong(acc.run) THEN u[k].session = acc.session + 1 ELSE u[k].session = acc.session
    BY <1>4, <2>3 DEF IsLong
  <2> QED BY <1>6, <2>4 DEF acc
<1> QED BY <1>5, <1>6

(* The run before a window is the run of empty windows that ends there.     *)
LEMMA RunsAre ==
  ASSUME NEW n \in Nat, NEW empty \in [1..n -> BOOLEAN], NEW u, Counts(u, empty, n),
         NEW k \in 1..n
  PROVE  /\ u[k - 1].run \in Nat
         /\ \A j \in (k - u[k - 1].run)..(k - 1) : empty[j]
         /\ \A a \in 1..k : (\A j \in a..(k - 1) : empty[j]) => k - a <= u[k - 1].run
<1> DEFINE acc == u[k - 1]
<1>1. k \in 0..n /\ k - 1 \in 0..n /\ k \in Int
  OBVIOUS
<1>2. /\ acc \in Numbered /\ acc.run <= k - 1
      /\ \A j \in ((k - 1) - acc.run + 1)..(k - 1) : empty[j]
      /\ acc.run < k - 1 => ~empty[(k - 1) - acc.run]
  BY <1>1 DEF Counts
<1> HIDE DEF acc
<1>3. acc.run \in Nat
  BY <1>2 DEF Numbered
<1>4. \A j \in (k - acc.run)..(k - 1) : empty[j]
  <2>1. (k - 1) - acc.run + 1 = k - acc.run
    BY <1>1, <1>3
  <2> QED BY <1>2, <2>1
<1>5. ASSUME NEW a \in 1..k, \A j \in a..(k - 1) : empty[j], ~(k - a <= acc.run)
      PROVE  FALSE
  <2>1. (k - 1) - acc.run \in a..(k - 1) /\ acc.run < k - 1
    BY <1>1, <1>3, <1>5
  <2> QED BY <1>2, <1>5, <2>1
<1> QED BY <1>3, <1>4, <1>5 DEF acc

(* Sessions never go back.                                                  *)
LEMMA SessionsGrow ==
  ASSUME NEW n \in Nat, NEW empty \in [1..n -> BOOLEAN], NEW u, Counts(u, empty, n),
         NEW a \in 0..n, NEW b \in a..n
  PROVE  u[a].session \in Nat /\ u[b].session \in Nat /\ u[a].session <= u[b].session
<1> DEFINE bad == {k \in a..n : ~(u[a].session <= u[k].session)}
<1>1. \A k \in 0..n : u[k].session \in Nat
  BY DEF Counts, Numbered
<1>2. bad = {}
  <2> SUFFICES ASSUME bad # {}
               PROVE  FALSE
    OBVIOUS
  <2> DEFINE k == Min(bad)
  <2>1. k \in bad /\ \A j \in bad : k <= j
    <3>1. bad \in SUBSET Int /\ bad \in SUBSET (a..n) /\ IsFiniteSet(a..n)
      BY FS_Interval
    <3>2. IsFiniteSet(bad)
      BY <3>1, FS_Subset
    <3> HIDE DEF bad
    <3> QED BY <3>1, <3>2, ExtremesAre
  <2> HIDE DEF k
  <2>2. k \in a..n /\ ~(u[a].session <= u[k].session)
    BY <2>1
  <2>3. k # a
    BY <1>1, <2>2
  <2>4. k \in 1..n /\ k - 1 \in a..n /\ k - 1 \in 0..n /\ k \in 0..n /\ k - 1 \notin bad
    BY <2>1, <2>2, <2>3
  <2>5. u[a].session <= u[k - 1].session
    BY <2>4
  <2>6. u[k].session = u[k - 1].session \/ u[k].session = u[k - 1].session + 1
    BY <2>4, SessionsMove
  <2>7. u[a].session \in Int /\ u[k - 1].session \in Int /\ u[k].session \in Int
    BY <1>1, <2>4
  <2> QED BY <2>2, <2>5, <2>6, <2>7
<1> QED BY <1>1, <1>2

(* A stretch of empty windows as long as the long gap.                      *)
GapBetween(empty, i, j) ==
  \E a, b \in i..j : a <= b + 1 /\ IsLong(b - a + 1) /\ \A k \in a..b : empty[k]

(* Two windows with flows share a session exactly if no long gap lies       *)
(* between them.                                                            *)
LEMMA SessionsPart ==
  ASSUME NEW n \in Nat, NEW empty \in [1..n -> BOOLEAN], NEW u, Counts(u, empty, n),
         NEW i \in 1..n, NEW j \in 1..n, i < j, ~empty[i], ~empty[j]
  PROVE  u[i].session = u[j].session <=> ~GapBetween(empty, i, j)
<1>1. WindowSize \in Nat \ {0} /\ LongGap \in Nat /\ i \in Int /\ j \in Int
  BY TrainingAssumption
<1>2. ASSUME NEW a \in i..j, NEW b \in i..j, a <= b + 1, IsLong(b - a + 1),
             \A k \in a..b : empty[k]
      PROVE  u[i].session # u[j].session
  <2>1. a \in Int /\ b \in Int /\ b < j
    <3>1. a \in Int /\ b \in Int /\ a <= j /\ b <= j
      BY <1>1
    <3>2. b = j => j \in a..b
      BY <1>1, <3>1
    <3> QED BY <1>1, <1>2, <3>1, <3>2
  <2> DEFINE K == {k \in (b + 1)..j : ~empty[k]}
             k == Min(K)
  <2>2. k \in K /\ \A l \in K : k <= l
    <3>1. j \in K
      BY <1>1, <2>1
    <3>2. K \in SUBSET Int /\ K \in SUBSET ((b + 1)..j) /\ IsFiniteSet((b + 1)..j)
      <4>1. K \in SUBSET ((b + 1)..j) /\ b + 1 \in Int
        BY <2>1
      <4>2. IsFiniteSet((b + 1)..j)
        BY <1>1, <4>1, FS_Interval
      <4>3. (b + 1)..j \in SUBSET Int
        BY <1>1, <4>1
      <4> HIDE DEF K
      <4> QED BY <4>1, <4>2, <4>3
    <3>3. IsFiniteSet(K)
      BY <3>2, FS_Subset
    <3> HIDE DEF K
    <3> QED BY <3>1, <3>2, <3>3, ExtremesAre
  <2> HIDE DEF k
  <2>3. k \in (b + 1)..j /\ ~empty[k] /\ k \in Int
    BY <2>1, <2>2
  <2>4. \A l \in a..(k - 1) : empty[l]
    <3> SUFFICES ASSUME NEW l \in a..(k - 1)
                 PROVE  empty[l]
      OBVIOUS
    <3>1. l \in a..b \/ l \in (b + 1)..j
      BY <1>1, <2>1, <2>3
    <3>2. l \notin K
      BY <2>1, <2>2, <2>3
    <3> QED BY <1>2, <3>1, <3>2
  <2>5. k \in 1..n /\ a \in 1..k /\ k - 1 \in i..n /\ i \in 0..n /\ k \in 0..n /\ j \in k..n
    BY <1>1, <1>2, <2>1, <2>3
  <2> DEFINE run == u[k - 1].run
  <2>6. run \in Nat /\ k - a <= run
    BY <2>4, <2>5, RunsAre
  <2> HIDE DEF run
  <2>7. run * WindowSize >= LongGap
    <3>1. b - a + 1 \in Int /\ b - a + 1 <= run
      BY <2>1, <2>3, <2>6
    <3>2. (b - a + 1) * WindowSize <= run * WindowSize /\ (b - a + 1) * WindowSize \in Int /\ run * WindowSize \in Int
      BY <1>1, <2>6, <3>1, MultiplesAreApart
    <3> HIDE DEF run
    <3> QED BY <1>1, <1>2, <3>2 DEF IsLong
  <2>8. u[k].session = u[k - 1].session + 1
    <3>1. ~empty[k] /\ IsLong(u[k - 1].run) => u[k].session = u[k - 1].session + 1
      BY <2>5, SessionsMove
    <3> QED BY <2>3, <2>7, <3>1 DEF run, IsLong
  <2>9. /\ u[i].session \in Nat /\ u[k - 1].session \in Nat /\ u[j].session \in Nat /\ u[k].session \in Nat
        /\ u[i].session <= u[k - 1].session /\ u[k].session <= u[j].session
    BY <2>5, SessionsGrow
  <2> QED BY <2>8, <2>9
<1>3. ASSUME u[i].session # u[j].session
      PROVE  GapBetween(empty, i, j)
  <2> DEFINE B == {k \in i..j : u[k].session # u[i].session}
             k == Min(B)
  <2>1. k \in B /\ \A l \in B : k <= l
    <3>1. j \in B
      BY <1>1, <1>3
    <3>2. B \in SUBSET Int /\ B \in SUBSET (i..j) /\ IsFiniteSet(i..j)
      BY <1>1, FS_Interval
    <3>3. IsFiniteSet(B)
      BY <3>2, FS_Subset
    <3> HIDE DEF B
    <3> QED BY <3>1, <3>2, <3>3, ExtremesAre
  <2> HIDE DEF k
  <2>2. k \in i..j /\ u[k].session # u[i].session /\ k # i
    BY <2>1
  <2>3. k \in 1..n /\ k \in Int /\ k - 1 \in i..j /\ k - 1 \notin B
    BY <1>1, <2>1, <2>2
  <2>4. u[k].session # u[k - 1].session
    BY <2>2, <2>3
  <2> DEFINE run == u[k - 1].run
  <2>5. run \in Nat /\ IsLong(run) /\ \A l \in (k - run)..(k - 1) : empty[l]
    BY <2>3, <2>4, RunsAre, SessionsMove
  <2> HIDE DEF run
  <2>6. k - run > i
    <3>1. i <= k - 1 /\ (k - run <= i => i \in (k - run)..(k - 1))
      BY <1>1, <2>3, <2>5
    <3> QED BY <1>1, <2>3, <2>5, <3>1
  <2>7. k - run \in i..j /\ k - run <= (k - 1) + 1 /\ (k - 1) - (k - run) + 1 = run
    BY <1>1, <2>2, <2>3, <2>5, <2>6
  <2>8. IsLong((k - 1) - (k - run) + 1)
    BY <2>5, <2>7
  <2> QED BY <2>3, <2>5, <2>7, <2>8 DEF GapBetween
<1> QED BY <1>2, <1>3 DEF GapBetween

-----------------------------------------------------------------------------
(* Windows.                                                                 *)

(* No flow is in two windows.                                               *)
LEMMA WindowsAreDisjoint ==
  ASSUME IngestInv, NEW p \in Int, NEW k \in Int, NEW l \in Int,
         NEW f \in Observed(At(p, k)), f \in Observed(At(p, l))
  PROVE  k = l
<1>1. f \in retained /\ At(p, k) <= f.at /\ f.at < At(p, k) + WindowSize
      /\ At(p, l) <= f.at /\ f.at < At(p, l) + WindowSize
  BY DEF Observed
<1>2. f.at \in Nat
  BY <1>1, RetainedAt
<1>3. WindowSize \in Nat /\ At(p, k) \in Int /\ At(p, l) \in Int
  BY AtGrows, TrainingAssumption
<1>4. k < l => At(p, k) + WindowSize <= At(p, l)
  BY AtGrows
<1>5. l < k => At(p, l) + WindowSize <= At(p, k)
  BY AtGrows
<1> QED BY <1>1, <1>2, <1>3, <1>4, <1>5

(* The windows of a capture lie end to end and hold every packet, each in   *)
(* its window.                                                              *)
LEMMA PcapWindowsAre ==
  ASSUME NEW times \in SUBSET Int, IsFiniteSet(times), times # {}
  PROVE  LET pcap == PcapWindows(times) IN
         /\ \A k \in 2..Len(pcap) : pcap[k - 1].until = pcap[k].from
         /\ UNION {pcap[k].holds : k \in DOMAIN pcap} = times
         /\ \A k \in DOMAIN pcap : \A t \in pcap[k].holds : pcap[k].from <= t /\ t < pcap[k].until
<1> DEFINE first == Min(times)
           last == Max(times)
           count == (last - first) \div WindowSize + 1
           bin(k) == {t \in times : (t - first) \div WindowSize = k - 1}
           window(k) == [from |-> first + (k - 1) * WindowSize, until |-> first + k * WindowSize, holds |-> bin(k)]
           pcap == PcapWindows(times)
<1>1. WindowSize \in Nat \ {0}
  BY TrainingAssumption
<1>2. /\ first \in times /\ first \in Int /\ \A t \in times : t \in Int /\ first <= t
      /\ last \in times /\ last \in Int /\ \A t \in times : t <= last
  BY ExtremesAre
<1> HIDE DEF first, last
<1>3. \A t \in times : LET q == (t - first) \div WindowSize IN
        /\ q \in Nat /\ q * WindowSize <= t - first /\ t - first < q * WindowSize + WindowSize
  <2> SUFFICES ASSUME NEW t \in times
               PROVE  LET q == (t - first) \div WindowSize IN
                      /\ q \in Nat /\ q * WindowSize <= t - first /\ t - first < q * WindowSize + WindowSize
    OBVIOUS
  <2>1. t - first \in Nat /\ t - first \in Int
    BY <1>2
  <2> QED BY <1>1, <2>1, DivIs
<1>4. count \in Nat \ {0} /\ count - 1 = (last - first) \div WindowSize
  BY <1>2, <1>3
<1>5. Max({1, count}) = count
  <2>1. {1, count} \in SUBSET Int /\ {1, count} # {}
    BY <1>4
  <2>2. IsFiniteSet({1, count})
    <3>1. IsFiniteSet({1}) /\ {1, count} = {1} \union {count}
      BY FS_Singleton
    <3>2. IsFiniteSet({1} \union {count})
      BY <3>1, FS_AddElement
    <3> QED BY <3>1, <3>2
  <2>3. Max({1, count}) \in {1, count} /\ \A x \in {1, count} : x <= Max({1, count})
    BY <2>1, <2>2, ExtremesAre
  <2> QED BY <1>4, <2>3
<1>6. pcap = [k \in 1..count |-> window(k)]
  BY <1>5 DEF PcapWindows, first, last
<1> HIDE DEF count
<1>7. DOMAIN pcap = 1..count /\ Len(pcap) = count
  <2> DEFINE T == {window(k) : k \in 1..count}
  <2>1. \A k \in 1..count : window(k) \in T
    OBVIOUS
  <2> HIDE DEF window, T, pcap
  <2>2. pcap \in [1..count -> T]
    BY <1>6, <2>1
  <2>3. pcap \in Seq(T) /\ DOMAIN pcap = 1..count
    BY <1>4, <2>2
  <2> QED BY <1>4, <2>3, LenProperties
<1> HIDE DEF pcap
<1>8. \A k \in 1..count : /\ pcap[k].from = first + (k - 1) * WindowSize
                         /\ pcap[k].until = first + k * WindowSize
                         /\ pcap[k].holds = bin(k)
  BY <1>6
<1>9. \A k \in 2..Len(pcap) : pcap[k - 1].until = pcap[k].from
  <2>1. \A k \in 2..count : k \in 1..count /\ k - 1 \in 1..count
    BY <1>4
  <2> HIDE DEF bin
  <2> QED BY <1>7, <1>8, <2>1
<1>10. ASSUME NEW k \in 1..count, NEW t \in pcap[k].holds
       PROVE  t \in times /\ pcap[k].from <= t /\ t < pcap[k].until
  <2>1. t \in times /\ (t - first) \div WindowSize = k - 1
    BY <1>8
  <2>2. (k - 1) * WindowSize <= t - first /\ t - first < (k - 1) * WindowSize + WindowSize
    BY <1>3, <2>1
  <2>3. k \in Int /\ (k - 1) * WindowSize \in Int /\ k * WindowSize = (k - 1) * WindowSize + WindowSize
    BY <1>1, <1>4
  <2> DEFINE w == (k - 1) * WindowSize
  <2> HIDE DEF w
  <2>4. first + w <= t /\ t < first + (w + WindowSize)
    BY <1>1, <1>2, <2>1, <2>2, <2>3 DEF w
  <2> QED BY <1>8, <2>1, <2>3, <2>4 DEF w
<1>11. ASSUME NEW t \in times
       PROVE  \E k \in 1..count : t \in pcap[k].holds
  <2> DEFINE q == (t - first) \div WindowSize
             r == (last - first) \div WindowSize
  <2>1. q \in Nat /\ q * WindowSize <= t - first /\ t - first <= last - first
    BY <1>2, <1>3
  <2>2. r \in Nat /\ last - first < r * WindowSize + WindowSize
    BY <1>2, <1>3
  <2>3. t - first \in Int /\ last - first \in Int /\ count - 1 = r
    BY <1>2, <1>4 DEF count
  <2> HIDE DEF q, r
  <2>4. ~(r < q)
    <3>1. r < q => /\ r * WindowSize \in Int /\ q * WindowSize \in Int
                   /\ r * WindowSize + WindowSize <= q * WindowSize
      BY <1>1, <2>1, <2>2, MultiplesAreApart
    <3> QED BY <1>1, <2>1, <2>2, <2>3, <3>1
  <2>5. q + 1 \in 1..count /\ (q + 1) - 1 = q
    BY <1>4, <2>1, <2>2, <2>3, <2>4
  <2>6. t \in bin(q + 1)
    BY <2>5 DEF q
  <2> QED BY <1>8, <2>5, <2>6
<1>12. UNION {pcap[k].holds : k \in DOMAIN pcap} = times
  BY <1>7, <1>10, <1>11
<1> QED BY <1>7, <1>9, <1>10, <1>12 DEF pcap

(* The states lie end to end, and every flow is in exactly one of them.     *)
LEMMA StatesTile ==
  ASSUME IngestInv, NEW p \in Int, NEW n \in Int, TiledBy(p, n), retained # {}
  PROVE  /\ n \in Nat \ {0}
         /\ \A k \in 2..Len(networkStates) : networkStates[k - 1].until = networkStates[k].from
         /\ ~Head(networkStates).isEmpty /\ ~Last(networkStates).isEmpty
         /\ \A f \in retained : \E k \in DOMAIN networkStates :
              \A j \in DOMAIN networkStates : f \in Observed(networkStates[j].from) <=> j = k
<1>1. n \in Nat \ {0}
  <2>1. PICK f : f \in retained
    OBVIOUS
  <2>2. n \in Nat /\ \E k \in 1..n : f \in Observed(At(p, k))
    BY <2>1 DEF TiledBy
  <2> QED BY <2>2
<1>2. DOMAIN networkStates = 1..n /\ Len(networkStates) = n /\ \E S : networkStates \in Seq(S)
  BY DEF TiledBy
<1>3. \A k \in 1..n : /\ networkStates[k].from = At(p, k) /\ networkStates[k].until = At(p, k + 1)
                      /\ networkStates[k].isEmpty <=> Observed(At(p, k)) = {}
  BY DEF TiledBy
<1>4. Observed(At(p, 1)) # {} /\ Observed(At(p, n)) # {}
  BY <1>1 DEF TiledBy
<1>5. \A k \in 2..Len(networkStates) : networkStates[k - 1].until = networkStates[k].from
  <2>1. \A k \in 2..n : k \in 1..n /\ k - 1 \in 1..n /\ (k - 1) + 1 = k
    BY <1>1
  <2> QED BY <1>2, <1>3, <2>1
<1>6. ~networkStates[1].isEmpty /\ ~networkStates[n].isEmpty
  BY <1>1, <1>3, <1>4
<1>7. Head(networkStates) = networkStates[1] /\ Last(networkStates) = networkStates[n]
  BY <1>1, <1>2 DEF Last
<1>8. ASSUME NEW f \in retained
      PROVE  \E k \in DOMAIN networkStates :
               \A j \in DOMAIN networkStates : f \in Observed(networkStates[j].from) <=> j = k
  <2>1. PICK k \in 1..n : f \in Observed(At(p, k))
    BY DEF TiledBy
  <2>2. \A j \in 1..n : f \in Observed(At(p, j)) <=> j = k
    BY <1>1, <2>1, WindowsAreDisjoint
  <2>3. \A j \in 1..n : f \in Observed(networkStates[j].from) <=> j = k
    BY <1>3, <2>2
  <2>4. DOMAIN networkStates = 1..n
    BY <1>2
  <2>5. k \in DOMAIN networkStates
        /\ \A j \in DOMAIN networkStates : f \in Observed(networkStates[j].from) <=> j = k
    BY <2>3, <2>4
  <2> QED BY <2>5
<1> QED BY <1>1, <1>5, <1>6, <1>7, <1>8

(* Two states with flows share a session exactly if no long gap lies        *)
(* between them.                                                            *)
LEMMA SessionsDivide ==
  ASSUME NEW p \in Int, NEW n \in Int, TiledBy(p, n), NEW i \in 1..n, NEW j \in 1..n, i < j,
         ~networkStates[i].isEmpty, ~networkStates[j].isEmpty
  PROVE  /\ networkStates[i].session = networkStates[j].session <=> ~GapBetween(EmptyIn(p, n), i, j)
         /\ GapBetween(EmptyIn(p, n), i, j) <=>
              \E a, b \in i..j : /\ a <= b + 1 /\ (b - a + 1) * WindowSize >= LongGap
                               /\ \A k \in a..b : networkStates[k].isEmpty
<1> DEFINE empty == EmptyIn(p, n)
<1>1. n \in Nat /\ empty \in [1..n -> BOOLEAN]
  BY DEF TiledBy, EmptyIn
<1>2. \A k \in 1..n : /\ networkStates[k].isEmpty <=> empty[k]
                      /\ networkStates[k].session = Sessions(empty)[k]
  BY DEF TiledBy, EmptyIn
<1> HIDE DEF empty
<1>3. PICK u : Counts(u, empty, n) /\ \A k \in 1..n : Sessions(empty)[k] = u[k].session
  BY <1>1, SessionsAre
<1>4. u[i].session = u[j].session <=> ~GapBetween(empty, i, j)
  <2>1. ~empty[i] /\ ~empty[j]
    BY <1>2
  <2> QED BY <1>1, <1>3, <2>1, SessionsPart
<1>5. \A a, b \in i..j : (\A k \in a..b : empty[k]) <=> (\A k \in a..b : networkStates[k].isEmpty)
  <2> SUFFICES ASSUME NEW a \in i..j, NEW b \in i..j
               PROVE  (\A k \in a..b : empty[k]) <=> (\A k \in a..b : networkStates[k].isEmpty)
    OBVIOUS
  <2>1. \A k \in a..b : k \in 1..n
    BY <1>1
  <2> QED BY <1>2, <2>1
<1>6. networkStates[i].session = u[i].session /\ networkStates[j].session = u[j].session
  BY <1>2, <1>3
<1>7. GapBetween(empty, i, j) <=>
        \E a, b \in i..j : /\ a <= b + 1 /\ (b - a + 1) * WindowSize >= LongGap
                         /\ \A k \in a..b : networkStates[k].isEmpty
  BY <1>5, Zenon DEF GapBetween, IsLong
<1> QED BY <1>4, <1>6, <1>7 DEF empty

(* Every row read is accounted for, and the states tile the time between    *)
(* the first flow and the last.                                             *)
THEOREM StatesTileTimeAlways == Spec => []StatesTileTime
<1>1. IngestInv => StatesTileTime
  <2> SUFFICES ASSUME IngestInv
               PROVE  StatesTileTime
    OBVIOUS
  <2>1. RowsAreAccountedFor
    BY DEF IngestInv
  <2>2. CASE ~(progress = "built" /\ retained # {})
    BY <2>1, <2>2 DEF StatesTileTime, RowsAreAccountedFor
  <2>3. CASE progress = "built" /\ retained # {}
    <3>1. PICK p \in Int, n \in Int : TiledBy(p, n)
      BY <2>3, StatesAre
    <3>2. /\ n \in Nat \ {0} /\ DOMAIN networkStates = 1..n
          /\ \A k \in 2..Len(networkStates) : networkStates[k - 1].until = networkStates[k].from
          /\ ~Head(networkStates).isEmpty /\ ~Last(networkStates).isEmpty
          /\ \A f \in retained : \E k \in DOMAIN networkStates :
               \A j \in DOMAIN networkStates : f \in Observed(networkStates[j].from) <=> j = k
      <4>1. DOMAIN networkStates = 1..n
        BY <3>1 DEF TiledBy
      <4> QED BY <2>3, <3>1, <4>1, StatesTile
    <3>3. \A k \in DOMAIN networkStates :
            /\ networkStates[k].flowCount = Cardinality(Observed(networkStates[k].from))
            /\ networkStates[k].gapBefore <=> k > 1 /\ networkStates[k - 1].isEmpty
      BY <3>1 DEF TiledBy
    <3>4. \A i, j \in DOMAIN networkStates :
            (i < j /\ ~networkStates[i].isEmpty /\ ~networkStates[j].isEmpty) =>
              (networkStates[i].session = networkStates[j].session <=>
                 ~ \E a, b \in i..j : /\ a <= b + 1 /\ (b - a + 1) * WindowSize >= LongGap
                                    /\ \A k \in a..b : networkStates[k].isEmpty)
      <4> SUFFICES ASSUME NEW i \in 1..n, NEW j \in 1..n,
                          i < j, ~networkStates[i].isEmpty, ~networkStates[j].isEmpty
                   PROVE  networkStates[i].session = networkStates[j].session <=>
                            ~ \E a, b \in i..j : /\ a <= b + 1 /\ (b - a + 1) * WindowSize >= LongGap
                                               /\ \A k \in a..b : networkStates[k].isEmpty
        BY <3>2, Zenon
      <4>1. networkStates[i].session = networkStates[j].session <=> ~GapBetween(EmptyIn(p, n), i, j)
        BY <3>1, SessionsDivide
      <4>2. GapBetween(EmptyIn(p, n), i, j) <=>
              \E a, b \in i..j : /\ a <= b + 1 /\ (b - a + 1) * WindowSize >= LongGap
                               /\ \A k \in a..b : networkStates[k].isEmpty
        BY <3>1, SessionsDivide, Zenon
      <4> QED BY <4>1, <4>2, Zenon
    <3> DEFINE times == {f.at : f \in retained}
               pcap == PcapWindows(times)
    <3>5. times \in SUBSET Int /\ IsFiniteSet(times) /\ times # {}
      <4> DEFINE g == [f \in retained |-> f.at]
      <4>1. IsFiniteSet({g[f] : f \in retained})
        BY ImageIsFinite DEF IngestInv, IngestTypeOK
      <4>2. {g[f] : f \in retained} = times
        OBVIOUS
      <4> QED BY <2>3, <4>1, <4>2, RetainedAt
    <3> HIDE DEF times
    <3>6. /\ \A k \in 2..Len(pcap) : pcap[k - 1].until = pcap[k].from
          /\ UNION {pcap[k].holds : k \in DOMAIN pcap} = times
          /\ \A k \in DOMAIN pcap : \A t \in pcap[k].holds : pcap[k].from <= t /\ t < pcap[k].until
      BY <3>5, PcapWindowsAre
    <3> HIDE DEF pcap
    <3> QED BY <2>1, <3>2, <3>3, <3>4, <3>6, Zenon DEF StatesTileTime, RowsAreAccountedFor, times, pcap
  <2> QED BY <2>2, <2>3
<1> QED BY <1>1, IngestInvariant, PTL

-----------------------------------------------------------------------------
(* What was measured.                                                       *)

(* The k-th window has flows, with every feature among them.                *)
Seen(p, k) ==
  Observed(At(p, k)) # {} /\ AllFeatures \subseteq AvailableFeatures(Observed(At(p, k)))

(* A slice of the states.                                                   *)
LEMMA SliceIs ==
  ASSUME NEW p \in Int, NEW n \in Int, TiledBy(p, n), NEW length \in Nat \ {0}, NEW i \in 1..(n - length + 1)
  PROVE  LET w == Slice(networkStates, i, length) IN
         /\ DOMAIN w = 1..length /\ Len(w) = length
         /\ \A k \in 1..length : i + k - 1 \in 1..n /\ w[k] = networkStates[i + k - 1]
<1>1. PICK S : networkStates \in Seq(S)
  BY DEF TiledBy
<1>2. n \in Nat /\ DOMAIN networkStates = 1..n /\ Len(networkStates) = n /\ i \in Int
  BY DEF TiledBy
<1>3. i + length - 1 \in Int /\ i <= i + length - 1 /\ (i + length - 1) - i + 1 = length
  BY <1>2
<1>4. \A k \in i..(i + length - 1) : networkStates[k] \in S
  <2>1. \A k \in i..(i + length - 1) : k \in 1..Len(networkStates)
    BY <1>2
  <2> QED BY <1>1, <2>1, ElementOfSeq
<1> DEFINE w == SubSeq(networkStates, i, i + length - 1)
           z == i + length - 1
<1>5. /\ w \in Seq(S) /\ Len(w) = IF i <= z THEN z - i + 1 ELSE 0
      /\ \A k \in 1..(z - i + 1) : w[k] = networkStates[i + k - 1]
  <2> HIDE DEF z
  <2>1. z \in Int /\ \A k \in i..z : networkStates[k] \in S
    BY <1>3, <1>4 DEF z
  <2>2. /\ SubSeq(networkStates, i, z) \in Seq(S)
        /\ Len(SubSeq(networkStates, i, z)) = IF i <= z THEN z - i + 1 ELSE 0
        /\ \A k \in 1..(z - i + 1) : SubSeq(networkStates, i, z)[k] = networkStates[i + k - 1]
    BY <1>2, <2>1, SubSeqProperties
  <2> QED BY <2>2 DEF z
<1> HIDE DEF w
<1>6. Len(w) = length /\ DOMAIN w = 1..length
  BY <1>3, <1>5, LenProperties
<1>7. \A k \in 1..length : i + k - 1 \in 1..n
  BY <1>2
<1>8. \A k \in 1..length : w[k] = networkStates[i + k - 1]
  BY <1>3, <1>5
<1> QED BY <1>6, <1>7, <1>8 DEF w, Slice

(* A stretch is usable if every window of it was measured, unless a long    *)
(* gap is nothing.                                                          *)
LEMMA UsableIs ==
  ASSUME NEW p \in Int, NEW n \in Int, TiledBy(p, n), NEW length \in Nat, length >= 2,
         NEW i \in 1..(n - length + 1)
  PROVE  Usable(Slice(networkStates, i, length), AllFeatures)
           <=> LongGap > 0 /\ \A k \in 1..length : Seen(p, i + k - 1)
<1> DEFINE w == Slice(networkStates, i, length)
<1>1. /\ DOMAIN w = 1..length /\ Len(w) = length
      /\ \A k \in 1..length : i + k - 1 \in 1..n /\ w[k] = networkStates[i + k - 1]
  BY SliceIs
<1> HIDE DEF w
<1>2. n \in Nat /\ i \in Int /\ LongGap \in Nat /\ WindowSize \in Nat \ {0}
  BY TrainingAssumption DEF TiledBy
<1>3. \A k \in 1..length :
        /\ w[k].from = At(p, i + k - 1) /\ w[k].until = At(p, (i + k - 1) + 1)
        /\ w[k].isEmpty <=> Observed(At(p, i + k - 1)) = {}
        /\ w[k].features = AvailableFeatures(Observed(At(p, i + k - 1)))
  BY <1>1 DEF TiledBy
<1>4. Bridges(w) <=> \E k \in 1..length : Observed(At(p, i + k - 1)) = {}
  BY <1>1, <1>3 DEF Bridges
<1>5. LacksFeature(w, AllFeatures)
        <=> \E k \in 1..length : ~(AllFeatures \subseteq AvailableFeatures(Observed(At(p, i + k - 1))))
  <2>1. \A k \in 1..length : ~(AllFeatures \subseteq w[k].features)
          <=> ~(AllFeatures \subseteq AvailableFeatures(Observed(At(p, i + k - 1))))
    <3> SUFFICES ASSUME NEW k \in 1..length
                 PROVE  ~(AllFeatures \subseteq w[k].features)
                          <=> ~(AllFeatures \subseteq AvailableFeatures(Observed(At(p, i + k - 1))))
      OBVIOUS
    <3>1. w[k].features = AvailableFeatures(Observed(At(p, i + k - 1)))
      BY <1>3
    <3> QED BY <3>1
  <2>2. LacksFeature(w, AllFeatures) <=> \E k \in 1..length : ~(AllFeatures \subseteq w[k].features)
    BY <1>1, Zenon DEF LacksFeature
  <2> QED BY <2>1, <2>2, Zenon
<1>6. ~Jumps(w)
  <2>1. \A k \in 2..length : k - 1 \in 1..length /\ k \in 1..length /\ (i + (k - 1) - 1) + 1 = i + k - 1
    BY <1>2
  <2> QED BY <1>1, <1>3, <2>1 DEF Jumps
<1>7. i + 1 - 1 = i /\ 1 \in 1..length /\ i + 2 - 1 = i + 1 /\ 2 \in 1..length
  BY <1>2
<1>8. w[1].session = networkStates[i].session /\ i \in 1..n
  BY <1>1, <1>7
<1>9. ASSUME ~Bridges(w), ~CrossesSessions(w)
      PROVE  LongGap > 0
  <2> SUFFICES ASSUME LongGap = 0
               PROVE  FALSE
    BY <1>2
  <2>1. i + 1 \in 1..n /\ w[2] = networkStates[i + 1]
    BY <1>1, <1>7
  <2>2. ~networkStates[i].isEmpty /\ ~networkStates[i + 1].isEmpty
    BY <1>1, <1>7, <1>9, <2>1 DEF Bridges
  <2>3. networkStates[i].session = networkStates[i + 1].session
    BY <1>1, <1>7, <1>8, <1>9, <2>1 DEF CrossesSessions
  <2>4. i + 1 \in i..(i + 1) /\ i \in i..(i + 1) /\ i + 1 <= i + 1 /\ i < i + 1 /\ (i + 1)..i = {}
    BY <1>2
  <2>5. IsLong(i - (i + 1) + 1)
    <3>1. i - (i + 1) + 1 = 0 /\ 0 * WindowSize = 0
      BY <1>2
    <3> QED BY <3>1 DEF IsLong
  <2>6. GapBetween(EmptyIn(p, n), i, i + 1)
    BY <2>4, <2>5 DEF GapBetween
  <2>7. networkStates[i].session = networkStates[i + 1].session <=> ~GapBetween(EmptyIn(p, n), i, i + 1)
    BY <1>8, <2>1, <2>2, <2>4, SessionsDivide
  <2> QED BY <2>3, <2>6, <2>7
<1>10. ASSUME LongGap > 0, ~Bridges(w)
       PROVE  ~CrossesSessions(w)
  <2> SUFFICES ASSUME NEW k \in 1..length, w[k].session # w[1].session
               PROVE  FALSE
    BY <1>1 DEF CrossesSessions
  <2> DEFINE j == i + k - 1
  <2>1. j \in 1..n /\ w[k] = networkStates[j] /\ k # 1
    BY <1>1
  <2>2. i < j /\ j \in Int
    BY <1>2, <2>1
  <2>3. \A l \in i..j : l \in 1..n /\ ~EmptyIn(p, n)[l]
    <3> SUFFICES ASSUME NEW l \in i..j
                 PROVE  l \in 1..n /\ ~EmptyIn(p, n)[l]
      OBVIOUS
    <3>1. l - i + 1 \in 1..length /\ i + (l - i + 1) - 1 = l
      BY <1>2
    <3>2. l \in 1..n /\ Observed(At(p, l)) # {}
      BY <1>1, <1>4, <1>10, <3>1
    <3> QED BY <3>2 DEF EmptyIn
  <2> HIDE DEF j
  <2>4. ~networkStates[i].isEmpty /\ ~networkStates[j].isEmpty
    BY <1>1, <1>7, <1>10, <2>1 DEF Bridges
  <2>5. networkStates[i].session = networkStates[j].session <=> ~GapBetween(EmptyIn(p, n), i, j)
    BY <1>8, <2>1, <2>2, <2>4, SessionsDivide
  <2>6. ~GapBetween(EmptyIn(p, n), i, j)
    <3> SUFFICES ASSUME NEW a \in i..j, NEW b \in i..j, IsLong(b - a + 1),
                        \A l \in a..b : EmptyIn(p, n)[l]
                 PROVE  FALSE
      BY DEF GapBetween
    <3>1. a \in Int /\ b \in Int
      BY <1>2, <2>2
    <3>2. ~(b - a + 1 <= 0)
      <4> DEFINE r == b - a + 1
      <4>1. r \in Int
        BY <3>1
      <4>2. r * WindowSize >= LongGap
        BY DEF IsLong
      <4> HIDE DEF r
      <4>3. r < 0 => r * WindowSize + WindowSize <= 0 * WindowSize /\ r * WindowSize \in Int
        BY <1>2, <4>1, MultiplesAreApart
      <4>4. 0 * WindowSize = 0
        BY <1>2
      <4>5. ~(r <= 0)
        BY <1>2, <1>10, <4>1, <4>2, <4>3, <4>4
      <4> QED BY <4>5 DEF r
    <3>3. a \in a..b
      BY <3>1, <3>2
    <3> QED BY <2>3, <3>3
  <2> QED BY <1>8, <2>1, <2>5, <2>6
<1>11. Usable(w, AllFeatures) <=> ~Bridges(w) /\ ~CrossesSessions(w) /\ ~LacksFeature(w, AllFeatures)
  BY <1>6 DEF Usable
<1>12. (\A k \in 1..length : Seen(p, i + k - 1)) <=> ~Bridges(w) /\ ~LacksFeature(w, AllFeatures)
  BY <1>4, <1>5 DEF Seen
<1> QED BY <1>9, <1>10, <1>11, <1>12 DEF w

(* A window where something was seen is one of the states.                  *)
LEMMA SeenIsInside ==
  ASSUME IngestInv, NEW p \in Int, NEW n \in Int, TiledBy(p, n), NEW k \in Int, Seen(p, k)
  PROVE  k \in 1..n
<1>1. PICK f : f \in Observed(At(p, k))
  BY DEF Seen
<1>2. PICK j \in 1..n : f \in Observed(At(p, j))
  BY <1>1 DEF TiledBy, Observed
<1>3. j \in Int
  OBVIOUS
<1>4. k = j
  BY <1>1, <1>2, <1>3, WindowsAreDisjoint
<1> QED BY <1>4

(* What is expected of the samples, told by the places where stretches of   *)
(* states are usable.                                                       *)
LEMMA ExpectedIs ==
  ASSUME IngestInv, NEW p \in Int, NEW n \in Int, TiledBy(p, n),
         NEW before \in Nat, NEW after \in Nat, NEW length \in Nat,
         length = before + after + 1, length >= 2
  PROVE  Expected(before, after)
           = {At(p, i + before) : i \in UsableAt(networkStates, length, AllFeatures)}
<1> DEFINE U == UsableAt(networkStates, length, AllFeatures)
           E == Expected(before, after)
<1>1. n \in Nat /\ DOMAIN networkStates = 1..n /\ Len(networkStates) = n
  BY DEF TiledBy
<1>2. \A i : i \in U <=> /\ i \in 1..(n - length + 1) /\ LongGap > 0
                         /\ \A k \in 1..length : Seen(p, i + k - 1)
  <2>1. \A i \in 1..(n - length + 1) :
          Usable(Slice(networkStates, i, length), AllFeatures)
            <=> LongGap > 0 /\ \A k \in 1..length : Seen(p, i + k - 1)
    BY UsableIs
  <2>2. U = {i \in 1..(n - length + 1) : Usable(Slice(networkStates, i, length), AllFeatures)}
    BY <1>1 DEF UsableAt
  <2> HIDE DEF U
  <2> QED BY <2>1, <2>2
<1> HIDE DEF U
<1>3. {s.from : s \in ToSet(networkStates)} = {At(p, k) : k \in 1..n}
  <2>1. \A k \in 1..n : networkStates[k].from = At(p, k)
    BY DEF TiledBy
  <2> QED BY <1>1, <2>1 DEF ToSet
<1>4. \A k \in 1..n, l \in Int : At(p, k) + l * WindowSize = At(p, k + l) /\ k \in Int
  BY AtGrows
<1>5. \A k \in 1..n :
        At(p, k) \in E <=> LongGap > 0 /\ \A l \in (-before)..after : Seen(p, k + l)
  <2> SUFFICES ASSUME NEW k \in 1..n
               PROVE  At(p, k) \in E <=> LongGap > 0 /\ \A l \in (-before)..after : Seen(p, k + l)
    OBVIOUS
  <2>1. At(p, k) \in E <=> LongGap > 0 /\ \A l \in (-before)..after :
                             /\ Observed(At(p, k) + l * WindowSize) # {}
                             /\ AllFeatures \subseteq AvailableFeatures(Observed(At(p, k) + l * WindowSize))
    BY <1>3, Zenon DEF Expected
  <2>2. \A l \in (-before)..after : At(p, k) + l * WindowSize = At(p, k + l)
    BY <1>4
  <2> QED BY <2>1, <2>2, Zenon DEF Seen
<1>6. \A t \in E : \E k \in 1..n : t = At(p, k)
  BY <1>3 DEF Expected
<1> HIDE DEF E
<1>7. ASSUME NEW t \in E
      PROVE  \E i \in U : t = At(p, i + before)
  <2>1. PICK k \in 1..n : t = At(p, k)
    BY <1>6
  <2>2. LongGap > 0 /\ \A l \in (-before)..after : Seen(p, k + l)
    BY <1>5, <2>1
  <2>3. -before \in (-before)..after /\ after \in (-before)..after /\ k \in Int
    OBVIOUS
  <2> DEFINE i == k - before
  <2>4. k + (-before) \in 1..n /\ k + after \in 1..n
    <3>1. Seen(p, k + (-before)) /\ Seen(p, k + after)
      BY <2>2, <2>3
    <3>2. k + (-before) \in Int /\ k + after \in Int
      BY <2>3
    <3> QED BY <3>1, <3>2, SeenIsInside
  <2>5. i \in 1..(n - length + 1) /\ i + before = k
    BY <1>1, <2>3, <2>4
  <2>6. ASSUME NEW j \in 1..length
        PROVE  Seen(p, i + j - 1)
    <3>1. j - 1 - before \in (-before)..after /\ k + (j - 1 - before) = i + j - 1
      BY <2>3
    <3> QED BY <2>2, <3>1
  <2>7. i \in U
    BY <1>2, <2>2, <2>5, <2>6
  <2> HIDE DEF i
  <2> QED BY <2>1, <2>5, <2>7
<1>8. ASSUME NEW i \in U
      PROVE  At(p, i + before) \in E
  <2>1. /\ i \in 1..(n - length + 1) /\ LongGap > 0
        /\ \A k \in 1..length : Seen(p, i + k - 1)
    BY <1>2
  <2>2. i + before \in 1..n /\ i \in Int
    BY <1>1, <2>1
  <2>3. ASSUME NEW l \in (-before)..after
        PROVE  Seen(p, (i + before) + l)
    <3>1. before + l + 1 \in 1..length /\ i + (before + l + 1) - 1 = (i + before) + l
      BY <2>2
    <3> QED BY <2>1, <3>1
  <2> QED BY <1>5, <2>1, <2>2, <2>3
<1> QED BY <1>7, <1>8 DEF U, E

(* The targets of samples taken at a set of places.                         *)
LEMMA TargetsAre ==
  ASSUME NEW p \in Int, NEW n \in Int, TiledBy(p, n), NEW U \in SUBSET Int, IsFiniteSet(U),
         NEW depth \in Int, \A i \in U : i + depth \in 1..n,
         NEW samples, DOMAIN samples = DOMAIN InOrder(U),
         \A j \in DOMAIN samples : samples[j].target = networkStates[InOrder(U)[j] + depth].from
  PROVE  Targets(samples) = {At(p, i + depth) : i \in U}
<1> DEFINE at == InOrder(U) m == Cardinality(U)
<1>1. m \in Nat /\ at \in [1..m -> U] /\ \A i \in U : \E j \in 1..m : at[j] = i
  BY InOrderIs
<1>2. DOMAIN samples = 1..m /\ \A j \in 1..m : samples[j].target = networkStates[at[j] + depth].from
  BY <1>1
<1> HIDE DEF at, m
<1>3. \A k \in 1..n : networkStates[k].from = At(p, k)
  BY DEF TiledBy
<1>4. \A j \in 1..m : at[j] \in U /\ samples[j].target = At(p, at[j] + depth)
  BY <1>1, <1>2, <1>3
<1>5. Targets(samples) = {samples[j].target : j \in 1..m}
  BY <1>2 DEF Targets
<1>6. \A j \in 1..m : samples[j].target \in {At(p, i + depth) : i \in U}
  BY <1>4
<1>7. \A i \in U : \E j \in 1..m : samples[j].target = At(p, i + depth)
  BY <1>1, <1>4
<1> QED BY <1>5, <1>6, <1>7, Zenon

(* The samples are the stretches of telemetry that were measured            *)
(* throughout, all of them and no others (extract_transitions,              *)
(* extract_multistep_samples), for every window, gap, depth and horizon and *)
(* whatever rows are read.                                                  *)
THEOREM SamplesWereObservedAlways == Spec => []SamplesWereObserved
<1>1. IngestInv => SamplesWereObserved
  <2> SUFFICES ASSUME IngestInv, progress = "built"
               PROVE  /\ Targets(Transitions(networkStates)) = Expected(HistoryDepth, 0)
                      /\ Targets(MultiStepSamples(networkStates)) = Expected(RolloutDepth, MaxHorizon - 1)
    BY DEF SamplesWereObserved
  <2>1. PICK p \in Int, n \in Int : TiledBy(p, n)
    BY StatesAre
  <2>2. /\ HistoryDepth \in Nat \ {0} /\ MaxHorizon \in Nat \ {0}
        /\ RolloutDepth \in Nat /\ RolloutDepth >= 2
    <3>1. Len(Lags) \in 1..(RolloutDepth - 1) /\ RolloutDepth \in Nat
          /\ MaxHorizon \in Nat \ {0} /\ HistoryDepth \in Nat \ {0}
      BY TrainingAssumption
    <3> QED BY <3>1
  <2>3. Targets(Transitions(networkStates)) = Expected(HistoryDepth, 0)
    <3> DEFINE length == HistoryDepth + 1
               U == UsableAt(networkStates, length, AllFeatures)
               samples == Transitions(networkStates)
    <3>1. length \in Nat \ {0} /\ length = HistoryDepth + 0 + 1 /\ length >= 2
          /\ 0 \in Nat /\ HistoryDepth \in Nat /\ HistoryDepth \in Int
      BY <2>2
    <3>2. /\ DOMAIN samples = DOMAIN InOrder(U)
          /\ \A j \in DOMAIN samples : samples[j].target = networkStates[InOrder(U)[j] + HistoryDepth].from
      BY DEF Transitions
    <3> HIDE DEF length, samples
    <3>3. /\ U \in SUBSET Int /\ IsFiniteSet(U)
          /\ \A i \in U : i \in 1..n /\ i + length - 1 \in 1..n
      BY <2>1, <3>1, UsableAtIs
    <3>4. Expected(HistoryDepth, 0) = {At(p, i + HistoryDepth) : i \in U}
      BY <2>1, <3>1, ExpectedIs
    <3> HIDE DEF U
    <3>5. \A i \in U : i + HistoryDepth \in 1..n
      <4>1. \A i \in U : i \in Int /\ i + length - 1 = i + HistoryDepth
        BY <3>1, <3>3
      <4> QED BY <3>3, <4>1
    <3>6. Targets(samples) = {At(p, i + HistoryDepth) : i \in U}
      BY <2>1, <3>1, <3>2, <3>3, <3>5, TargetsAre
    <3> QED BY <3>4, <3>6 DEF samples
  <2>4. Targets(MultiStepSamples(networkStates)) = Expected(RolloutDepth, MaxHorizon - 1)
    <3> DEFINE length == RolloutDepth + MaxHorizon
               U == UsableAt(networkStates, length, AllFeatures)
               samples == MultiStepSamples(networkStates)
    <3>1. length \in Nat \ {0} /\ length = RolloutDepth + (MaxHorizon - 1) + 1 /\ length >= 2
          /\ MaxHorizon - 1 \in Nat /\ RolloutDepth \in Nat /\ RolloutDepth \in Int
      BY <2>2
    <3>2. /\ DOMAIN samples = DOMAIN InOrder(U)
          /\ \A j \in DOMAIN samples : samples[j].target = networkStates[InOrder(U)[j] + RolloutDepth].from
      BY DEF MultiStepSamples
    <3> HIDE DEF length, samples
    <3>3. /\ U \in SUBSET Int /\ IsFiniteSet(U)
          /\ \A i \in U : i \in 1..n /\ i + length - 1 \in 1..n
      BY <2>1, <3>1, UsableAtIs
    <3>4. Expected(RolloutDepth, MaxHorizon - 1) = {At(p, i + RolloutDepth) : i \in U}
      BY <2>1, <3>1, ExpectedIs
    <3> HIDE DEF U
    <3>5. \A i \in U : i + RolloutDepth \in 1..n
      <4>1. \A i \in U : i \in Int /\ i \in 1..n /\ i + length - 1 \in 1..n
        BY <3>3
      <4>2. n \in Nat
        BY <2>1 DEF TiledBy
      <4> QED BY <2>2, <3>1, <4>1, <4>2
    <3>6. RolloutDepth \in Int /\ U \in SUBSET Int /\ IsFiniteSet(U)
      BY <3>1, <3>3
    <3>7. Targets(samples) = {At(p, i + RolloutDepth) : i \in U}
      BY <2>1, <3>2, <3>5, <3>6, TargetsAre, SMTT(60)
    <3> QED BY <3>4, <3>7, Zenon DEF samples
  <2> QED BY <2>3, <2>4
<1> QED BY <1>1, IngestInvariant, PTL
=============================================================================
