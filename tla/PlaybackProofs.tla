---------------------------- MODULE PlaybackProofs ----------------------------
(***************************************************************************)
(* Proofs about the runtime's session: its two writers, the demo adapter   *)
(* and the live controller, its readers, and the stream that is fed by the  *)
(* adapter; for any number of sessions, steps and speeds, any history size, *)
(* and any number of requests and lost connections.                        *)
(***************************************************************************)
EXTENDS LiveCapture, EventStream, FiniteSetTheorems, SequenceTheorems, TLAPS

LEMMA MinOfTwo ==
  ASSUME NEW a \in Int, NEW b \in Int
  PROVE  Min({a, b}) = IF a <= b THEN a ELSE b
<1> DEFINE m == IF a <= b THEN a ELSE b
<1>1. m \in {a, b} /\ \A y \in {a, b} : m <= y
  OBVIOUS
<1>2. \A x \in {a, b} : (\A y \in {a, b} : x <= y) => x = m
  OBVIOUS
<1> HIDE DEF m
<1> QED BY <1>1, <1>2 DEF Min, m

(* Every set of ids has a least one.                                        *)
LEMMA MinIsMember ==
  ASSUME NEW T \in SUBSET Nat, T # {}
  PROVE  Min(T) \in T
<1> DEFINE R == {ss \in Nat \X Nat : ss[1] < ss[2]}
<1>1. IsWellFoundedOn(R, Nat)
  BY NatLessThanWellFounded DEF OpToRel
<1>2. PICK x \in T : \A y \in T : ~(<<y, x>> \in R)
  <2> HIDE DEF R
  <2> QED BY <1>1, WFMin
<1>3. \A y \in T : x <= y
  <2> SUFFICES ASSUME NEW y \in T, ~(x <= y) PROVE FALSE
    OBVIOUS
  <2>1. x \in Nat /\ y \in Nat /\ y < x
    OBVIOUS
  <2>2. <<y, x>> \in R
    BY <2>1
  <2> QED BY <1>2, <2>2
<1> QED BY <1>3 DEF Min

-----------------------------------------------------------------------------
(* The store.                                                              *)

(* A recorded event continues the history: the last events that fit, in      *)
(* order and without a gap.                                                 *)
LEMMA RecordContinues ==
  ASSUME StoreTypeOK, HistoryContiguous, NEW e \in DemoEvent, NEW s, Record(e, s)
  PROVE  /\ history' \in Seq(DemoEvent) /\ Len(history') <= MaxHistory
         /\ HistoryContiguous'
         /\ \A k \in DOMAIN history' :
              history'[k].run = e.run \/ \E j \in DOMAIN history : history'[k].run = history[j].run
<1> DEFINE n == Len(history)
           h == Append(history, e)
           m == Min({n + 1, MaxHistory})
<1>1. /\ n \in Nat /\ step \in Int /\ MaxHistory \in Nat \ {0} /\ step + 1 >= 0
      /\ history \in Seq(DemoEvent) /\ DOMAIN history = 1..n
  BY StoreAssumption, LenProperties DEF StoreTypeOK
<1>2. n = IF step + 1 <= MaxHistory THEN step + 1 ELSE MaxHistory
  BY <1>1, MinOfTwo DEF HistoryContiguous
<1>3. m = IF n + 1 <= MaxHistory THEN n + 1 ELSE MaxHistory
  BY <1>1, MinOfTwo
<1>4. e.index = step + 1 /\ step' = step + 1
  BY DEF Record, Refused
<1>5. h \in Seq(DemoEvent) /\ Len(h) = n + 1 /\ h[n + 1] = e /\ \A j \in 1..n : h[j] = history[j]
  BY <1>1
<1>6. \A j \in 1..(n + 1) : h[j] \in DemoEvent /\ h[j].index = step - n + j
                           /\ (h[j].run = e.run \/ \E i \in 1..n : h[j].run = history[i].run)
  <2> SUFFICES ASSUME NEW j \in 1..(n + 1)
               PROVE  h[j] \in DemoEvent /\ h[j].index = step - n + j
                      /\ (h[j].run = e.run \/ \E i \in 1..n : h[j].run = history[i].run)
    OBVIOUS
  <2>1. CASE j = n + 1
    BY <1>1, <1>4, <1>5, <2>1
  <2>2. CASE j \in 1..n
    <3>1. history[j] \in DemoEvent /\ history[j].index = step - n + j
      BY <1>1, <2>2, ElementOfSeq DEF HistoryContiguous
    <3> QED BY <1>5, <2>2, <3>1
  <2> QED BY <1>1, <2>1, <2>2
<1>7. history' = SubSeq(h, Len(h) - Min({Len(h), MaxHistory}) + 1, Len(h))
  BY DEF Record, Recent
<1> HIDE DEF h
<1>8. history' = SubSeq(h, (n + 1) - m + 1, n + 1)
  <2>1. Min({Len(h), MaxHistory}) = m
    BY <1>5
  <2> HIDE DEF m
  <2>2. history' = SubSeq(h, Len(h) - m + 1, Len(h))
    BY <1>7, <2>1
  <2>3. Len(h) = n + 1
    BY <1>5
  <2> QED BY <2>2, <2>3
<1>9. m \in Nat /\ m >= 1 /\ m <= n + 1 /\ m <= MaxHistory
  BY <1>1, <1>3
<1> DEFINE a == (n + 1) - m + 1
<1>10. a \in Int /\ a >= 1 /\ a <= n + 1 /\ (n + 1) - a + 1 = m
  BY <1>1, <1>9
<1>11. /\ history' \in Seq(DemoEvent) /\ Len(history') = m
       /\ \A i \in 1..m : history'[i] = h[a + i - 1]
  <2> HIDE DEF m, a
  <2>1. \A i \in a..(n + 1) : h[i] \in DemoEvent
    BY <1>1, <1>6, <1>10
  <2>2. /\ SubSeq(h, a, n + 1) \in Seq(DemoEvent)
        /\ Len(SubSeq(h, a, n + 1)) = IF a <= n + 1 THEN (n + 1) - a + 1 ELSE 0
        /\ \A i \in 1..((n + 1) - a + 1) : SubSeq(h, a, n + 1)[i] = h[a + i - 1]
    BY <1>1, <1>10, <2>1, SubSeqProperties
  <2>3. history' = SubSeq(h, a, n + 1)
    BY <1>8 DEF a
  <2> QED BY <1>10, <2>2, <2>3
<1>12. \A i \in 1..m : a + i - 1 \in 1..(n + 1) /\ step - n + (a + i - 1) = step' - m + i
  <2> HIDE DEF m
  <2> QED BY <1>1, <1>4, <1>9
<1>13. m = Min({step' + 1, MaxHistory})
  <2>1. Min({step' + 1, MaxHistory}) = IF step' + 1 <= MaxHistory THEN step' + 1 ELSE MaxHistory
    BY <1>1, <1>4, MinOfTwo
  <2> HIDE DEF m
  <2> QED BY <1>1, <1>2, <1>3, <1>4, <2>1
<1>14. DOMAIN history' = 1..m
  BY <1>11, LenProperties
<1> HIDE DEF m, a
<1>15. HistoryContiguous'
  <2>1. \A k \in 1..m : history'[k].index = step' - m + k
    BY <1>6, <1>11, <1>12
  <2> QED BY <1>11, <1>13, <1>14, <2>1 DEF HistoryContiguous
<1>16. \A k \in 1..m : history'[k].run = e.run \/ \E j \in 1..n : history'[k].run = history[j].run
  BY <1>6, <1>11, <1>12
<1> QED BY <1>1, <1>9, <1>11, <1>14, <1>15, <1>16

LEMMA EmptyHistory ==
  ASSUME history' = <<>>, step' = -1
  PROVE  history' \in Seq(DemoEvent) /\ Len(history') <= MaxHistory /\ HistoryContiguous'
         /\ DOMAIN history' = {}
<1>1. Min({0, MaxHistory}) = 0
  BY StoreAssumption, MinOfTwo
<1>2. Len(<<>>) = 0 /\ DOMAIN <<>> = {} /\ -1 + 1 = 0
  OBVIOUS
<1> QED BY <1>1, <1>2, StoreAssumption DEF HistoryContiguous

-----------------------------------------------------------------------------
(* The demo adapter.                                                       *)

(* The generator is at the event after the current step, of a scenario as    *)
(* long as the session is told.                                             *)
GeneratorFits ==
  /\ generator = None => status = "IDLE"
  /\ generator # None =>
       /\ status # "IDLE" /\ session # None
       /\ generator.next = step + 1 /\ generator.total = total /\ generator.next <= total

SessionInv == StoreTypeOK /\ OwnEvents /\ HistoryContiguous /\ CompletedIsPlayed /\ GeneratorFits

DemoInv == SessionInv /\ DemoTypeOK /\ TimerFitsStatus

(* A worker replaced: only the new one is alive, and the adapter has it.     *)
LEMMA TimerReplaced ==
  ASSUME DemoInv, NEW s \in Nat, StartTimer(s)
  PROVE  /\ timer' \in TimerId \union {None} /\ timers' \subseteq TimerId
         /\ timers' \subseteq {timer'}
         /\ s > 0 => timers' # {}
         /\ s = 0 => timers' = {}
<1>1. timers \ {timer} = {}
  BY DEF DemoInv, TimerFitsStatus
<1>2. Min(TimerId \ {}) \in TimerId
  <2>1. TimerId \ {} = {1, 2}
    BY DEF TimerId
  <2> QED BY <2>1, MinOfTwo
<1>3. CASE s > 0
  BY <1>1, <1>2, <1>3 DEF StartTimer, StartTimerFrom
<1>4. CASE ~(s > 0)
  BY <1>1, <1>4 DEF StartTimer, StartTimerFrom
<1> QED BY <1>3, <1>4

LEMMA StartKeeps ==
  ASSUME DemoInv, NEW n \in 1..MaxSteps, NEW s \in Nat, Start(n, s)
  PROVE  DemoInv'
<1>1. s \in Nat
  OBVIOUS
<1>2. /\ sessions' = sessions + 1 /\ session' = sessions' /\ status' = "RUNNING" /\ step' = -1
      /\ total' = n /\ history' = <<>> /\ mode' = "DEMO" /\ sessions < MaxSessions
      /\ speed' = s /\ StartTimer(s)
      /\ generator' = [run |-> sessions', next |-> 0, total |-> n, failed |-> FALSE]
  BY DEF Start, CreateSession
<1>3. sessions' \in SessionId /\ sessions' \in 0..MaxSessions /\ sessions' # None
  BY <1>2, StoreAssumption DEF DemoInv, SessionInv, StoreTypeOK, SessionId
<1>4. StoreTypeOK'
  BY <1>2, <1>3, EmptyHistory, StoreAssumption DEF StoreTypeOK, Mode, DemoStatus
<1>5. generator' \in Generator /\ generator'.run = session' /\ generator'.next = 0
      /\ generator'.total = n /\ ~generator'.failed
  BY <1>2, <1>3, StoreAssumption DEF Generator
<1>6. SessionInv'
  <2>1. DOMAIN history' = {} /\ HistoryContiguous'
    BY <1>2, EmptyHistory
  <2>2. OwnEvents' /\ CompletedIsPlayed'
    BY <1>2, <1>5, <2>1 DEF OwnEvents, CompletedIsPlayed
  <2>3. generator' # None /\ step' + 1 = 0 /\ 0 <= n
    <3>1. generator' # None
      BY <1>5, DemoAssumption
    <3>2. step' + 1 = 0
      BY <1>2
    <3>3. 0 <= n
      BY StoreAssumption
    <3> QED BY <3>1, <3>2, <3>3
  <2>4. GeneratorFits'
    BY <1>2, <1>3, <1>5, <2>3 DEF GeneratorFits
  <2> QED BY <1>4, <2>1, <2>2, <2>4 DEF SessionInv
<1>7. DemoTypeOK' /\ TimerFitsStatus'
  BY <1>1, <1>2, <1>5, TimerReplaced DEF DemoTypeOK, TimerFitsStatus
<1> QED BY <1>6, <1>7 DEF DemoInv

(* Another status than COMPLETED or IDLE for a session that is not IDLE.     *)
LEMMA StatusKeeps ==
  ASSUME SessionInv, NEW s \in {"RUNNING", "PAUSED"}, SetStatus(s), status # "IDLE",
         generator' = generator
  PROVE  SessionInv'
BY DEF SetStatus, SessionInv, StoreTypeOK, DemoStatus, OwnEvents, HistoryContiguous,
       CompletedIsPlayed, GeneratorFits

LEMMA SessionStays ==
  ASSUME SessionInv, UNCHANGED storeVars, generator' = generator
  PROVE  SessionInv'
BY DEF storeVars, SessionInv, StoreTypeOK, OwnEvents, HistoryContiguous, CompletedIsPlayed,
       GeneratorFits

LEMMA ControlKeeps ==
  ASSUME DemoInv,
         Pause \/ Resume \/ Reset \/ (\E s \in Speeds : SetSpeed(s))
  PROVE  DemoInv'
<1>1. CASE Pause
  <2>1. SessionInv'
    BY <1>1, StatusKeeps DEF Pause, DemoInv
  <2>2. timers' = {} /\ timer' = None /\ status' = "PAUSED" /\ UNCHANGED <<speed, generator>>
    BY <1>1 DEF Pause, StopTimer, SetStatus, DemoInv, TimerFitsStatus
  <2> QED BY <2>1, <2>2 DEF DemoInv, DemoTypeOK, TimerFitsStatus
<1>2. CASE Resume
  <2>1. SessionInv'
    BY <1>2, StatusKeeps DEF Resume, DemoInv
  <2>2. status' = "RUNNING" /\ UNCHANGED <<speed, generator>> /\ speed \in Nat /\ timers = {}
    BY <1>2 DEF Resume, SetStatus, DemoInv, DemoTypeOK, TimerFitsStatus
  <2>3. CASE speed > 0
    <3>1. StartTimer(speed)
      BY <1>2, <2>3 DEF Resume
    <3> QED BY <2>1, <2>2, <2>3, <3>1, TimerReplaced DEF DemoInv, DemoTypeOK, TimerFitsStatus
  <2>4. CASE ~(speed > 0)
    <3>1. UNCHANGED <<timer, timers>>
      BY <1>2, <2>4 DEF Resume
    <3> QED BY <2>1, <2>2, <2>4, <3>1 DEF DemoInv, DemoTypeOK, TimerFitsStatus
  <2> QED BY <2>3, <2>4
<1>3. CASE Reset
  <2>1. /\ session' = None /\ mode' = "DEMO" /\ status' = "IDLE" /\ step' = -1 /\ total' = 0
        /\ history' = <<>> /\ sessions' = sessions /\ generator' = None /\ speed' = speed
        /\ timers' = {} /\ timer' = None
    BY <1>3 DEF Reset, ResetStore, StopTimer, DemoInv, TimerFitsStatus
  <2>2. StoreTypeOK'
    BY <2>1, EmptyHistory, StoreAssumption DEF StoreTypeOK, DemoInv, SessionInv, Mode, DemoStatus
  <2>3. SessionInv'
    BY <2>1, <2>2, EmptyHistory DEF SessionInv, OwnEvents, CompletedIsPlayed, GeneratorFits
  <2> QED BY <2>1, <2>3 DEF DemoInv, DemoTypeOK, TimerFitsStatus
<1>4. ASSUME NEW s \in Speeds, SetSpeed(s) PROVE DemoInv'
  <2>1. s \in Nat /\ speed' = s /\ UNCHANGED storeVars /\ generator' = generator /\ status' = status
    BY <1>4, DemoAssumption DEF SetSpeed, storeVars
  <2>2. SessionInv'
    BY <2>1, SessionStays DEF DemoInv
  <2>3. CASE status = "RUNNING"
    <3>1. StartTimer(s)
      BY <1>4, <2>3 DEF SetSpeed
    <3> QED BY <2>1, <2>2, <2>3, <3>1, TimerReplaced DEF DemoInv, DemoTypeOK, TimerFitsStatus
  <2>4. CASE status # "RUNNING"
    <3>1. UNCHANGED <<timer, timers>> /\ timers = {}
      BY <1>4, <2>4 DEF SetSpeed, DemoInv, TimerFitsStatus
    <3> QED BY <2>1, <2>2, <2>4, <3>1 DEF DemoInv, DemoTypeOK, TimerFitsStatus
  <2> QED BY <2>3, <2>4
<1> QED BY <1>1, <1>2, <1>3, <1>4

(* One step(), by hand or by the timer: the event it appends is the next one *)
(* of the session's own run, and the store never refuses it.                *)
LEMMA StepKeeps ==
  ASSUME DemoInv, NEW left \in SUBSET timers, Step(left),
         left = timers \/ status = "RUNNING"
  PROVE  DemoInv'
<1>1. /\ status \in {"RUNNING", "PAUSED"} /\ generator # None /\ generator \in Generator
      /\ generator.run = session /\ session # None /\ session \in SessionId
      /\ generator.next = step + 1 /\ generator.total = total /\ generator.next <= total
      /\ speed' = speed /\ speed \in Nat
      /\ step \in Int /\ total \in Nat /\ total <= MaxSteps /\ MaxSteps \in Nat
  BY StoreAssumption
     DEF Step, DemoInv, SessionInv, StoreTypeOK, DemoTypeOK, GeneratorFits, OwnEvents
<1>2. CASE Closed(generator) /\ Exhausted(left)
  <2>1. /\ status' = "COMPLETED" /\ timer' = None /\ timers' = {} /\ generator' = generator
        /\ UNCHANGED <<session, sessions, mode, step, total, history>>
    BY <1>2 DEF Exhausted, SetStatus, DemoInv, TimerFitsStatus
  <2>2. generator.failed \/ step = total - 1
    BY <1>1, <1>2 DEF Closed
  <2>3. SessionInv'
    BY <1>1, <2>1, <2>2 DEF DemoInv, SessionInv, StoreTypeOK, DemoStatus, OwnEvents,
       HistoryContiguous, CompletedIsPlayed, GeneratorFits
  <2> QED BY <1>1, <2>1, <2>3 DEF DemoInv, DemoTypeOK, TimerFitsStatus
<1>3. CASE ~Closed(generator) /\ Advance(left)
  <2> DEFINE e == [run |-> generator.run, index |-> generator.next]
  <2>1. /\ generator' = [generator EXCEPT !.next = @ + 1] /\ AppendEvent(e)
        /\ IF step' >= total - 1
           THEN timer' = None /\ timers' = left \ {timer}
           ELSE UNCHANGED timer /\ timers' = timers
    BY <1>3 DEF Advance
  <2>2. ~generator.failed /\ generator.next < total /\ generator.next \in Nat
    <3>1. generator.next \in Nat
      BY <1>1 DEF Generator
    <3>2. ~generator.failed /\ generator.next # total
      BY <1>1, <1>3 DEF Closed
    <3> QED BY <1>1, <3>1, <3>2
  <2>3. e \in DemoEvent /\ e.run = session /\ e.index = step + 1
    BY <1>1, <2>2 DEF DemoEvent
  <2> HIDE DEF e
  <2>4. /\ Record(e, After(e)) /\ step' = step + 1
        /\ status' = IF step' >= total - 1 THEN "COMPLETED" ELSE status
        /\ UNCHANGED <<session, sessions, mode, total>>
    BY <2>1, <2>3 DEF AppendEvent, Record, After
  <2>5. /\ history' \in Seq(DemoEvent) /\ Len(history') <= MaxHistory /\ HistoryContiguous'
        /\ \A k \in DOMAIN history' :
             history'[k].run = e.run \/ \E j \in DOMAIN history : history'[k].run = history[j].run
    BY <2>3, <2>4, RecordContinues DEF DemoInv, SessionInv
  <2>6. /\ generator' \in Generator /\ generator'.run = generator.run
        /\ generator'.total = generator.total /\ generator'.next = step' + 1
        /\ generator'.failed = generator.failed /\ generator' # None
    <3>1. /\ generator' \in Generator /\ generator'.run = generator.run
          /\ generator'.total = generator.total /\ generator'.next = generator.next + 1
          /\ generator'.failed = generator.failed
      BY <1>1, <2>1, <2>2 DEF Generator
    <3>2. generator'.run = session /\ generator.run = session
      BY <1>1, <3>1
    <3>3. generator' # None
      BY <3>1, DemoAssumption
    <3> QED BY <1>1, <2>4, <3>1, <3>3
  <2>7. step' \in -1..(MaxSteps - 1) /\ status' \in DemoStatus
    BY <1>1, <2>2, <2>4 DEF DemoStatus
  <2>8. StoreTypeOK'
    BY <2>4, <2>5, <2>7 DEF StoreTypeOK, DemoInv, SessionInv
  <2>9. OwnEvents'
    BY <1>1, <2>3, <2>4, <2>5, <2>6 DEF OwnEvents, DemoInv, SessionInv
  <2>10. CompletedIsPlayed' /\ GeneratorFits'
    <3>1. step' <= total - 1 /\ step' + 1 <= total
      BY <1>1, <2>2, <2>4
    <3> QED BY <1>1, <2>4, <2>6, <3>1 DEF CompletedIsPlayed, GeneratorFits
  <2>11. DemoTypeOK' /\ TimerFitsStatus'
    <3>1. CASE step' >= total - 1
      <4>1. timers' = {} /\ timer' = None /\ status' = "COMPLETED"
        BY <2>1, <2>4, <3>1 DEF DemoInv, TimerFitsStatus
      <4> QED BY <1>1, <2>6, <4>1 DEF DemoTypeOK, TimerFitsStatus
    <3>2. CASE ~(step' >= total - 1)
      <4>1. timers' = timers /\ timer' = timer /\ status' = status
        BY <2>1, <2>4, <3>2
      <4> QED BY <1>1, <2>6, <4>1 DEF DemoInv, DemoTypeOK, TimerFitsStatus
    <3> QED BY <3>1, <3>2
  <2> QED BY <2>5, <2>8, <2>9, <2>10, <2>11 DEF DemoInv, SessionInv
<1>4. CASE AdvanceRefused(left)
  BY <1>1, <1>4 DEF AdvanceRefused, Refused
<1>5. CASE EngineFails(left)
  <2>1. /\ generator' \in Generator /\ generator'.run = generator.run
        /\ generator'.total = generator.total /\ generator'.next = generator.next
        /\ generator'.failed
    BY <1>1, <1>5 DEF EngineFails, Generator
  <2>2. generator' # None
    BY <2>1, DemoAssumption
  <2>3. timers' = left /\ UNCHANGED storeVars /\ timer' = timer
    BY <1>5 DEF EngineFails
  <2>4. UNCHANGED <<session, sessions, mode, status, step, total, history>>
    BY <2>3 DEF storeVars
  <2>5. SessionInv'
    BY <1>1, <2>1, <2>2, <2>4 DEF DemoInv, SessionInv, StoreTypeOK, OwnEvents, HistoryContiguous,
       CompletedIsPlayed, GeneratorFits
  <2>6. DemoTypeOK' /\ TimerFitsStatus'
    BY <1>1, <2>1, <2>3, <2>4 DEF DemoInv, DemoTypeOK, TimerFitsStatus
  <2> QED BY <2>5, <2>6 DEF DemoInv
<1> QED BY <1>2, <1>3, <1>4, <1>5 DEF Step

LEMMA DemoStep ==
  ASSUME DemoInv, [Next]_vars PROVE DemoInv'
<1>1. CASE \E n \in 1..MaxSteps, s \in Speeds : Start(n, s)
  BY <1>1, StartKeeps, DemoAssumption
<1>2. CASE Pause \/ Resume \/ Reset \/ \E s \in Speeds : SetSpeed(s)
  BY <1>2, ControlKeeps
<1>3. CASE StepByHand
  BY <1>3, StepKeeps DEF StepByHand
<1>4. ASSUME NEW t \in TimerId, TimerStep(t) PROVE DemoInv'
  <2>1. t \in timers /\ timers # {} /\ status = "RUNNING" /\ generator # None
    BY <1>4 DEF TimerStep, DemoInv, TimerFitsStatus, SessionInv, GeneratorFits
  <2>2. Step(timers \ {t})
    BY <1>4, <2>1 DEF TimerStep
  <2> QED BY <2>1, <2>2, StepKeeps
<1>5. CASE UNCHANGED vars
  <2>1. SessionInv'
    BY <1>5, SessionStays DEF vars, demoVars, DemoInv
  <2> QED BY <1>5, <2>1 DEF vars, demoVars, storeVars, DemoInv, DemoTypeOK, TimerFitsStatus
<1> QED BY <1>1, <1>2, <1>3, <1>4, <1>5 DEF Next

LEMMA DemoInit == Init => DemoInv
<1> SUFFICES ASSUME Init PROVE DemoInv
  OBVIOUS
<1>1. /\ session = None /\ sessions = 0 /\ mode = "DEMO" /\ status = "IDLE" /\ step = -1
      /\ total = 0 /\ history = <<>> /\ speed = 1 /\ generator = None /\ timer = None
      /\ timers = {}
  BY DEF Init, InitStore, InitDemo
<1>2. Min({0, MaxHistory}) = 0 /\ Len(<<>>) = 0 /\ -1 + 1 = 0
  BY StoreAssumption, MinOfTwo
<1>3. history \in Seq(DemoEvent) /\ DOMAIN history = {}
  BY <1>1
<1>4. StoreTypeOK
  BY <1>1, <1>2, <1>3, StoreAssumption DEF StoreTypeOK, Mode, DemoStatus
<1>5. SessionInv
  BY <1>1, <1>2, <1>3, <1>4
     DEF SessionInv, OwnEvents, HistoryContiguous, CompletedIsPlayed, GeneratorFits
<1> QED BY <1>1, <1>5 DEF DemoInv, DemoTypeOK, TimerFitsStatus

LEMMA DemoInvariance == Spec => []DemoInv
BY DemoInit, DemoStep, PTL DEF Spec

(* However start, pause, resume and speed calls race, one timer task at most *)
(* is alive, it can be cancelled, and it is there exactly while the session  *)
(* shows as playing by itself.                                              *)
THEOREM OneTimerPlays == Spec => []TimerFitsStatus
BY DemoInvariance, PTL DEF DemoInv

-----------------------------------------------------------------------------
(* What is read of the session.                                            *)

LEMMA FunctionIsSeq ==
  ASSUME NEW S, NEW n \in Nat, NEW f \in [1..n -> S]
  PROVE  f \in Seq(S) /\ Len(f) = n
<1>1. f \in Seq(S)
  BY SeqDef
<1>2. DOMAIN f = 1..n /\ DOMAIN f = 1..Len(f) /\ Len(f) \in Nat
  BY <1>1, LenProperties
<1> QED BY <1>1, <1>2

(* The end of a history, selected by position, is a piece of it.             *)
LEMMA SelectedEnd ==
  ASSUME NEW s, NEW n \in Nat, NEW a \in 1..(n + 1)
  PROVE  Selected(s, a..n) = [j \in 1..((n - a) + 1) |-> s[(a + j) - 1]]
<1> DEFINE At(j) == CHOOSE k \in a..n : Cardinality({i \in a..n : i <= k}) = j
<1>1. Cardinality(a..n) = (n - a) + 1
  <2>1. a \in Int /\ n \in Int /\ (a > n => (n - a) + 1 = 0)
    OBVIOUS
  <2> QED BY <2>1, FS_Interval
<1>2. ASSUME NEW j \in 1..((n - a) + 1)
      PROVE  At(j) = (a + j) - 1
  <2>1. ASSUME NEW k \in a..n PROVE Cardinality({i \in a..n : i <= k}) = (k - a) + 1
    <3>1. {i \in a..n : i <= k} = a..k
      OBVIOUS
    <3>2. Cardinality(a..k) = (k - a) + 1
      BY FS_Interval
    <3> QED BY <3>1, <3>2
  <2>2. (a + j) - 1 \in a..n /\ (((a + j) - 1) - a) + 1 = j
    OBVIOUS
  <2>3. \A k \in a..n : (k - a) + 1 = j <=> k = (a + j) - 1
    OBVIOUS
  <2>4. \A k \in a..n : Cardinality({i \in a..n : i <= k}) = j <=> k = (a + j) - 1
    BY <2>1, <2>3
  <2> QED BY <2>2, <2>4
<1>3. Selected(s, a..n) = [j \in 1..Cardinality(a..n) |-> s[At(j)]]
  BY DEF Selected
<1> HIDE DEF At
<1> QED BY <1>1, <1>2, <1>3

(* A contiguous history ends at the current step, whose event is the current *)
(* one, and an event is found exactly while it is kept.                      *)
LEMMA HistoryIsIndexed ==
  ASSUME StoreTypeOK, HistoryContiguous
  PROVE  /\ Len(history) \in Nat /\ DOMAIN history = 1..Len(history) /\ step \in Int
         /\ Len(history) = 0 <=> step = -1
         /\ \A k \in 1..Len(history) : /\ history[k] \in DemoEvent
                                       /\ history[k].index = (step - Len(history)) + k
         /\ CurrentEvent = IF Len(history) = 0 THEN None ELSE history[Len(history)]
<1>1. /\ Len(history) \in Nat /\ DOMAIN history = 1..Len(history) /\ step \in Int
      /\ step >= -1 /\ MaxHistory \in Nat \ {0}
  BY StoreAssumption, LenProperties DEF StoreTypeOK
<1>2. Len(history) = IF step + 1 <= MaxHistory THEN step + 1 ELSE MaxHistory
  BY <1>1, MinOfTwo DEF HistoryContiguous
<1>3. \A k \in 1..Len(history) : history[k] \in DemoEvent
  BY ElementOfSeq DEF StoreTypeOK
<1>4. history = <<>> <=> Len(history) = 0
  BY EmptySeq DEF StoreTypeOK
<1>5. CurrentEvent = IF Len(history) = 0 THEN None ELSE history[Len(history)]
  BY <1>4 DEF CurrentEvent, Last
<1>6. Len(history) = 0 <=> step = -1
  BY <1>1, <1>2
<1>7. \A k \in 1..Len(history) : history[k].index = (step - Len(history)) + k
  BY <1>1 DEF HistoryContiguous
<1> QED BY <1>1, <1>3, <1>5, <1>6, <1>7

LEMMA EventIsFound ==
  ASSUME StoreTypeOK, HistoryContiguous, NEW i \in Int
  PROVE  /\ GetEvent(i) # None <=> i <= step /\ i > step - Len(history)
         /\ GetEvent(i) # None => GetEvent(i) = history[Len(history) - (step - i)]
<1> DEFINE n == Len(history)
           p == n - (step - i)
           found == {k \in DOMAIN history : history[k].index = i}
<1>1. /\ n \in Nat /\ DOMAIN history = 1..n /\ step \in Int
      /\ \A k \in 1..n : history[k] \in DemoEvent /\ history[k].index = (step - n) + k
  BY HistoryIsIndexed
<1>2. p \in 1..n <=> i <= step /\ i > step - n
  BY <1>1
<1>3. \A k \in 1..n : history[k].index = i <=> k = p
  <2> HIDE DEF n
  <2> QED BY <1>1
<1>4. CASE p \in 1..n
  <2>1. found = {p}
    <3> HIDE DEF p, n
    <3> QED BY <1>1, <1>3, <1>4
  <2>2. Min({p}) = p
    <3>1. p \in Int /\ {p} = {p, p}
      BY <1>1
    <3> HIDE DEF p
    <3> QED BY <3>1, MinOfTwo
  <2> HIDE DEF p
  <2>3. GetEvent(i) = history[p]
    BY <2>1, <2>2 DEF GetEvent
  <2>4. history[p] # None
    BY <1>1, <1>4, StoreAssumption
  <2> QED BY <1>2, <1>4, <2>3, <2>4 DEF p
<1>5. CASE p \notin 1..n
  <2>1. found = {}
    <3> HIDE DEF p, n
    <3> QED BY <1>1, <1>3, <1>5
  <2>2. GetEvent(i) = None
    BY <2>1 DEF GetEvent
  <2> QED BY <1>2, <1>5, <2>2
<1> QED BY <1>4, <1>5

(* What is kept from a step on is the end of the history.                    *)
LEMMA KeptIsTheEnd ==
  ASSUME StoreTypeOK, HistoryContiguous, NEW since \in Int \union {None}
  PROVE  \E a \in 1..(Len(history) + 1) :
           /\ {k \in DOMAIN history : since = None \/ history[k].index >= since} = a..Len(history)
           /\ since = None => a = 1
<1> DEFINE n == Len(history)
           kept == {k \in DOMAIN history : since = None \/ history[k].index >= since}
<1>1. /\ n \in Nat /\ DOMAIN history = 1..n /\ step \in Int
      /\ \A k \in 1..n : history[k].index = (step - n) + k
  BY HistoryIsIndexed
<1>2. CASE since = None
  <2>1. kept = 1..n /\ 1 \in 1..(n + 1)
    BY <1>1, <1>2
  <2> QED BY <2>1
<1>3. CASE since # None
  <2> DEFINE b == since - (step - n)
             a == IF b <= 1 THEN 1 ELSE IF b <= n THEN b ELSE n + 1
  <2>1. since \in Int /\ b \in Int
    BY <1>1, <1>3
  <2>2. kept = {k \in 1..n : (step - n) + k >= since}
    <3> HIDE DEF n
    <3> QED BY <1>1, <1>3
  <2>3. {k \in 1..n : (step - n) + k >= since} = a..n /\ a \in 1..(n + 1)
    <3> HIDE DEF n
    <3> QED BY <1>1, <2>1
  <2> HIDE DEF a
  <2> QED BY <1>3, <2>2, <2>3
<1> QED BY <1>2, <1>3

(* A page of the history is the end of what is kept from a step on.          *)
LEMMA PageOfHistory ==
  ASSUME StoreTypeOK, HistoryContiguous, NEW since \in Nat \union {None}, NEW limit \in 1..500
  PROVE  PageIsTheEnd(since, limit)
<1> DEFINE n == Len(history)
           page == EventHistoryResponse(since, limit).events
<1>1. /\ n \in Nat /\ DOMAIN history = 1..n /\ step \in Int
      /\ \A k \in 1..n : history[k] \in DemoEvent /\ history[k].index = (step - n) + k
      /\ CurrentEvent = IF n = 0 THEN None ELSE history[n]
  BY HistoryIsIndexed
<1>2. PICK a \in 1..(n + 1) :
        {k \in DOMAIN history : since = None \/ history[k].index >= since} = a..n
  <2>1. since \in Int \union {None}
    OBVIOUS
  <2> QED BY <2>1, KeptIsTheEnd
<1> DEFINE c == (n - a) + 1
           events == [j \in 1..c |-> history[(a + j) - 1]]
           m == IF limit <= c THEN limit ELSE c
<1>3. c \in Nat /\ m \in Nat /\ m <= c /\ m <= limit /\ (m < limit => m = c)
      /\ (m = 0 => c = 0)
  <2> HIDE DEF n
  <2> QED BY <1>1, <1>2
<1>4. EventsSince(since) = events
  <2>1. EventsSince(since) = Selected(history, a..n)
    BY <1>2 DEF EventsSince
  <2> HIDE DEF n
  <2> QED BY <1>1, <2>1, SelectedEnd
<1>5. \A j \in 1..c : events[j] = history[(a + j) - 1] /\ events[j] \in DemoEvent
  <2>1. \A j \in 1..c : (a + j) - 1 \in 1..n
    <3> HIDE DEF n
    <3> QED BY <1>1, <1>2
  <2> HIDE DEF c, n
  <2> QED BY <1>1, <2>1
<1>6. events \in Seq(DemoEvent) /\ Len(events) = c
  <2> HIDE DEF c
  <2>1. events \in [1..c -> DemoEvent]
    BY <1>5
  <2> HIDE DEF events
  <2> QED BY <1>3, <2>1, FunctionIsSeq
<1>7. page = SubSeq(events, (c - m) + 1, c)
  <2>1. EventHistoryResponse(since, limit) =
          [session |-> session, events |-> GetEventHistory(limit, since)]
    BY StoreAssumption DEF EventHistoryResponse
  <2>2. GetEventHistory(limit, since) = LastOf(events, limit)
    <3>1. limit # None
      BY StoreAssumption
    <3> HIDE DEF events
    <3> QED BY <1>4, <3>1 DEF GetEventHistory
  <2>3. Min({limit, Len(events)}) = m
    <3> HIDE DEF events, c
    <3>1. Min({limit, c}) = IF limit <= c THEN limit ELSE c
      BY <1>3, MinOfTwo
    <3> QED BY <1>6, <3>1
  <2>4. LastOf(events, limit) = SubSeq(events, (c - m) + 1, c)
    <3> HIDE DEF events, c, m
    <3> QED BY <1>6, <2>3 DEF LastOf
  <2>5. page = GetEventHistory(limit, since)
    BY <2>1
  <2> HIDE DEF events, c, m, page
  <2> QED BY <2>2, <2>4, <2>5
<1>8. /\ page \in Seq(DemoEvent) /\ Len(page) = m
      /\ \A j \in 1..m : page[j] = events[(c - m) + j]
  <2> HIDE DEF events, c, m, page
  <2>1. (c - m) + 1 \in 1..(c + 1) /\ (c - ((c - m) + 1)) + 1 = m
        /\ ((c - m) + 1 > c => m = 0)
    BY <1>3
  <2>2. /\ SubSeq(events, (c - m) + 1, c) \in Seq(DemoEvent)
        /\ Len(SubSeq(events, (c - m) + 1, c)) =
             IF (c - m) + 1 <= c THEN (c - ((c - m) + 1)) + 1 ELSE 0
        /\ \A j \in 1..((c - ((c - m) + 1)) + 1) :
             SubSeq(events, (c - m) + 1, c)[j] = events[(((c - m) + 1) + j) - 1]
    <3>1. (c - m) + 1 \in Int /\ c \in Int
      BY <1>3
    <3>2. \A j \in ((c - m) + 1)..c : events[j] \in DemoEvent
      <4>1. \A j \in ((c - m) + 1)..c : j \in 1..c
        BY <1>3
      <4> QED BY <4>1, <1>5, <1>6
    <3>3. events \in Seq(DemoEvent)
      BY <1>6
    <3> QED BY <3>1, <3>2, <3>3, SubSeqProperties
  <2>3. \A j \in 1..m : (((c - m) + 1) + j) - 1 = (c - m) + j
    BY <1>3
  <2> QED BY <1>3, <1>7, <2>1, <2>2, <2>3
<1>9. \A j \in 1..m : /\ page[j] = history[(n - m) + j] /\ (n - m) + j \in a..n
                      /\ page[j].index = (step - m) + j
  <2> SUFFICES ASSUME NEW j \in 1..m
               PROVE  /\ page[j] = history[(n - m) + j] /\ (n - m) + j \in a..n
                      /\ page[j].index = (step - m) + j
    OBVIOUS
  <2>1. (c - m) + j \in 1..c /\ (a + ((c - m) + j)) - 1 = (n - m) + j
        /\ (n - m) + j \in a..n /\ (n - m) + j \in 1..n
        /\ (step - n) + ((n - m) + j) = (step - m) + j
    <3> HIDE DEF n, m
    <3> QED BY <1>1, <1>2, <1>3
  <2> HIDE DEF events, c, m, page, n
  <2>2. page[j] = history[(n - m) + j]
    BY <1>5, <1>8, <2>1
  <2> QED BY <1>1, <2>1, <2>2
<1> HIDE DEF events
<1>10. KeptFrom(since) = {history[k] : k \in a..n}
  BY <1>1, <1>2 DEF KeptFrom, ToSet
<1>11. DOMAIN page = 1..m
  BY <1>8, LenProperties
<1>12. ToSet(page) = {page[j] : j \in 1..m}
  BY <1>11 DEF ToSet
<1> HIDE DEF page
<1>13. ToSet(page) \subseteq KeptFrom(since) /\ Len(page) <= limit
  <2>1. Len(page) <= limit
    BY <1>3, <1>8
  <2> HIDE DEF m, n
  <2>2. ASSUME NEW j \in 1..m PROVE page[j] \in KeptFrom(since)
    BY <1>9, <1>10
  <2> QED BY <1>12, <2>1, <2>2
<1>14. page # <<>> => Last(page) = CurrentEvent
  <2> SUFFICES ASSUME page # <<>> PROVE Last(page) = CurrentEvent
    OBVIOUS
  <2>1. m # 0
    BY <1>8, EmptySeq
  <2>2. m \in 1..m /\ (n - m) + m = n /\ n \in a..n /\ n # 0
    <3> HIDE DEF m, n
    <3>1. m \in 1..m /\ (n - m) + m = n
      BY <1>1, <1>3, <2>1
    <3> QED BY <1>2, <1>9, <3>1
  <2>3. page[m] = history[n]
    <3> HIDE DEF m, n
    <3> QED BY <1>9, <2>2
  <2> HIDE DEF m, n
  <2> QED BY <1>1, <1>8, <2>2, <2>3 DEF Last
<1>15. \A k \in 2..Len(page) : page[k].index = page[k - 1].index + 1
  <2> SUFFICES ASSUME NEW k \in 2..m PROVE page[k].index = page[k - 1].index + 1
    BY <1>8
  <2> HIDE DEF m, n
  <2>1. k \in 1..m /\ k - 1 \in 1..m
    BY <1>3
  <2>2. page[k].index = (step - m) + k /\ page[k - 1].index = (step - m) + (k - 1)
    BY <1>9, <2>1
  <2> QED BY <1>1, <1>3, <2>1, <2>2
<1>16. Len(page) < limit => ToSet(page) = KeptFrom(since)
  <2> SUFFICES ASSUME m < limit PROVE KeptFrom(since) \subseteq ToSet(page)
    BY <1>8, <1>13
  <2>1. \A k \in a..n : k - (a - 1) \in 1..m /\ (n - m) + (k - (a - 1)) = k
    <3> HIDE DEF n
    <3> QED BY <1>1, <1>2, <1>3
  <2> HIDE DEF m, n
  <2>2. ASSUME NEW k \in a..n PROVE history[k] \in ToSet(page)
    <3>1. page[k - (a - 1)] = history[k]
      BY <1>9, <2>1
    <3> QED BY <1>12, <2>1, <3>1
  <2> QED BY <1>10, <2>2
<1> QED BY <1>13, <1>14, <1>15, <1>16 DEF PageIsTheEnd, page

LEMMA ContiguousReadsAgree ==
  ASSUME StoreTypeOK, HistoryContiguous
  PROVE  ReadsAgree
<1> DEFINE n == Len(history)
<1>1. /\ n \in Nat /\ DOMAIN history = 1..n /\ step \in Int /\ (n = 0 <=> step = -1)
      /\ \A k \in 1..n : history[k] \in DemoEvent /\ history[k].index = (step - n) + k
      /\ CurrentEvent = IF n = 0 THEN None ELSE history[n]
  BY HistoryIsIndexed
<1>2. step >= -1 /\ step < MaxSteps
  BY StoreAssumption DEF StoreTypeOK
<1>3. CurrentEvent # None <=> n # 0
  <2> HIDE DEF n
  <2> QED BY <1>1, StoreAssumption
<1>4. CurrentEvent \in DemoEvent \union {None}
  <2> HIDE DEF n
  <2> QED BY <1>1
<1>5. BuildCurrentStateResponse(CurrentEvent) \in CurrentStateResponse
  BY <1>4 DEF BuildCurrentStateResponse, CurrentStateResponse, StoreTypeOK
<1>6. GetSnapshot.event # None <=> step >= 0
  <2>1. n # 0 <=> step >= 0
    BY <1>1, <1>2
  <2> QED BY <1>3, <2>1 DEF GetSnapshot
<1>7. GetSessionInfo.count = Len(GetEventHistory(None, None))
  <2>1. PICK a \in 1..(n + 1) :
          /\ {k \in DOMAIN history : None = None \/ history[k].index >= None} = a..n
          /\ a = 1
    BY KeptIsTheEnd
  <2>2. EventsSince(None) = [j \in 1..((n - 1) + 1) |-> history[(1 + j) - 1]]
    <3>1. 1 \in 1..(n + 1)
      BY <1>1
    <3>2. EventsSince(None) = Selected(history, 1..n)
      BY <2>1 DEF EventsSince
    <3> HIDE DEF n
    <3>3. \A b \in 1..(n + 1) :
            Selected(history, b..n) = [j \in 1..((n - b) + 1) |-> history[(b + j) - 1]]
      BY <1>1, SelectedEnd
    <3> QED BY <3>1, <3>2, <3>3
  <2>3. Len(EventsSince(None)) = n
    <3> HIDE DEF n
    <3>1. (n - 1) + 1 = n
      BY <1>1
    <3>2. EventsSince(None) = [j \in 1..n |-> history[(1 + j) - 1]]
      BY <2>2, <3>1
    <3>3. EventsSince(None) \in [1..n -> DemoEvent]
      BY <1>1, <3>2
    <3> QED BY <1>1, <3>3, FunctionIsSeq
  <2> QED BY <2>3 DEF GetSessionInfo, GetEventHistory
<1>8. ASSUME NEW part \in EventPart
      PROVE  /\ CurrentPart(part).session = GetSessionInfo.session
             /\ CurrentPart(part).step # None => GetEvent(CurrentPart(part).step) = CurrentEvent
  <2>1. CurrentPart(part).session = GetSessionInfo.session
    BY DEF CurrentPart, GetSessionInfo
  <2>2. ASSUME CurrentPart(part).step # None PROVE GetEvent(CurrentPart(part).step) = CurrentEvent
    <3>1. n # 0 /\ CurrentEvent = history[n] /\ CurrentPart(part).step = history[n].index
      BY <1>1, <1>3, <2>2 DEF CurrentPart
    <3>2. history[n].index = step /\ n - (step - step) = n /\ step > step - n
      <4> HIDE DEF n
      <4>1. n \in 1..n /\ (step - n) + n = step /\ n - (step - step) = n /\ step > step - n
        BY <1>1, <3>1
      <4> QED BY <1>1, <4>1
    <3>3. GetEvent(step) = history[n]
      <4>1. GetEvent(step) # None
        BY <1>1, <3>2, EventIsFound
      <4>2. GetEvent(step) = history[n - (step - step)]
        BY <1>1, <4>1, EventIsFound
      <4> QED BY <3>2, <4>2
    <3> QED BY <3>1, <3>2, <3>3
  <2> QED BY <2>1, <2>2
<1>9. \A i \in 0..(MaxSteps - 1) :
        GetEvent(i) # None <=> i <= step /\ i > step - Len(history)
  BY EventIsFound
<1>10. \A since \in (0..MaxSteps) \union {None}, limit \in 1..MaxSteps :
         limit <= 500 => PageIsTheEnd(since, limit)
  BY PageOfHistory, StoreAssumption
<1> QED BY <1>5, <1>6, <1>7, <1>8, <1>9, <1>10 DEF ReadsAgree

(* Whatever races, the browser is shown one scenario run, in order, without  *)
(* a gap or a repeat, to its end before it is called completed, and whichever *)
(* route it reads it by: its pages are ends of the history, an event is found *)
(* while it is kept, and the parts of a reply are of one event.              *)
THEOREM PlaybackIsInOrder == Spec => []SessionIsInOrder
<1>1. DemoInv => SessionIsInOrder
  BY ContiguousReadsAgree DEF DemoInv, SessionInv, SessionIsInOrder
<1> QED BY <1>1, DemoInvariance, PTL
-----------------------------------------------------------------------------
(* The live controller beside the demo adapter.                            *)

(* The live tasks that are not over.  Every one of them was started with a   *)
(* session of its own, which leaves a free id for the next.                 *)
Busy == {t \in LiveTaskId : liveTasks[t] # Done}

LiveTaskOK == liveTasks \in [LiveTaskId -> [phase : Phase, left : 0..MaxSteps]]

LiveInv ==
  /\ sessions \in 0..MaxSessions /\ Cardinality(Busy) <= sessions
  /\ isActive \in BOOLEAN /\ liveTask \in LiveTaskId \union {None} /\ LiveTaskOK
  /\ ActiveIsLooping

(* Sessions are counted up, one at a time and to their bound.               *)
LEMMA SessionsGrow ==
  ASSUME sessions \in 0..MaxSessions, [RuntimeNext]_runtimeVars
  PROVE  sessions' \in 0..MaxSessions /\ sessions <= sessions'
<1> DEFINE Grows == sessions' = sessions \/ (sessions < MaxSessions /\ sessions' = sessions + 1)
<1>1. ASSUME NEW left, Step(left) PROVE sessions' = sessions
  BY <1>1 DEF Step, Exhausted, SetStatus, Advance, AppendEvent, Record, AdvanceRefused,
              EngineFails, storeVars
<1>2. ASSUME NEW n, NEW s, DemoStart(n, s) PROVE Grows
  BY <1>2 DEF DemoStart, Start, CreateSession
<1>3. ASSUME DemoReset PROVE Grows
  BY <1>3 DEF DemoReset, Reset, ResetStore
<1>4. ASSUME DemoControl PROVE Grows
  BY <1>1, <1>4 DEF DemoControl, Pause, Resume, SetSpeed, SetStatus, storeVars, StepByHand
<1>5. ASSUME NEW t \in TimerId, Playback(t) PROVE Grows
  BY <1>1, <1>5 DEF Playback, TimerStep, storeVars
<1>6. ASSUME NEW n, LiveStart(n) PROVE Grows
  BY <1>6 DEF LiveStart, CreateSession
<1>7. ASSUME NoBackend \/ LiveStop PROVE Grows
  BY <1>7 DEF NoBackend, LiveStop, SetStatus, storeVars
<1>8. ASSUME NEW t \in LiveTaskId, LiveTaskStep(t) PROVE Grows
  BY <1>8 DEF LiveTaskStep, LiveBegin, LiveWindow, LiveLastWindow, LiveError, LiveCancelled,
              SetStatus, AppendEvent, Record, storeVars
<1>9. ASSUME UNCHANGED runtimeVars PROVE Grows
  BY <1>9 DEF runtimeVars, storeVars
<1>10. Grows
  <2> HIDE DEF Grows
  <2> QED BY <1>2, <1>3, <1>4, <1>5, <1>6, <1>7, <1>8, <1>9 DEF RuntimeNext
<1> QED BY <1>10, StoreAssumption

(* A step that starts no task leaves at most the tasks there were.          *)
LEMMA NoNewTask ==
  ASSUME LiveInv, Busy' \subseteq Busy, sessions' \in 0..MaxSessions, sessions <= sessions'
  PROVE  Cardinality(Busy') <= sessions'
<1>1. IsFiniteSet(LiveTaskId)
  BY FS_Interval, StoreAssumption DEF LiveTaskId
<1>2. IsFiniteSet(Busy) /\ Cardinality(Busy) \in Nat
  BY <1>1, FS_Subset, FS_CardinalityType DEF Busy
<1>3. Cardinality(Busy') <= Cardinality(Busy) /\ Cardinality(Busy') \in Nat
  BY <1>2, FS_Subset, FS_CardinalityType
<1> QED BY <1>2, <1>3 DEF LiveInv

(* stop() stops: whoever calls it, no loop records windows after it.         *)
LEMMA HaltStops ==
  ASSUME LiveInv, NEW caller \in LiveTaskId \union {None}, Halt(caller)
  PROVE  /\ isActive' = FALSE /\ Looping' = {} /\ Busy' \subseteq Busy
         /\ liveTask' \in LiveTaskId \union {None} /\ LiveTaskOK'
<1> DEFINE others == IF caller = None THEN liveTasks ELSE [liveTasks EXCEPT ![caller] = Done]
           cancels == liveTask # None /\ liveTask # caller /\ liveTasks[liveTask] # Done
<1>1. None \notin LiveTaskId
  BY StoreAssumption DEF LiveTaskId
<1>2. /\ liveTasks \in [LiveTaskId -> [phase : Phase, left : 0..MaxSteps]]
      /\ liveTask \in LiveTaskId \union {None}
      /\ Looping = IF isActive THEN {liveTask} ELSE {}
  BY DEF LiveInv, LiveTaskOK, ActiveIsLooping
<1>3. Done \in [phase : Phase, left : 0..MaxSteps]
  BY StoreAssumption DEF Done, Phase
<1>4. /\ others \in [LiveTaskId -> [phase : Phase, left : 0..MaxSteps]]
      /\ \A u \in LiveTaskId : others[u] = IF u = caller THEN Done ELSE liveTasks[u]
  BY <1>1, <1>2, <1>3
<1>5. \A task \in [phase : Phase, left : 0..MaxSteps] :
        /\ CancelTask(task) \in [phase : Phase, left : 0..MaxSteps]
        /\ CancelTask(task).phase \in {"cancelled", "done"}
  BY <1>3 DEF CancelTask, Done, Phase
<1>6. /\ isActive' = FALSE
      /\ cancels => /\ liveTasks' = [others EXCEPT ![liveTask] = CancelTask(@)]
                    /\ liveTask' = None
      /\ ~cancels => liveTasks' = others /\ liveTask' = liveTask
  BY DEF Halt
<1> HIDE DEF others
<1>7. LiveTaskOK'
  <2>1. CASE cancels
    BY <1>2, <1>4, <1>5, <1>6, <2>1 DEF LiveTaskOK
  <2>2. CASE ~cancels
    BY <1>4, <1>6, <2>2 DEF LiveTaskOK
  <2> QED BY <2>1, <2>2
<1>8. \A u \in LiveTaskId :
        liveTasks'[u] = IF u = caller THEN Done
                        ELSE IF cancels /\ u = liveTask THEN CancelTask(liveTasks[u])
                        ELSE liveTasks[u]
  <2>1. CASE cancels
    BY <1>2, <1>4, <1>6, <2>1
  <2>2. CASE ~cancels
    BY <1>4, <1>6, <2>2
  <2> QED BY <2>1, <2>2
<1>9. ASSUME NEW u \in LiveTaskId, liveTasks'[u].phase \in {"new", "waiting"} PROVE FALSE
  <2>1. u # caller /\ ~(cancels /\ u = liveTask) /\ liveTasks[u].phase \in {"new", "waiting"}
    <3>1. u # caller
      BY <1>8, <1>9 DEF Done
    <3>2. ~(cancels /\ u = liveTask)
      BY <1>2, <1>5, <1>8, <1>9, <3>1
    <3> QED BY <1>8, <1>9, <3>1, <3>2
  <2>2. u \in Looping /\ liveTasks[u] # Done
    BY <2>1 DEF Looping, Done
  <2>3. u = liveTask
    BY <1>2, <2>2
  <2> QED BY <1>1, <2>1, <2>2, <2>3
<1>10. Looping' = {}
  BY <1>9 DEF Looping
<1>11. Busy' \subseteq Busy
  <2>1. cancels => liveTasks[liveTask] # Done
    OBVIOUS
  <2> QED BY <1>8, <2>1 DEF Busy
<1> QED BY <1>2, <1>6, <1>7, <1>10, <1>11

(* A stop leaves the invariant true, whatever it does to the session.        *)
LEMMA HaltKeeps ==
  ASSUME LiveInv, NEW caller \in LiveTaskId \union {None}, Halt(caller),
         sessions' \in 0..MaxSessions, sessions <= sessions'
  PROVE  LiveInv'
<1>1. /\ isActive' = FALSE /\ Looping' = {} /\ Busy' \subseteq Busy
      /\ liveTask' \in LiveTaskId \union {None} /\ LiveTaskOK'
  BY HaltStops
<1>2. Cardinality(Busy') <= sessions'
  BY <1>1, NoNewTask
<1> QED BY <1>1, <1>2 DEF LiveInv, ActiveIsLooping

LEMMA LiveStays ==
  ASSUME LiveInv, UNCHANGED <<isActive, liveTask, liveTasks>>,
         sessions' \in 0..MaxSessions, sessions <= sessions'
  PROVE  LiveInv'
<1>1. Busy' = Busy /\ Looping' = Looping
  BY DEF Busy, Looping
<1>2. Cardinality(Busy') <= sessions'
  BY <1>1, NoNewTask
<1> QED BY <1>1, <1>2 DEF LiveInv, LiveTaskOK, ActiveIsLooping

(* A live run is started only when no loop is recording, and gets an id that *)
(* no task that still has to wake up is using.                              *)
LEMMA RunKeeps ==
  ASSUME LiveInv, NEW n \in 1..MaxSteps, ~isActive, LiveRun(n),
         sessions < MaxSessions, sessions' = sessions + 1
  PROVE  LiveInv'
<1> DEFINE free == {u \in LiveTaskId : liveTasks[u] = Done}
           t == Min(free)
           task == [phase |-> "new", left |-> n]
<1>1. IsFiniteSet(LiveTaskId) /\ Cardinality(LiveTaskId) = MaxSessions /\ LiveTaskId \subseteq Nat
  BY FS_Interval, StoreAssumption DEF LiveTaskId
<1>2. IsFiniteSet(Busy) /\ Cardinality(Busy) <= sessions /\ Cardinality(Busy) \in Nat
      /\ sessions \in 0..MaxSessions
  BY <1>1, FS_Subset, FS_CardinalityType DEF Busy, LiveInv
<1>3. free # {}
  <2>1. Busy # LiveTaskId
    BY <1>1, <1>2, StoreAssumption
  <2> QED BY <2>1 DEF Busy
<1>4. t \in free
  <2>1. free \in SUBSET Nat
    BY <1>1
  <2> HIDE DEF free
  <2> QED BY <1>3, <2>1, MinIsMember
<1> HIDE DEF t
<1>5. t \in LiveTaskId /\ liveTasks[t] = Done
  BY <1>4
<1>6. isActive' = TRUE /\ liveTask' = t /\ liveTasks' = [liveTasks EXCEPT ![t] = task]
  BY DEF LiveRun, t
<1>7. task \in [phase : Phase, left : 0..MaxSteps] /\ task # Done
  BY StoreAssumption DEF Phase, Done
<1>8. /\ LiveTaskOK'
      /\ \A u \in LiveTaskId : liveTasks'[u] = IF u = t THEN task ELSE liveTasks[u]
  BY <1>5, <1>6, <1>7 DEF LiveInv, LiveTaskOK
<1>9. Looping = {}
  BY DEF LiveInv, ActiveIsLooping
<1>10. Looping' = {t}
  <2>1. task.phase = "new"
    OBVIOUS
  <2> HIDE DEF task
  <2> QED BY <1>5, <1>8, <1>9, <2>1 DEF Looping
<1>11. Busy' = Busy \union {t}
  <2> HIDE DEF task
  <2> QED BY <1>5, <1>7, <1>8 DEF Busy
<1>12. Cardinality(Busy') <= sessions'
  <2>1. Cardinality(Busy \union {t}) =
          IF t \in Busy THEN Cardinality(Busy) ELSE Cardinality(Busy) + 1
    BY <1>2, FS_AddElement
  <2>2. sessions \in Int
    BY <1>2
  <2> QED BY <1>2, <1>11, <2>1, <2>2
<1>13. sessions' \in 0..MaxSessions
  BY <1>2, StoreAssumption
<1> QED BY <1>5, <1>6, <1>8, <1>10, <1>12, <1>13 DEF LiveInv, ActiveIsLooping

LEMMA LiveTaskKeeps ==
  ASSUME LiveInv, NEW t \in LiveTaskId, LiveTaskStep(t),
         sessions' \in 0..MaxSessions, sessions <= sessions'
  PROVE  LiveInv'
<1>0. liveTasks \in [LiveTaskId -> [phase : Phase, left : 0..MaxSteps]]
  BY DEF LiveInv, LiveTaskOK
<1>1. CASE LiveLastWindow(t) \/ LiveError(t) \/ LiveCancelled(t)
  BY <1>1, HaltKeeps DEF LiveLastWindow, LiveError, LiveCancelled
<1>2. ASSUME UNCHANGED <<isActive, liveTask>>, LiveTaskOK',
             \A u \in LiveTaskId \ {t} : liveTasks'[u] = liveTasks[u],
             liveTasks[t] # Done,
             liveTasks[t].phase \in {"new", "waiting"} /\ liveTasks'[t].phase \in {"new", "waiting"}
      PROVE  LiveInv'
  <2>1. Looping' = Looping
    BY <1>2 DEF Looping
  <2>2. Busy' \subseteq Busy
    BY <1>2 DEF Busy
  <2>3. Cardinality(Busy') <= sessions'
    BY <2>2, NoNewTask
  <2> QED BY <1>2, <2>1, <2>3 DEF LiveInv, ActiveIsLooping
<1>3. CASE LiveBegin(t)
  <2>1. /\ UNCHANGED <<isActive, liveTask>> /\ liveTasks[t].phase = "new"
        /\ liveTasks' = [liveTasks EXCEPT ![t].phase = "waiting"]
    BY <1>3 DEF LiveBegin
  <2>2. LiveTaskOK' /\ liveTasks'[t].phase = "waiting"
        /\ \A u \in LiveTaskId \ {t} : liveTasks'[u] = liveTasks[u]
    BY <1>0, <2>1 DEF LiveTaskOK, Phase
  <2> QED BY <1>2, <2>1, <2>2 DEF Done
<1>4. CASE LiveWindow(t)
  <2>1. /\ UNCHANGED <<isActive, liveTask>> /\ liveTasks[t].phase = "waiting"
        /\ liveTasks[t].left > 1
        /\ liveTasks' = [liveTasks EXCEPT ![t].left = @ - 1]
    BY <1>4 DEF LiveWindow
  <2>2. liveTasks[t].left - 1 \in 0..MaxSteps
    BY <1>0, <2>1, StoreAssumption
  <2>3. LiveTaskOK' /\ liveTasks'[t].phase = "waiting"
        /\ \A u \in LiveTaskId \ {t} : liveTasks'[u] = liveTasks[u]
    BY <1>0, <2>1, <2>2 DEF LiveTaskOK
  <2> QED BY <1>2, <2>1, <2>3 DEF Done
<1> QED BY <1>1, <1>3, <1>4 DEF LiveTaskStep

LEMMA LiveStep ==
  ASSUME LiveInv, [RuntimeNext]_runtimeVars PROVE LiveInv'
<1>1. sessions' \in 0..MaxSessions /\ sessions <= sessions'
  BY SessionsGrow DEF LiveInv
<1>2. ASSUME UNCHANGED <<isActive, liveTask, liveTasks>> PROVE LiveInv'
  BY <1>1, <1>2, LiveStays
<1>3. CASE \/ \E n \in 1..MaxSteps, s \in Speeds : DemoStart(n, s)
           \/ DemoControl
           \/ \E t \in TimerId : Playback(t)
           \/ NoBackend
           \/ UNCHANGED runtimeVars
  BY <1>2, <1>3 DEF DemoStart, DemoControl, Playback, NoBackend, liveVars, runtimeVars
<1>4. CASE DemoReset
  <2>1. CASE Halt(None)
    BY <1>1, <2>1, HaltKeeps
  <2>2. CASE UNCHANGED liveVars
    BY <1>2, <2>2 DEF liveVars
  <2> QED BY <1>4, <2>1, <2>2 DEF DemoReset
<1>5. CASE LiveStop
  BY <1>1, <1>5, HaltKeeps DEF LiveStop
<1>6. ASSUME NEW n \in 1..MaxSteps, LiveStart(n) PROVE LiveInv'
  <2>1. CASE LiveRun(n)
    <3>1. ~isActive /\ sessions < MaxSessions /\ sessions' = sessions + 1
      BY <1>6 DEF LiveStart, LiveStartRefused, CreateSession
    <3> QED BY <2>1, <3>1, RunKeeps
  <2>2. CASE LiveRunFails
    BY <1>2, <2>2 DEF LiveRunFails
  <2> QED BY <1>6, <2>1, <2>2 DEF LiveStart
<1>7. ASSUME NEW t \in LiveTaskId, LiveTaskStep(t) PROVE LiveInv'
  BY <1>1, <1>7, LiveTaskKeeps
<1> QED BY <1>3, <1>4, <1>5, <1>6, <1>7 DEF RuntimeNext

(* is_active tells the truth about the loops that record windows, however    *)
(* starts, stops, resets and errors race with the wakeups of old tasks, a   *)
(* cancelled one that stops the run after its own included.                 *)
THEOREM OneLoopRecords == RuntimeSpec => []ActiveIsLooping
<1>1. RuntimeInit => LiveInv
  <2> SUFFICES ASSUME RuntimeInit PROVE LiveInv
    OBVIOUS
  <2>1. /\ sessions = 0 /\ isActive = FALSE /\ liveTask = None
        /\ liveTasks = [t \in LiveTaskId |-> Done]
    BY DEF RuntimeInit, Init, InitStore
  <2>2. LiveTaskOK /\ Looping = {} /\ Busy = {}
    BY <2>1, StoreAssumption DEF LiveTaskOK, Looping, Busy, Done, Phase
  <2>3. Cardinality(Busy) = 0
    BY <2>2, FS_EmptySet
  <2>4. sessions \in 0..MaxSessions /\ Cardinality(Busy) <= sessions
    BY <2>1, <2>3, StoreAssumption
  <2>5. isActive \in BOOLEAN /\ liveTask \in LiveTaskId \union {None} /\ ActiveIsLooping
    BY <2>1, <2>2 DEF ActiveIsLooping
  <2> QED BY <2>2, <2>4, <2>5 DEF LiveInv
<1>2. LiveInv /\ [RuntimeNext]_runtimeVars => LiveInv'
  BY LiveStep
<1>3. LiveInv => ActiveIsLooping
  BY DEF LiveInv
<1> QED BY <1>1, <1>2, <1>3, PTL DEF RuntimeSpec
-----------------------------------------------------------------------------
(* The stream, within one session.                                         *)

(* What the browser was sent, and what is on its way, was played.            *)
Played ==
  /\ \A x \in Coming : x[2] <= step
  /\ lastId # None => lastId <= step
  /\ shown # None => shown.index <= step

WatchInv ==
  /\ DemoInv
  /\ backlog \in Seq(DemoEvent) /\ queue \in Seq(Message)
  /\ lastId \in Nat \union {None} /\ shown \in DemoEvent \union {None}
  /\ (phase = "replaying" \/ backlog = <<>>) /\ (phase = "live" \/ queue = <<>>)
  /\ phase \in {"loading", "loadingEvents"} => lastId = None
  /\ sessions = 0 => session = None /\ Coming = {} /\ lastId = None /\ shown = None
  /\ SentOnce
  /\ session # None => Played

LEMMA IndexIsNat == \A e \in DemoEvent : e.index \in Nat
BY StoreAssumption DEF DemoEvent

LEMMA WatchedAreNumbers ==
  ASSUME WatchInv
  PROVE  /\ step \in Int
         /\ lastId # None => lastId \in Nat
         /\ shown # None => shown \in DemoEvent /\ shown.index \in Nat
<1>1. step \in Int
  <2>1. DemoInv
    BY DEF WatchInv
  <2> QED BY <2>1, StoreAssumption DEF DemoInv, SessionInv, StoreTypeOK
<1>2. lastId # None => lastId \in Nat
  BY DEF WatchInv
<1>3. shown # None => shown \in DemoEvent
  BY DEF WatchInv
<1> QED BY <1>1, <1>2, <1>3, IndexIsNat

(* What comes is at a place, with an index.                                  *)
LEMMA ComingIsPlaced ==
  ASSUME WatchInv
  PROVE  /\ Len(backlog) \in Nat /\ Len(queue) \in Nat
         /\ DOMAIN backlog = 1..Len(backlog) /\ DOMAIN queue = 1..Len(queue)
         /\ \A k \in 1..Len(backlog) : backlog[k] \in DemoEvent
         /\ \A k \in 1..Len(queue) : queue[k] \in Message
         /\ \A k \in 1..Len(queue) : queue[k].kind = "event" => queue[k].event \in DemoEvent
         /\ \A x \in Coming : x[1] \in Nat /\ x[2] \in Nat /\ x = <<x[1], x[2]>>
<1>1. /\ Len(backlog) \in Nat /\ Len(queue) \in Nat
      /\ DOMAIN backlog = 1..Len(backlog) /\ DOMAIN queue = 1..Len(queue)
  BY LenProperties DEF WatchInv
<1>2. \A k \in 1..Len(backlog) : backlog[k] \in DemoEvent
  BY ElementOfSeq DEF WatchInv
<1>3. \A k \in 1..Len(queue) : queue[k] \in Message
  BY ElementOfSeq DEF WatchInv
<1>4. \A m \in Message : m.kind = "event" => m.event \in DemoEvent
  BY DEF Message
<1>5. \A e \in DemoEvent : e.index \in Nat
  BY IndexIsNat
<1>6. ASSUME NEW x \in Coming PROVE x[1] \in Nat /\ x[2] \in Nat /\ x = <<x[1], x[2]>>
  <2>1. CASE x \in {<<k, backlog[k].index>> : k \in DOMAIN backlog}
    BY <1>1, <1>2, <1>5, <2>1
  <2>2. CASE x \in {<<Len(backlog) + k, queue[k].event.index>> :
                       k \in {i \in DOMAIN queue : queue[i].kind = "event"}}
    BY <1>1, <1>3, <1>4, <1>5, <2>2
  <2> QED BY <1>6, <2>1, <2>2 DEF Coming
<1> QED BY <1>1, <1>2, <1>3, <1>4, <1>6

(* What is on its way once nothing is.                                       *)
LEMMA NothingComes ==
  ASSUME backlog' = <<>>, queue' = <<>>
  PROVE  Coming' = {} /\ backlog' \in Seq(DemoEvent) /\ queue' \in Seq(Message)
BY DEF Coming

(* A step that leaves the session and the way to the browser as they are.    *)
LEMMA ViewChanges ==
  ASSUME WatchInv, UNCHANGED <<vars, backlog, queue, phase, lastId>>,
         shown' \in {shown, None}
  PROVE  WatchInv'
<1>1. UNCHANGED <<session, sessions, mode, status, step, total, history,
                  speed, generator, timer, timers>>
  BY DEF vars, storeVars, demoVars
<1>2. DemoInv'
  BY <1>1, DemoStep DEF vars, storeVars, demoVars, WatchInv
<1>3. Coming' = Coming
  BY DEF Coming
<1>4. SentOnce' /\ (session # None => Played')
  BY <1>1, <1>3 DEF WatchInv, SentOnce, Played
<1> QED BY <1>1, <1>2, <1>3, <1>4 DEF WatchInv

(* The browser shows the event e, the first of those that come; the others   *)
(* move up.                                                                 *)
LEMMA FirstIsShown ==
  ASSUME WatchInv, UNCHANGED <<vars, phase>>, NEW e \in DemoEvent, EventShown(e),
         backlog' \in Seq(DemoEvent), queue' \in Seq(Message),
         phase = "replaying" \/ backlog' = <<>>, phase = "live" \/ queue' = <<>>,
         phase \notin {"loading", "loadingEvents"},
         \E x \in Coming : x[1] = 1 /\ x[2] = e.index,
         \A y \in Coming' : /\ y[1] \in Nat /\ 1 <= y[1]
                            /\ \E x \in Coming : x[1] = y[1] + 1 /\ x[2] = y[2]
  PROVE  WatchInv'
<1>1. UNCHANGED <<session, sessions, mode, status, step, total, history,
                  speed, generator, timer, timers, phase>>
  BY DEF vars, storeVars, demoVars
<1>2. DemoInv'
  BY <1>1, DemoStep DEF vars, storeVars, demoVars, WatchInv
<1>3. lastId' = e.index /\ (shown' = e \/ shown' = shown) /\ e.index \in Nat
  BY IndexIsNat DEF EventShown
<1>4. PICK first \in Coming : first[1] = 1 /\ first[2] = e.index
  OBVIOUS
<1>5. \A x, y \in Coming : x[1] < y[1] => x[2] < y[2]
  BY DEF WatchInv, SentOnce
<1>6. \A x \in Coming : x[1] \in Nat /\ x[2] \in Nat
  BY ComingIsPlaced
<1>7. ASSUME NEW y \in Coming' PROVE y[2] \in Nat /\ e.index < y[2]
  <2>1. PICK x \in Coming : x[1] = y[1] + 1 /\ x[2] = y[2]
    OBVIOUS
  <2>2. first[1] < x[1]
    BY <1>4, <2>1
  <2> QED BY <1>4, <1>5, <1>6, <2>1, <2>2
<1>8. ASSUME NEW y \in Coming', NEW z \in Coming', y[1] < z[1] PROVE y[2] < z[2]
  <2>1. PICK x \in Coming : x[1] = y[1] + 1 /\ x[2] = y[2]
    OBVIOUS
  <2>2. PICK w \in Coming : w[1] = z[1] + 1 /\ w[2] = z[2]
    OBVIOUS
  <2>3. x[1] < w[1]
    BY <1>8, <2>1, <2>2
  <2> QED BY <1>5, <2>1, <2>2, <2>3
<1>9. shown # None => shown \in DemoEvent /\ shown.index \in Nat /\ shown.index <= e.index
  BY <1>4, WatchedAreNumbers DEF WatchInv, SentOnce
<1>10. shown' # None => shown'.index \in Nat /\ shown'.index <= e.index
  BY <1>3, <1>9
<1>11. SentOnce'
  <2>1. shown' # None => \A y \in Coming' : shown'.index <= y[2]
    BY <1>3, <1>7, <1>10
  <2> QED BY <1>3, <1>7, <1>8, <1>10, <2>1 DEF SentOnce
<1>12. sessions # 0
  BY <1>4 DEF WatchInv
<1>13. session # None => Played'
  <2> SUFFICES ASSUME session # None PROVE Played'
    OBVIOUS
  <2>1. step \in Int /\ e.index <= step /\ \A x \in Coming : x[2] <= step
    BY <1>4, WatchedAreNumbers DEF WatchInv, Played
  <2>2. \A y \in Coming' : y[2] <= step'
    BY <1>1, <2>1
  <2>3. shown' # None => shown'.index <= step'
    BY <1>1, <1>3, <1>10, <2>1
  <2> QED BY <1>1, <1>3, <2>1, <2>2, <2>3 DEF Played
<1>14. lastId' \in Nat \union {None} /\ shown' \in DemoEvent \union {None}
  BY <1>3 DEF WatchInv
<1> QED BY <1>1, <1>2, <1>11, <1>12, <1>13, <1>14 DEF WatchInv

(* The first message shows no event; what comes after it moves up.           *)
LEMMA FirstIsDropped ==
  ASSUME WatchInv, UNCHANGED <<vars, phase, backlog, lastId>>, shown' \in {shown, None},
         queue' \in Seq(Message), phase = "live" \/ queue' = <<>>,
         \A y \in Coming' : /\ y[1] \in Nat
                            /\ \E x \in Coming : x[1] = y[1] + 1 /\ x[2] = y[2]
  PROVE  WatchInv'
<1>1. UNCHANGED <<session, sessions, mode, status, step, total, history,
                  speed, generator, timer, timers, phase>>
  BY DEF vars, storeVars, demoVars
<1>2. DemoInv'
  BY <1>1, DemoStep DEF vars, storeVars, demoVars, WatchInv
<1>3. \A x \in Coming : x[1] \in Nat /\ x[2] \in Nat
  BY ComingIsPlaced
<1>4. ASSUME NEW y \in Coming', NEW z \in Coming', y[1] < z[1] PROVE y[2] < z[2]
  <2>1. PICK x \in Coming : x[1] = y[1] + 1 /\ x[2] = y[2]
    OBVIOUS
  <2>2. PICK w \in Coming : w[1] = z[1] + 1 /\ w[2] = z[2]
    OBVIOUS
  <2>3. x[1] < w[1]
    BY <1>4, <2>1, <2>2
  <2> QED BY <2>1, <2>2, <2>3 DEF WatchInv, SentOnce
<1>5. SentOnce'
  <2>1. lastId # None => \A y \in Coming' : lastId < y[2]
    BY DEF WatchInv, SentOnce
  <2>2. shown # None => \A y \in Coming' : shown.index <= y[2]
    BY DEF WatchInv, SentOnce
  <2> QED BY <1>4, <2>1, <2>2 DEF WatchInv, SentOnce
<1>6. session # None => Played'
  <2> SUFFICES ASSUME session # None PROVE Played'
    OBVIOUS
  <2>1. Played
    BY DEF WatchInv
  <2>2. \A y \in Coming' : y[2] <= step'
    BY <1>1, <2>1 DEF Played
  <2> QED BY <1>1, <2>1, <2>2 DEF Played
<1>7. sessions = 0 => Coming' = {}
  BY DEF WatchInv
<1> QED BY <1>1, <1>2, <1>5, <1>6, <1>7 DEF WatchInv

(* What the adapter broadcasts comes last; an event of it is the one that     *)
(* was just played.                                                         *)
LEMMA BroadcastKeeps ==
  ASSUME WatchInv, DemoInv', NEW msgs \in Seq(Message), Broadcast(msgs),
         \A k \in 1..Len(msgs) :
           msgs[k].kind = "event" => k = 1 /\ msgs[k].event.index = step' /\ step' > step
                                     /\ session # None,
         session' # None => sessions = 0 \/ (session' = session /\ step' >= step),
         sessions' = 0 => sessions = 0 /\ session' = None,
         session # None => sessions' # 0
  PROVE  WatchInv'
<1>1. /\ step \in Int /\ step' \in Int
      /\ UNCHANGED <<phase, backlog, lastId, shown>>
  <2>1. step' \in Int
    BY StoreAssumption DEF DemoInv, SessionInv, StoreTypeOK
  <2>2. UNCHANGED <<phase, backlog, lastId, shown>>
    BY DEF Broadcast, uiVars
  <2> QED BY <2>1, <2>2, WatchedAreNumbers
<1>2. queue \in Seq(Message) /\ queue' \in Seq(Message) /\ (phase = "live" \/ queue' = <<>>)
  BY ConcatProperties DEF WatchInv, Broadcast
<1>3. ASSUME NEW y \in Coming'
      PROVE  \/ y \in Coming
             \/ /\ y = <<(Len(backlog) + Len(queue)) + 1, step'>> /\ step' > step
                /\ session # None
  <2>1. CASE y \in {<<k, backlog'[k].index>> : k \in DOMAIN backlog'}
    BY <1>1, <2>1 DEF Coming
  <2>2. ASSUME NEW k \in DOMAIN queue', queue'[k].kind = "event",
               y = <<Len(backlog') + k, queue'[k].event.index>>
        PROVE  \/ y \in Coming
               \/ /\ y = <<(Len(backlog) + Len(queue)) + 1, step'>> /\ step' > step
                  /\ session # None
    <3>1. CASE k \in DOMAIN queue /\ queue'[k] = queue[k]
      BY <1>1, <2>2, <3>1 DEF Coming
    <3>2. CASE ~(k \in DOMAIN queue /\ queue'[k] = queue[k])
      <4>1. queue' = queue \o msgs
        BY <3>2, <2>2 DEF Broadcast
      <4>2. Len(queue) \in Nat /\ Len(msgs) \in Nat /\ DOMAIN queue = 1..Len(queue)
            /\ Len(backlog) \in Nat
        BY <1>2, LenProperties, ComingIsPlaced
      <4>3. k \in 1..(Len(queue) + Len(msgs))
            /\ queue'[k] = IF k <= Len(queue) THEN queue[k] ELSE msgs[k - Len(queue)]
        BY <1>2, <4>1, <4>2, ConcatProperties, LenProperties
      <4>4. k - Len(queue) \in 1..Len(msgs) /\ queue'[k] = msgs[k - Len(queue)]
        BY <3>2, <4>2, <4>3
      <4>5. k - Len(queue) = 1 /\ queue'[k].event.index = step' /\ step' > step /\ session # None
        BY <2>2, <4>4
      <4>6. Len(backlog') + k = (Len(backlog) + Len(queue)) + 1
        <5>1. backlog' = backlog /\ k \in Int /\ k = Len(queue) + 1
          BY <1>1, <4>2, <4>3, <4>5
        <5> QED BY <4>2, <5>1
      <4>7. y = <<(Len(backlog) + Len(queue)) + 1, step'>>
        BY <2>2, <4>5, <4>6
      <4> QED BY <4>5, <4>7
    <3> QED BY <3>1, <3>2
  <2> QED BY <1>3, <2>1, <2>2 DEF Coming
<1>4. \A x \in Coming : x[1] \in Nat /\ x[2] \in Nat /\ x[1] <= Len(backlog) + Len(queue)
  <2> SUFFICES ASSUME NEW x \in Coming PROVE x[1] <= Len(backlog) + Len(queue)
    BY ComingIsPlaced
  <2> QED BY ComingIsPlaced DEF Coming
<1>5. Len(backlog) \in Nat /\ Len(queue) \in Nat
  BY ComingIsPlaced
<1>6. SentOnce'
  <2>1. \A x, y \in Coming' : x[1] < y[1] => x[2] < y[2]
    <3> SUFFICES ASSUME NEW x \in Coming', NEW y \in Coming', x[1] < y[1] PROVE x[2] < y[2]
      OBVIOUS
    <3>1. CASE x \in Coming /\ y \in Coming
      BY <3>1 DEF WatchInv, SentOnce
    <3>2. CASE x \in Coming /\ y \notin Coming
      <4>1. y[2] = step' /\ step' > step /\ x[2] <= step /\ x[2] \in Nat
        <5>1. y = <<(Len(backlog) + Len(queue)) + 1, step'>> /\ step' > step /\ session # None
          BY <1>3, <3>2
        <5>2. Played
          BY <5>1 DEF WatchInv
        <5> QED BY <1>4, <3>2, <5>1, <5>2 DEF Played
      <4> QED BY <1>1, <4>1
    <3>3. CASE x \notin Coming
      <4>1. x[1] = (Len(backlog) + Len(queue)) + 1
        BY <1>3, <3>3
      <4>2. y[1] \in Nat /\ y[1] <= (Len(backlog) + Len(queue)) + 1
        BY <1>3, <1>4, <1>5
      <4> QED BY <1>5, <4>1, <4>2
    <3> QED BY <3>1, <3>2, <3>3
  <2>2. ASSUME lastId # None, NEW x \in Coming' PROVE lastId < x[2]
    <3>1. CASE x \in Coming
      BY <2>2, <3>1 DEF WatchInv, SentOnce
    <3>2. CASE x \notin Coming
      <4>1. x[2] = step' /\ step' > step /\ session # None
        BY <1>3, <3>2
      <4>2. lastId <= step /\ lastId \in Nat
        BY <2>2, <4>1, WatchedAreNumbers DEF WatchInv, Played
      <4> QED BY <1>1, <4>1, <4>2
    <3> QED BY <3>1, <3>2
  <2>3. ASSUME shown # None, NEW x \in Coming' PROVE shown.index <= x[2]
    <3>1. CASE x \in Coming
      BY <2>3, <3>1 DEF WatchInv, SentOnce
    <3>2. CASE x \notin Coming
      <4>1. x[2] = step' /\ step' > step /\ session # None
        BY <1>3, <3>2
      <4>2. shown.index <= step /\ shown.index \in Nat
        BY <2>3, <4>1, WatchedAreNumbers DEF WatchInv, Played
      <4> QED BY <1>1, <4>1, <4>2
    <3> QED BY <3>1, <3>2
  <2> QED BY <1>1, <2>1, <2>2, <2>3 DEF WatchInv, SentOnce
<1>7. session' # None => Played'
  <2> SUFFICES ASSUME session' # None PROVE Played'
    OBVIOUS
  <2>1. CASE sessions = 0
    <3>1. Coming = {} /\ lastId = None /\ shown = None /\ session = None
      BY <2>1 DEF WatchInv
    <3>2. Coming' = {}
      BY <1>3, <3>1
    <3> QED BY <1>1, <3>1, <3>2 DEF Played
  <2>2. CASE session' = session /\ step' >= step
    <3>1. Played
      BY <2>2 DEF WatchInv
    <3>2. \A x \in Coming' : x[2] <= step'
      BY <1>1, <1>3, <1>4, <2>2, <3>1 DEF Played
    <3>3. lastId # None => lastId <= step'
      BY <1>1, <2>2, <3>1, WatchedAreNumbers DEF Played
    <3>4. shown # None => shown.index <= step' /\ shown.index \in Int
      BY <1>1, <2>2, <3>1, WatchedAreNumbers DEF Played
    <3> QED BY <1>1, <3>2, <3>3, <3>4 DEF Played
  <2> QED BY <2>1, <2>2
<1>8. sessions' = 0 => session' = None /\ Coming' = {} /\ lastId' = None /\ shown' = None
  <2> SUFFICES ASSUME sessions' = 0 PROVE session' = None /\ Coming' = {} /\ lastId' = None /\ shown' = None
    OBVIOUS
  <2>1. session' = None /\ session = None /\ Coming = {} /\ lastId = None /\ shown = None
    BY DEF WatchInv
  <2> QED BY <1>1, <1>3, <2>1
<1> QED BY <1>1, <1>2, <1>6, <1>7, <1>8 DEF WatchInv
(* What a step plays: the next event of the session, or nothing.             *)
LEMMA StepPlays ==
  ASSUME DemoInv, NEW left, Step(left)
  PROVE  /\ session' = session /\ sessions' = sessions /\ step \in Int
         /\ step' = step \/ (step' = step + 1 /\ session # None)
<1>1. step \in Int
  BY StoreAssumption DEF DemoInv, SessionInv, StoreTypeOK
<1>2. CASE Exhausted(left)
  BY <1>1, <1>2 DEF Exhausted, SetStatus
<1>3. CASE Advance(left)
  BY <1>1, <1>3 DEF Advance, AppendEvent, Record, Refused
<1>4. CASE AdvanceRefused(left) \/ EngineFails(left)
  BY <1>1, <1>4 DEF AdvanceRefused, EngineFails, storeVars
<1> QED BY <1>2, <1>3, <1>4 DEF Step

LEMMA StatusIsMessage ==
  ASSUME DemoInv'
  PROVE  /\ StatusMessage \in Message /\ StatusMessage.kind = "demo_status"
         /\ [kind |-> "complete", step |-> step'] \in Message
BY DEF StatusMessage, Message, DemoInv, SessionInv, StoreTypeOK

(* The event broadcast is the one just played, before the word that it was   *)
(* the last.                                                                *)
LEMMA StepIsBroadcast ==
  ASSUME DemoInv, DemoInv', NEW left, Step(left)
  PROVE  /\ StepMessages \in Seq(Message)
         /\ \A k \in 1..Len(StepMessages) :
              StepMessages[k].kind = "event" =>
                k = 1 /\ StepMessages[k].event.index = step' /\ step' > step /\ session # None
<1> DEFINE event == [kind |-> "event", event |-> Last(history')]
           complete == [kind |-> "complete", step |-> step']
           first == IF step' # step THEN <<event>> ELSE <<>>
           second == IF status' = "COMPLETED" THEN <<complete>> ELSE <<>>
<1>1. /\ session' = session /\ step \in Int
      /\ step' = step \/ (step' = step + 1 /\ session # None)
  BY StepPlays
<1>2. complete \in Message /\ complete.kind # "event"
  BY StatusIsMessage
<1>3. step' # step => /\ event \in Message /\ event.event.index = step'
                      /\ step' > step /\ session # None
  <2> SUFFICES ASSUME step' # step
               PROVE  event \in Message /\ event.event.index = step'
    BY <1>1
  <2> DEFINE n == Len(history')
  <2>1. /\ n \in Nat /\ DOMAIN history' = 1..n /\ step' \in Int /\ step >= -1
        /\ history' \in Seq(DemoEvent)
    BY StoreAssumption, LenProperties DEF DemoInv, SessionInv, StoreTypeOK
  <2>2. n >= 1
    <3>1. n = Min({step' + 1, MaxHistory})
      BY DEF DemoInv, SessionInv, HistoryContiguous
    <3>2. step' + 1 >= 1 /\ step' + 1 \in Int /\ MaxHistory >= 1 /\ MaxHistory \in Int
      <4>1. MaxHistory >= 1 /\ MaxHistory \in Int
        BY StoreAssumption
      <4>2. step' = step + 1
        BY <1>1
      <4> HIDE DEF n
      <4> QED BY <1>1, <2>1, <4>1, <4>2
    <3> HIDE DEF n
    <3> QED BY <3>1, <3>2, MinOfTwo
  <2>3. n \in 1..n
    BY <2>1, <2>2
  <2>4. history'[n] \in DemoEvent /\ history'[n].index = step'
    <3>1. \A k \in 1..n : history'[k].index = step' - n + k
      BY <2>1 DEF DemoInv, SessionInv, HistoryContiguous
    <3>2. step' - n + n = step'
      BY <2>1
    <3> QED BY <2>1, <2>3, <3>1, <3>2, ElementOfSeq
  <2>5. Last(history') = history'[n]
    BY DEF Last
  <2> QED BY <2>4, <2>5 DEF Message
<1>4. StepMessages = first \o second
  BY DEF StepMessages
<1> HIDE DEF event, complete
<1>5. first \in Seq(Message) /\ second \in Seq(Message)
  BY <1>2, <1>3
<1>6. /\ Len(first) = IF step' # step THEN 1 ELSE 0
      /\ Len(second) = IF status' = "COMPLETED" THEN 1 ELSE 0
      /\ step' # step => first[1] = event
      /\ status' = "COMPLETED" => second[1] = complete
  OBVIOUS
<1> HIDE DEF first, second
<1>7. /\ StepMessages \in Seq(Message) /\ Len(StepMessages) = Len(first) + Len(second)
      /\ \A k \in 1..(Len(first) + Len(second)) :
           StepMessages[k] = IF k <= Len(first) THEN first[k] ELSE second[k - Len(first)]
  BY <1>4, <1>5, ConcatProperties
<1>8. ASSUME NEW k \in 1..Len(StepMessages), StepMessages[k].kind = "event"
      PROVE  k = 1 /\ StepMessages[k].event.index = step' /\ step' > step /\ session # None
  <2>1. CASE k <= Len(first)
    <3>1. step' # step /\ k = 1
      BY <1>6, <2>1
    <3> QED BY <1>3, <1>6, <1>7, <2>1, <3>1
  <2>2. CASE ~(k <= Len(first))
    <3>1. status' = "COMPLETED" /\ k - Len(first) = 1
      BY <1>6, <1>7, <2>2
    <3>2. StepMessages[k] = complete
      BY <1>6, <1>7, <2>2, <3>1
    <3> QED BY <1>2, <1>8, <3>2
  <2> QED BY <2>1, <2>2
<1> QED BY <1>7, <1>8
(* A request, or the adapter by itself, and what it broadcasts.              *)
LEMMA ControlIsWatched ==
  ASSUME MaxSessions = 1, WatchInv, Control
  PROVE  WatchInv'
<1>1. DemoInv /\ (sessions = 0 => session = None) /\ sessions \in Nat /\ sessions <= 1
  BY DEF WatchInv, DemoInv, SessionInv, StoreTypeOK
<1>2. ASSUME DemoInv', Broadcast(<<StatusMessage>>),
             session' # None => sessions = 0 \/ (session' = session /\ step' >= step),
             sessions' = 0 => sessions = 0 /\ session' = None,
             session # None => sessions' # 0
      PROVE  WatchInv'
  <2> DEFINE msgs == <<StatusMessage>>
  <2>1. msgs \in Seq(Message) /\ Len(msgs) = 1 /\ msgs[1] = StatusMessage
    BY <1>2, StatusIsMessage
  <2>2. \A k \in 1..Len(msgs) :
          msgs[k].kind = "event" => k = 1 /\ msgs[k].event.index = step' /\ step' > step
                                    /\ session # None
    BY <1>2, <2>1, StatusIsMessage
  <2> HIDE DEF msgs
  <2> QED BY <1>2, <2>1, <2>2, BroadcastKeeps DEF msgs
<1>3. ASSUME NEW n \in 1..MaxSteps, Start(n, 0), Broadcast(<<StatusMessage>>) PROVE WatchInv'
  <2>1. DemoInv'
    BY <1>1, <1>3, StartKeeps
  <2>2. sessions = 0 /\ sessions' = 1
    BY <1>1, <1>3 DEF Start, CreateSession
  <2> QED BY <1>1, <1>2, <1>3, <2>1, <2>2
<1>4. ASSUME Pause \/ Resume \/ Reset, Broadcast(<<StatusMessage>>) PROVE WatchInv'
  <2>1. DemoInv'
    BY <1>1, <1>4, ControlKeeps
  <2>2. sessions' = sessions /\ (session' = None \/ (session' = session /\ step' = step))
        /\ step \in Int
    BY <1>1, <1>4, WatchedAreNumbers DEF Pause, Resume, Reset, ResetStore, SetStatus
  <2>3. step >= step
    BY <2>2
  <2> QED BY <1>1, <1>2, <1>4, <2>1, <2>2, <2>3
<1>5. ASSUME StepByHand, Broadcast(StepMessages) PROVE WatchInv'
  <2>1. Step(timers)
    BY <1>5 DEF StepByHand
  <2>2. DemoInv'
    BY <1>1, <2>1, StepKeeps
  <2>3. /\ session' = session /\ sessions' = sessions /\ step \in Int
        /\ step' = step \/ step' = step + 1
    BY <1>1, <2>1, StepPlays
  <2>4. step' >= step
    BY <2>3
  <2>5. /\ StepMessages \in Seq(Message)
        /\ \A k \in 1..Len(StepMessages) :
             StepMessages[k].kind = "event" =>
               k = 1 /\ StepMessages[k].event.index = step' /\ step' > step /\ session # None
    BY <1>1, <2>1, <2>2, StepIsBroadcast
  <2> QED BY <1>1, <1>5, <2>2, <2>3, <2>4, <2>5, BroadcastKeeps
<1> QED BY <1>3, <1>4, <1>5 DEF Control

(* Between two connections nothing comes.                                    *)
LEMMA CloseKeeps ==
  ASSUME WatchInv, Close
  PROVE  WatchInv'
<1>1. UNCHANGED <<session, sessions, mode, status, step, total, history,
                  speed, generator, timer, timers, lastId, shown>>
      /\ phase' = "offline" /\ backlog' = <<>> /\ queue' = <<>> /\ UNCHANGED vars
  BY DEF Close, vars, storeVars, demoVars, uiVars
<1>2. DemoInv'
  BY <1>1, DemoStep DEF vars, storeVars, demoVars, WatchInv
<1>3. Coming' = {} /\ backlog' \in Seq(DemoEvent) /\ queue' \in Seq(Message)
  BY <1>1, NothingComes
<1>4. SentOnce'
  BY <1>1, <1>3 DEF WatchInv, SentOnce
<1>5. session # None => Played'
  BY <1>1, <1>3 DEF WatchInv, Played
<1> QED BY <1>1, <1>2, <1>3, <1>4, <1>5 DEF WatchInv

(* The browser loads before it connects: nothing comes, nothing came.        *)
LEMMA LoadKeeps ==
  ASSUME WatchInv, LoadStatus \/ LoadEvents
  PROVE  WatchInv'
<1>1. UNCHANGED <<session, sessions, mode, status, step, total, history,
                  speed, generator, timer, timers, lastId, backlog, queue>>
      /\ UNCHANGED vars
  BY DEF LoadStatus, LoadEvents, vars, storeVars, demoVars
<1>2. DemoInv'
  BY <1>1, DemoStep DEF vars, storeVars, demoVars, WatchInv
<1>3. phase \in {"loading", "loadingEvents"} /\ phase' \in {"loadingEvents", "offline"}
  BY DEF LoadStatus, LoadEvents
<1>4. backlog = <<>> /\ queue = <<>> /\ lastId = None
  BY <1>3 DEF WatchInv
<1>5. Coming = {} /\ Coming' = {}
  BY <1>1, <1>4 DEF Coming
<1>6. \/ shown' = shown
      \/ shown' = None
      \/ shown' \in DemoEvent /\ shown'.index = step /\ session # None
  <2>1. CASE LoadStatus
    BY <2>1 DEF LoadStatus
  <2>2. CASE LoadEvents
    <3>1. /\ Len(history) \in Nat /\ DOMAIN history = 1..Len(history) /\ step \in Int
          /\ \A k \in 1..Len(history) : /\ history[k] \in DemoEvent
                                        /\ history[k].index = (step - Len(history)) + k
      BY HistoryIsIndexed DEF WatchInv, DemoInv, SessionInv
    <3>2. CASE history = <<>>
      BY <2>2, <3>2 DEF LoadEvents
    <3>3. CASE history # <<>>
      <4>1. Len(history) \in 1..Len(history) /\ (step - Len(history)) + Len(history) = step
        <5>1. Len(history) # 0
          BY <3>3, EmptySeq DEF WatchInv, DemoInv, SessionInv, StoreTypeOK
        <5> QED BY <3>1, <5>1
      <4>2. shown' = history[Len(history)]
        BY <2>2, <3>3 DEF LoadEvents, Last
      <4>3. session \in SessionId
        BY <3>1, <4>1 DEF WatchInv, DemoInv, SessionInv, OwnEvents, DemoEvent
      <4>4. session # None
        BY <4>3, StoreAssumption DEF SessionId
      <4> QED BY <3>1, <4>1, <4>2, <4>4
    <3> QED BY <3>2, <3>3
  <2> QED BY <2>1, <2>2
<1>7. SentOnce'
  BY <1>1, <1>4, <1>5 DEF SentOnce
<1>8. session # None => Played'
  BY <1>1, <1>4, <1>5, <1>6, WatchedAreNumbers DEF WatchInv, Played
<1>9. shown' \in DemoEvent \union {None} /\ (sessions = 0 => shown' = None)
  BY <1>6 DEF WatchInv
<1> QED BY <1>1, <1>2, <1>3, <1>4, <1>5, <1>7, <1>8, <1>9 DEF WatchInv
(* What a browser missed is the end of the history, after what it has.       *)
LEMMA MissedIsNew ==
  ASSUME WatchInv
  PROVE  /\ Missed \in Seq(DemoEvent)
         /\ \A k \in 1..Len(Missed) : /\ Missed[k].index \in Nat /\ Missed[k].index <= step
                                      /\ lastId # None /\ lastId < Missed[k].index
         /\ \A j, k \in 1..Len(Missed) : j < k => Missed[j].index < Missed[k].index
         /\ Missed # <<>> => history # <<>>
<1>1. CASE lastId = None
  BY <1>1 DEF Missed
<1>2. CASE lastId # None
  <2> DEFINE n == Len(history)
  <2>1. lastId \in Nat /\ lastId + 1 \in Int
    BY <1>2, WatchedAreNumbers
  <2>2. StoreTypeOK /\ HistoryContiguous
    BY DEF WatchInv, DemoInv, SessionInv
  <2>3. /\ n \in Nat /\ DOMAIN history = 1..n /\ step \in Int
        /\ \A k \in 1..n : history[k] \in DemoEvent /\ history[k].index = (step - n) + k
    BY <2>2, HistoryIsIndexed
  <2>4. PICK a \in 1..(n + 1) :
          {k \in DOMAIN history : lastId + 1 = None \/ history[k].index >= lastId + 1} = a..n
    BY <2>1, <2>2, KeptIsTheEnd
  <2> DEFINE c == (n - a) + 1
  <2>5. c \in Nat
    BY <2>3
  <2>6. EventsSince(lastId + 1) = [j \in 1..c |-> history[(a + j) - 1]]
    <3>1. EventsSince(lastId + 1) = Selected(history, a..n)
      BY <2>4 DEF EventsSince
    <3> HIDE DEF n
    <3> QED BY <2>3, <3>1, SelectedEnd
  <2>7. Missed = EventsSince(lastId + 1)
    BY <1>2 DEF Missed, GetEventHistory
  <2>8. ASSUME NEW j \in 1..c
        PROVE  /\ (a + j) - 1 \in a..n /\ (a + j) - 1 \in 1..n
               /\ Missed[j] = history[(a + j) - 1] /\ Missed[j] \in DemoEvent
               /\ Missed[j].index = (step - n) + ((a + j) - 1)
               /\ Missed[j].index >= lastId + 1
    <3>1. (a + j) - 1 \in a..n /\ (a + j) - 1 \in 1..n
      <4> HIDE DEF n
      <4> QED BY <2>3
    <3>2. Missed[j] = history[(a + j) - 1]
      <4> HIDE DEF c, n
      <4> QED BY <2>6, <2>7
    <3> DEFINE i == (a + j) - 1
    <3>3. history[i].index >= lastId + 1
      <4>1. i \in {k \in DOMAIN history : lastId + 1 = None \/ history[k].index >= lastId + 1}
        BY <2>4, <3>1
      <4>2. lastId + 1 # None
        BY <2>1, StoreAssumption
      <4> HIDE DEF i
      <4> QED BY <4>1, <4>2
    <3>4. history[i] \in DemoEvent /\ history[i].index = (step - n) + i
      <4> HIDE DEF n
      <4> QED BY <2>3, <3>1
    <3> QED BY <3>1, <3>2, <3>3, <3>4
  <2>9. Missed \in [1..c -> DemoEvent]
    <3> HIDE DEF c
    <3> QED BY <2>6, <2>7, <2>8
  <2>10. Missed \in Seq(DemoEvent) /\ Len(Missed) = c
    <3> HIDE DEF c
    <3> QED BY <2>5, <2>9, FunctionIsSeq
  <2>11. ASSUME NEW k \in 1..c
         PROVE  Missed[k].index \in Nat /\ Missed[k].index <= step /\ lastId < Missed[k].index
    <3> HIDE DEF n
    <3>1. Missed[k].index \in Nat
      BY <2>8, <2>11, IndexIsNat
    <3>2. (step - n) + ((a + k) - 1) <= step
      BY <2>3
    <3> QED BY <2>1, <2>8, <2>11, <3>1, <3>2
  <2>12. ASSUME NEW j \in 1..c, NEW k \in 1..c, j < k PROVE Missed[j].index < Missed[k].index
    <3> HIDE DEF n
    <3>1. (step - n) + ((a + j) - 1) < (step - n) + ((a + k) - 1)
      BY <2>3, <2>12
    <3> QED BY <2>8, <3>1
  <2>13. Missed # <<>> => history # <<>>
    <3> SUFFICES ASSUME history = <<>> PROVE Missed = <<>>
      OBVIOUS
    <3>1. n = 0
      OBVIOUS
    <3>2. c = 0
      BY <2>3, <3>1
    <3> QED BY <2>10, <3>2, EmptySeq
  <2> HIDE DEF c
  <2> QED BY <1>2, <2>10, <2>11, <2>12, <2>13
<1> QED BY <1>1, <1>2

LEMMA ConnectKeeps ==
  ASSUME WatchInv, Connect
  PROVE  WatchInv'
<1>1. UNCHANGED <<session, sessions, mode, status, step, total, history,
                  speed, generator, timer, timers, lastId, shown, queue>>
      /\ phase = "offline" /\ phase' = "replaying" /\ backlog' = Missed /\ UNCHANGED vars
  BY DEF Connect, vars, storeVars, demoVars, uiVars
<1>2. DemoInv'
  BY <1>1, DemoStep DEF vars, storeVars, demoVars, WatchInv
<1>3. queue = <<>> /\ queue' = <<>>
  BY <1>1 DEF WatchInv
<1> DEFINE missed == Missed
<1>4. /\ missed \in Seq(DemoEvent) /\ DOMAIN missed = 1..Len(missed) /\ Len(missed) \in Nat
      /\ \A k \in 1..Len(missed) : /\ missed[k].index \in Nat /\ missed[k].index <= step
                                   /\ lastId # None /\ lastId < missed[k].index
      /\ \A j, k \in 1..Len(missed) : j < k => missed[j].index < missed[k].index
      /\ missed # <<>> => history # <<>>
  BY MissedIsNew, LenProperties
<1> HIDE DEF missed
<1>5. Coming' = {<<k, missed[k].index>> : k \in 1..Len(missed)}
  <2>1. backlog' = missed /\ DOMAIN queue' = {}
    BY <1>1, <1>3 DEF missed
  <2> QED BY <1>4, <2>1 DEF Coming
<1>6. ASSUME NEW x \in Coming'
      PROVE  \E k \in 1..Len(missed) : x[1] = k /\ x[2] = missed[k].index
  BY <1>5
<1>7. SentOnce'
  <2>1. ASSUME NEW x \in Coming', NEW y \in Coming', x[1] < y[1] PROVE x[2] < y[2]
    <3>1. PICK j \in 1..Len(missed) : x[1] = j /\ x[2] = missed[j].index
      BY <1>6
    <3>2. PICK k \in 1..Len(missed) : y[1] = k /\ y[2] = missed[k].index
      BY <1>6
    <3> QED BY <1>4, <2>1, <3>1, <3>2
  <2>2. ASSUME NEW x \in Coming' PROVE lastId # None /\ lastId < x[2] /\ x[2] \in Nat
    BY <1>4, <1>6
  <2>3. shown # None /\ lastId # None => shown.index <= lastId
    BY DEF WatchInv, SentOnce
  <2>4. shown # None => \A x \in Coming' : shown.index <= x[2]
    BY <2>2, <2>3, WatchedAreNumbers
  <2> QED BY <1>1, <2>1, <2>2, <2>3, <2>4 DEF SentOnce
<1>8. session # None => Played'
  <2>1. \A x \in Coming' : x[2] <= step
    BY <1>4, <1>6
  <2> QED BY <1>1, <2>1 DEF WatchInv, Played
<1>9. sessions = 0 => Coming' = {}
  <2> SUFFICES ASSUME sessions = 0 PROVE Coming' = {}
    OBVIOUS
  <2>1. lastId = None
    BY DEF WatchInv
  <2> QED BY <1>4, <1>6, <2>1
<1>10. backlog' \in Seq(DemoEvent)
  BY <1>1, <1>4 DEF missed
<1> QED BY <1>1, <1>2, <1>3, <1>7, <1>8, <1>9, <1>10 DEF WatchInv

LEMMA SubscribeKeeps ==
  ASSUME WatchInv, Subscribe
  PROVE  WatchInv'
<1>1. UNCHANGED <<session, sessions, mode, status, step, total, history,
                  speed, generator, timer, timers, lastId, shown, queue, backlog>>
      /\ phase' = "live" /\ backlog = <<>> /\ UNCHANGED vars
  BY DEF Subscribe, vars, storeVars, demoVars, uiVars
<1>2. DemoInv'
  BY <1>1, DemoStep DEF vars, storeVars, demoVars, WatchInv
<1>3. Coming' = Coming
  BY <1>1 DEF Coming
<1>4. SentOnce' /\ (session # None => Played')
  BY <1>1, <1>3 DEF WatchInv, SentOnce, Played
<1> QED BY <1>1, <1>2, <1>3, <1>4 DEF WatchInv

LEMMA ReplayKeeps ==
  ASSUME WatchInv, Replay
  PROVE  WatchInv'
<1>1. phase = "replaying" /\ backlog # <<>> /\ EventShown(Head(backlog))
      /\ backlog' = Tail(backlog) /\ UNCHANGED <<vars, phase>> /\ UNCHANGED queue
  BY DEF Replay
<1>2. queue = <<>> /\ queue' = <<>> /\ backlog \in Seq(DemoEvent)
  BY <1>1 DEF WatchInv
<1> DEFINE n == Len(backlog)
<1>3. /\ n \in Nat /\ n >= 1 /\ DOMAIN backlog = 1..n
      /\ Head(backlog) = backlog[1] /\ Head(backlog) \in DemoEvent
      /\ backlog' \in Seq(DemoEvent) /\ Len(backlog') = n - 1
      /\ \A k \in 1..(n - 1) : backlog'[k] = backlog[k + 1]
  BY <1>1, <1>2, HeadTailProperties, LenProperties, ElementOfSeq, EmptySeq
<1>4. DOMAIN backlog' = 1..(n - 1)
  BY <1>3, LenProperties
<1>5. Coming = {<<k, backlog[k].index>> : k \in 1..n}
      /\ Coming' = {<<k, backlog'[k].index>> : k \in 1..(n - 1)}
  <2>1. DOMAIN queue = {} /\ DOMAIN queue' = {}
    BY <1>2
  <2> QED BY <1>3, <1>4, <2>1 DEF Coming
<1> HIDE DEF n
<1>6. \E x \in Coming : x[1] = 1 /\ x[2] = Head(backlog).index
  <2>1. <<1, backlog[1].index>> \in Coming
    BY <1>3, <1>5
  <2> QED BY <1>3, <2>1
<1>7. ASSUME NEW y \in Coming'
      PROVE  y[1] \in Nat /\ 1 <= y[1] /\ \E x \in Coming : x[1] = y[1] + 1 /\ x[2] = y[2]
  <2>1. PICK k \in 1..(n - 1) : y = <<k, backlog'[k].index>>
    BY <1>5
  <2>2. k + 1 \in 1..n /\ k \in Nat /\ 1 <= k
    BY <1>3
  <2>3. <<k + 1, backlog[k + 1].index>> \in Coming
    BY <1>5, <2>2
  <2> QED BY <1>3, <2>1, <2>2, <2>3
<1>8. queue' \in Seq(Message)
  BY <1>2
<1> QED BY <1>1, <1>2, <1>3, <1>6, <1>7, <1>8, FirstIsShown

LEMMA DeliverKeeps ==
  ASSUME WatchInv, Deliver
  PROVE  WatchInv'
<1>1. phase = "live" /\ queue # <<>> /\ Shown(Head(queue))
      /\ queue' = Tail(queue) /\ UNCHANGED <<vars, phase>> /\ UNCHANGED backlog
  BY DEF Deliver
<1>2. backlog = <<>> /\ backlog' = <<>> /\ queue \in Seq(Message) /\ Len(<<>>) = 0
  BY <1>1 DEF WatchInv
<1> DEFINE n == Len(queue)
           msg == Head(queue)
<1>3. /\ n \in Nat /\ n >= 1 /\ DOMAIN queue = 1..n
      /\ msg = queue[1] /\ msg \in Message
      /\ queue' \in Seq(Message) /\ Len(queue') = n - 1
      /\ \A k \in 1..(n - 1) : queue'[k] = queue[k + 1]
  BY <1>1, <1>2, HeadTailProperties, LenProperties, ElementOfSeq, EmptySeq
<1>4. DOMAIN queue' = 1..(n - 1)
  BY <1>3, LenProperties
<1>5. /\ Coming = {<<0 + k, queue[k].event.index>> : k \in {i \in 1..n : queue[i].kind = "event"}}
      /\ Coming' = {<<0 + k, queue'[k].event.index>> :
                      k \in {i \in 1..(n - 1) : queue'[i].kind = "event"}}
  <2>1. DOMAIN backlog = {} /\ DOMAIN backlog' = {} /\ Len(backlog) = 0 /\ Len(backlog') = 0
    BY <1>2
  <2> QED BY <1>3, <1>4, <2>1 DEF Coming
<1> HIDE DEF n, msg
<1>6. ASSUME NEW y \in Coming'
      PROVE  y[1] \in Nat /\ 1 <= y[1] /\ \E x \in Coming : x[1] = y[1] + 1 /\ x[2] = y[2]
  <2>1. PICK k \in 1..(n - 1) : y = <<0 + k, queue'[k].event.index>> /\ queue'[k].kind = "event"
    BY <1>5
  <2>2. k + 1 \in 1..n /\ k \in Nat /\ 1 <= k /\ queue'[k] = queue[k + 1] /\ 0 + k = k
        /\ 0 + (k + 1) = k + 1
    BY <1>3
  <2>3. <<0 + (k + 1), queue[k + 1].event.index>> \in Coming
    BY <1>5, <2>1, <2>2
  <2> QED BY <2>1, <2>2, <2>3
<1>7. CASE msg.kind = "event"
  <2>1. EventShown(msg.event) /\ msg.event \in DemoEvent
    BY <1>1, <1>3, <1>7 DEF Shown, msg, Message
  <2>2. \E x \in Coming : x[1] = 1 /\ x[2] = msg.event.index
    <3>1. <<0 + 1, queue[1].event.index>> \in Coming
      BY <1>3, <1>5, <1>7
    <3> QED BY <1>3, <3>1
  <2>3. backlog' \in Seq(DemoEvent)
    BY <1>2
  <2> QED BY <1>1, <1>2, <1>3, <1>6, <2>1, <2>2, <2>3, FirstIsShown
<1>8. CASE msg.kind # "event"
  <2>1. shown' \in {shown, None} /\ lastId' = lastId
    BY <1>1, <1>8 DEF Shown, msg, StatusShown, CompletionShown
  <2> QED BY <1>1, <1>2, <1>3, <1>6, <2>1, FirstIsDropped
<1> QED BY <1>7, <1>8

LEMMA WatchStep ==
  ASSUME MaxSessions = 1, WatchInv, [WatchNext]_watchVars
  PROVE  WatchInv'
<1>1. CASE Play \/ Ask
  BY <1>1, ControlIsWatched DEF Play, Ask
<1>2. CASE AskStatus \/ Answered
  <2>1. UNCHANGED <<vars, backlog, queue, phase, lastId>> /\ shown' \in {shown, None}
    BY <1>2 DEF AskStatus, Answered, streamVars, uiVars
  <2> QED BY <2>1, ViewChanges
<1>3. CASE LoadStatus \/ LoadEvents
  BY <1>3, LoadKeeps
<1>4. CASE Connect
  BY <1>4, ConnectKeeps
<1>5. CASE Replay
  BY <1>5, ReplayKeeps
<1>6. CASE Subscribe
  BY <1>6, SubscribeKeeps
<1>7. CASE Deliver
  BY <1>7, DeliverKeeps
<1>8. CASE Heartbeat \/ Lose
  BY <1>8, CloseKeeps DEF Heartbeat, Lose
<1>9. CASE UNCHANGED watchVars
  <2>1. UNCHANGED <<vars, backlog, queue, phase, lastId>> /\ shown' \in {shown, None}
    BY <1>9 DEF watchVars, streamVars, uiVars
  <2> QED BY <2>1, ViewChanges
<1> QED BY <1>1, <1>2, <1>3, <1>4, <1>5, <1>6, <1>7, <1>8, <1>9 DEF WatchNext

LEMMA WatchStarts == WatchInit => WatchInv
<1> SUFFICES ASSUME WatchInit PROVE WatchInv
  OBVIOUS
<1>1. /\ Init /\ phase = "loading" /\ backlog = <<>> /\ queue = <<>> /\ lastId = None
      /\ shown = None
  BY DEF WatchInit
<1>2. DemoInv /\ session = None
  BY <1>1, DemoInit DEF Init, InitStore
<1>3. Coming = {}
  BY <1>1 DEF Coming
<1>4. SentOnce
  BY <1>1, <1>3 DEF SentOnce
<1> QED BY <1>1, <1>2, <1>3, <1>4 DEF WatchInv

(* Within one session the stream sends no event twice and none out of order, *)
(* across any number of broken connections, replays and late answers, and    *)
(* nothing older than what the browser shows is still to come.               *)
THEOREM StreamSendsOnce ==
  ASSUME MaxSessions = 1
  PROVE  WatchSpec => []SentOnce
<1>1. WatchInv /\ [WatchNext]_watchVars => WatchInv'
  BY WatchStep
<1>2. WatchInv => SentOnce
  BY DEF WatchInv
<1> QED BY <1>1, <1>2, WatchStarts, PTL DEF WatchSpec
=============================================================================
