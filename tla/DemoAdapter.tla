----------------------------- MODULE DemoAdapter -----------------------------
(***************************************************************************)
(* runtime/demo_adapter.py: playback of a demo scenario into the store, by *)
(* hand (step) or by a timer task.  The body of every lock section is free *)
(* of awaits, so a method call is one step; a timer task runs one step()   *)
(* each time it wakes.  A cancelled task never steps again.                *)
(***************************************************************************)
EXTENDS RuntimeReads

CONSTANT Speeds \* playback speeds clients ask for; 0 means by hand only

VARIABLES
  speed,     \* self.speed
  generator, \* self._generator, None for none
  timer,     \* self._timer_task, None for none
  timers     \* timer tasks still alive, whoever refers to them

demoVars == <<speed, generator, timer, timers>>
vars == <<storeVars, demoVars>>

\* Two ids are enough to tell a second worker from the first.
TimerId == 1..2

\* A generator over the states of one scenario run.  It is closed after its
\* last event, and for good when the engine raised in it.
Generator == [run : SessionId, next : 0..MaxSteps, total : 1..MaxSteps, failed : BOOLEAN]
Closed(g) == g.failed \/ g.next = g.total

ASSUME DemoAssumption == Speeds \subseteq Nat /\ None \notin Generator

InitDemo ==
  /\ speed = 1
  /\ generator = None
  /\ timer = None
  /\ timers = {}

Init == InitStore /\ InitDemo

-----------------------------------------------------------------------------
StopTimer ==
  /\ timers' = timers \ {timer}
  /\ timer' = None

\* A new worker replaces the one the adapter refers to, if it wants one.
StartTimerFrom(others, s) ==
  IF s > 0
  THEN /\ timer' = Min(TimerId \ others)
       /\ timers' = others \union {timer'}
  ELSE timer' = None /\ timers' = others

StartTimerKeepsOld(s) == StartTimerFrom(timers, s)

StartTimer(s) == StartTimerFrom(timers \ {timer}, s)

StartKeepsGenerator(n, s) ==
  /\ speed' = s
  /\ CreateSession(n, "DEMO")
  /\ generator' = IF generator # None THEN generator
                  ELSE [run |-> sessions', next |-> 0, total |-> n, failed |-> FALSE]
  /\ StartTimer(s)

\* start(): an unknown scenario is refused before anything changes.
Start(n, s) ==
  /\ speed' = s
  /\ CreateSession(n, "DEMO")
  /\ generator' = [run |-> sessions', next |-> 0, total |-> n, failed |-> FALSE]
  /\ StartTimer(s)

PauseKeepsTimer ==
  /\ status = "RUNNING"
  /\ SetStatus("PAUSED")
  /\ UNCHANGED demoVars

Pause ==
  /\ status = "RUNNING"
  /\ StopTimer
  /\ SetStatus("PAUSED")
  /\ UNCHANGED <<speed, generator>>

ResumeByHand ==
  /\ status = "PAUSED"
  /\ SetStatus("RUNNING")
  /\ UNCHANGED demoVars

Resume ==
  /\ status = "PAUSED"
  /\ SetStatus("RUNNING")
  /\ IF speed > 0 THEN StartTimer(speed) ELSE UNCHANGED <<timer, timers>>
  /\ UNCHANGED <<speed, generator>>

Reset ==
  /\ StopTimer
  /\ generator' = None
  /\ ResetStore
  /\ UNCHANGED speed

SetSpeedOnlyStops(s) ==
  /\ speed' = s
  /\ IF status = "RUNNING" /\ s = 0 THEN StopTimer ELSE UNCHANGED <<timer, timers>>
  /\ UNCHANGED <<storeVars, generator>>

SetSpeed(s) ==
  /\ speed' = s
  /\ IF status = "RUNNING" THEN StartTimer(s) ELSE UNCHANGED <<timer, timers>>
  /\ UNCHANGED <<storeVars, generator>>

-----------------------------------------------------------------------------
(* step(), called by a client or by a timer task.  left is what remains of  *)
(* the timer tasks when the caller is done.                                 *)

Advance(left) ==
  LET e == [run |-> generator.run, index |-> generator.next] IN
  /\ generator' = [generator EXCEPT !.next = @ + 1]
  /\ AppendEvent(e)
  /\ IF step' >= total - 1
     THEN timer' = None /\ timers' = left \ {timer}
     ELSE UNCHANGED timer /\ timers' = timers

\* The store raises: the event is lost, and a timer that asked for it ends.
AdvanceRefused(left) ==
  /\ Refused([run |-> generator.run, index |-> generator.next])
  /\ generator' = [generator EXCEPT !.next = @ + 1]
  /\ timers' = left
  /\ UNCHANGED <<storeVars, timer>>

\* The engine raises inside the generator, which ends it.
EngineFails(left) ==
  /\ generator' = [generator EXCEPT !.failed = TRUE]
  /\ timers' = left
  /\ UNCHANGED <<storeVars, timer>>

\* StopIteration
Exhausted(left) ==
  /\ SetStatus("COMPLETED")
  /\ timer' = None
  /\ timers' = left \ {timer}
  /\ UNCHANGED generator

Step(left) ==
  /\ status \in {"RUNNING", "PAUSED"}
  /\ generator # None
  /\ \/ Closed(generator) /\ Exhausted(left)
     \/ ~Closed(generator) /\ (Advance(left) \/ AdvanceRefused(left) \/ EngineFails(left))
  /\ UNCHANGED speed

\* /demo/step: with nothing to play, or before a start, it changes nothing.
StepByHand == Step(timers)

\* A timer that finds nothing to do ends.
TimerStep(t) ==
  /\ t \in timers
  /\ \/ status = "RUNNING" /\ Step(timers \ {t})
     \/ /\ status # "RUNNING" \/ generator = None
        /\ timers' = timers \ {t}
        /\ UNCHANGED <<storeVars, speed, generator, timer>>

Next ==
  \/ \E n \in 1..MaxSteps, s \in Speeds : Start(n, s)
  \/ Pause
  \/ Resume
  \/ Reset
  \/ \E s \in Speeds : SetSpeed(s)
  \/ StepByHand
  \/ \E t \in TimerId : TimerStep(t)

\* The event loop wakes every timer task that is alive.
Fairness == \A t \in TimerId : WF_vars(TimerStep(t))

Spec == Init /\ [][Next]_vars /\ Fairness
-----------------------------------------------------------------------------
DemoTypeOK ==
  /\ speed \in Nat
  /\ generator \in Generator \union {None}
  /\ timer \in TimerId \union {None}
  /\ timers \subseteq TimerId

TypeOK == StoreTypeOK /\ DemoTypeOK

(* "Single canonical state; no worker duplication": however start, pause,   *)
(* resume and speed calls race, one timer task at most is alive and the     *)
(* adapter can cancel it; a session that is paused, or played by hand, does *)
(* not move by itself; and one shown as playing will be stepped, unless the *)
(* engine failed.                                                           *)
TimerFitsStatus ==
  /\ timers \subseteq {timer}
  /\ (status # "RUNNING" \/ speed = 0) => timers = {}
  /\ (status = "RUNNING" /\ speed > 0) => timers # {} \/ generator.failed

(* A session shows events of its own scenario run only: a restart in the    *)
(* middle of a playback leaves nothing of the old one behind.               *)
OwnEvents ==
  /\ \A k \in DOMAIN history : history[k].run = session
  /\ generator # None => generator.run = session

(* COMPLETED means that the scenario was played to its end, unless the      *)
(* engine failed: no race of a step, a pause and a timer skips an event.    *)
CompletedIsPlayed ==
  status = "COMPLETED" => step = total - 1 \/ generator.failed

(* Whatever races, the browser is shown one scenario run, in order, without *)
(* a gap or a repeat, and to its end before it is called completed, by       *)
(* whichever route of the API it reads it.                                  *)
SessionIsInOrder == OwnEvents /\ HistoryContiguous /\ CompletedIsPlayed /\ ReadsAgree

(* A playback reaches its end, or is stopped by a client, or by the engine. *)
PlaybackEnds ==
  status = "RUNNING" /\ speed > 0 ~> status # "RUNNING" \/ speed = 0 \/ generator.failed
=============================================================================
