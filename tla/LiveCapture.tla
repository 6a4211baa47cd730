----------------------------- MODULE LiveCapture -----------------------------
(***************************************************************************)
(* runtime/live/live_controller.py beside the demo adapter, behind the     *)
(* routes of runtime/api.py.  A live run is a task that sleeps through a   *)
(* window, turns its packets into one event and appends it to the store    *)
(* the demo uses too.  stop() cancels the task, which then wakes once more *)
(* to call stop() itself.                                                  *)
(***************************************************************************)
EXTENDS DemoAdapter

CONSTANT StartCanFail \* whether tshark or the traffic generator may fail to start

VARIABLES
  isActive,  \* self.is_active
  liveTask,  \* self._task, None for none
  liveTasks, \* the live tasks: where each one is and the windows it has left
  windows,   \* len(self.states)
  capture,   \* self.capture, by the run that made it; None before any
  captures   \* runs whose tshark process is alive

liveVars == <<isActive, liveTask, liveTasks, windows, capture, captures>>
runtimeVars == <<storeVars, demoVars, liveVars>>

ASSUME LiveAssumption == StartCanFail \in BOOLEAN

LiveTaskId == 1..MaxSessions
\* new: not started; waiting: asleep in its window; cancelled: asleep, to wake
\* with CancelledError.
Phase == {"new", "waiting", "cancelled", "done"}
Done == [phase |-> "done", left |-> 0]
\* The loops that will still record windows.
Looping == {t \in LiveTaskId : liveTasks[t].phase \in {"new", "waiting"}}

RuntimeInit ==
  /\ Init
  /\ isActive = FALSE
  /\ liveTask = None
  /\ liveTasks = [t \in LiveTaskId |-> Done]
  /\ windows = 0
  /\ capture = None
  /\ captures = {}

-----------------------------------------------------------------------------
(* /live/start *)

LiveStartRefused == isActive \/ (status = "RUNNING" /\ mode = "DEMO")

LiveRun(n) ==
  LET t == Min({u \in LiveTaskId : liveTasks[u] = Done}) IN
  /\ captures' = captures \union {sessions'}
  /\ isActive' = TRUE
  /\ liveTask' = t
  /\ liveTasks' = [liveTasks EXCEPT ![t] = [phase |-> "new", left |-> n]]

\* tshark, or after it the traffic generator, raises: the session stays.
LiveRunFails ==
  /\ StartCanFail
  /\ captures' \in {captures, captures \union {sessions'}}
  /\ UNCHANGED <<isActive, liveTask, liveTasks>>

\* No tshark, Npcap or loopback interface: the constructor raises after the
\* last run's states are cleared and before there is a session.
NoBackend ==
  /\ StartCanFail
  /\ ~LiveStartRefused
  /\ windows' = 0
  /\ UNCHANGED <<storeVars, demoVars, isActive, liveTask, liveTasks, capture, captures>>

LiveStart(n) ==
  /\ ~LiveStartRefused
  /\ CreateSession(n, "LIVE_PACKET_CAPTURE")
  /\ windows' = 0
  /\ capture' = sessions'
  /\ LiveRun(n) \/ LiveRunFails
  /\ UNCHANGED demoVars

-----------------------------------------------------------------------------
(* stop(), called by a route (caller None) or by a live task.               *)

CancelIgnored(task) == task

\* A task that has not started is gone at once.
CancelTask(task) ==
  CASE task.phase = "new" -> Done
    [] task.phase = "waiting" -> [task EXCEPT !.phase = "cancelled"]
    [] OTHER -> task

Halt(caller) ==
  LET others == IF caller = None THEN liveTasks ELSE [liveTasks EXCEPT ![caller] = Done] IN
  /\ isActive' = FALSE
  /\ IF liveTask # None /\ liveTask # caller /\ liveTasks[liveTask] # Done
     THEN /\ liveTasks' = [others EXCEPT ![liveTask] = CancelTask(@)]
          /\ liveTask' = None
     ELSE liveTasks' = others /\ UNCHANGED liveTask
  /\ captures' = captures \ {capture}
  /\ UNCHANGED capture

\* The guard asks for a capture that was ever made, not for one that is running.
LiveStop ==
  /\ isActive \/ capture # None
  /\ Halt(None)
  /\ SetStatus("COMPLETED")
  /\ UNCHANGED <<demoVars, windows>>

-----------------------------------------------------------------------------
(* _run_live_loop *)

LiveBegin(t) ==
  /\ liveTasks[t].phase = "new"
  /\ liveTasks' = [liveTasks EXCEPT ![t].phase = "waiting"]
  /\ UNCHANGED <<storeVars, demoVars, isActive, liveTask, windows, capture, captures>>

\* The run the event belongs to is the controller's, which made its states.
Window == [run |-> capture, index |-> windows]

LiveWindow(t) ==
  /\ liveTasks[t].phase = "waiting"
  /\ liveTasks[t].left > 1
  /\ isActive
  /\ AppendEvent(Window)
  /\ windows' = windows + 1
  /\ liveTasks' = [liveTasks EXCEPT ![t].left = @ - 1]
  /\ UNCHANGED <<demoVars, isActive, liveTask, capture, captures>>

LastWindowWithoutStop(t) ==
  /\ liveTasks[t].phase = "waiting"
  /\ liveTasks[t].left = 1
  /\ Record(Window, "COMPLETED")
  /\ windows' = windows + 1
  /\ liveTasks' = [liveTasks EXCEPT ![t] = Done]
  /\ UNCHANGED <<demoVars, isActive, liveTask, capture, captures>>

LiveLastWindow(t) ==
  /\ liveTasks[t].phase = "waiting"
  /\ liveTasks[t].left = 1 \/ ~isActive
  /\ Record(Window, "COMPLETED")
  /\ windows' = windows + 1
  /\ Halt(t)
  /\ UNCHANGED demoVars

\* The engine, or append_event, raises: the loop stops the run.
LiveError(t) ==
  /\ liveTasks[t].phase = "waiting"
  /\ Halt(t)
  /\ SetStatus("COMPLETED")
  /\ windows' = windows + 1
  /\ UNCHANGED demoVars

LiveCancelled(t) ==
  /\ liveTasks[t].phase = "cancelled"
  /\ Halt(t)
  /\ SetStatus("COMPLETED")
  /\ UNCHANGED <<demoVars, windows>>

LiveTaskStep(t) ==
  LiveBegin(t) \/ LiveWindow(t) \/ LiveLastWindow(t) \/ LiveError(t) \/ LiveCancelled(t)

-----------------------------------------------------------------------------
(* The demo routes *)

DemoStart(n, s) == ~isActive /\ Start(n, s) /\ UNCHANGED liveVars

DemoReset ==
  /\ Reset
  /\ IF isActive THEN Halt(None) /\ UNCHANGED windows ELSE UNCHANGED liveVars

DemoControl ==
  /\ \/ Pause
     \/ Resume
     \/ \E s \in Speeds : SetSpeed(s)
     \/ StepByHand
  /\ UNCHANGED liveVars

Playback(t) == TimerStep(t) /\ UNCHANGED liveVars

RuntimeNext ==
  \/ \E n \in 1..MaxSteps, s \in Speeds : DemoStart(n, s)
  \/ DemoReset
  \/ DemoControl
  \/ \E t \in TimerId : Playback(t)
  \/ \E n \in 1..MaxSteps : LiveStart(n)
  \/ NoBackend
  \/ LiveStop
  \/ \E t \in LiveTaskId : LiveTaskStep(t)

\* The event loop wakes every task that is alive.
RuntimeFairness ==
  /\ \A t \in TimerId : WF_runtimeVars(Playback(t))
  /\ \A t \in LiveTaskId : WF_runtimeVars(LiveTaskStep(t))

RuntimeSpec == RuntimeInit /\ [][RuntimeNext]_runtimeVars /\ RuntimeFairness
-----------------------------------------------------------------------------
RuntimeTypeOK ==
  /\ TypeOK
  /\ isActive \in BOOLEAN
  /\ liveTask \in LiveTaskId \union {None}
  /\ liveTasks \in [LiveTaskId -> [phase : Phase, left : 0..MaxSteps]]
  /\ windows \in 0..MaxSteps
  /\ capture \in SessionId \union {None}
  /\ captures \subseteq SessionId

(* is_active tells the truth: while it is set one loop records windows, and *)
(* the controller can cancel it; once it is cleared no loop records any,    *)
(* whatever starts, stops and resets raced with the tasks' wakeups.         *)
ActiveIsLooping == Looping = IF isActive THEN {liveTask} ELSE {}

(* A live run ends: by its last window, by a client or by an error.         *)
LiveRunEnds == isActive ~> ~isActive

(* "Session terminated; state returned to IDLE": without a session the      *)
(* store is IDLE. Fails: a stop that comes after a reset sets COMPLETED.    *)
NoSessionIsIdle == session = None => status = "IDLE"

(* "Verify Live Packet Capture and Demo Replay cannot run concurrently or   *)
(* masquerade": a session shows events of its own run only. Fails: a paused *)
(* demo resumed during a live run feeds the live session.                   *)
NoMasquerade == \A k \in DOMAIN history : history[k].run = session

(* A demo replay that is COMPLETED was played to its end, or its engine     *)
(* failed: stopping a live run does not complete the replay after it.       *)
(* Fails: that stop may come late.                                          *)
ReplayIsPlayed == mode = "DEMO" => CompletedIsPlayed

(* "Verify repeated start and stop leaves zero orphaned capture or          *)
(* generator processes": the controller can stop every tshark process.      *)
(* Fails: a generator that cannot start leaves tshark running.              *)
NoOrphanCapture == captures \subseteq {capture}
=============================================================================
