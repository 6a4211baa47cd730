-------------------------- MODULE RuntimeStateStore --------------------------
(***************************************************************************)
(* runtime/state_store.py: the one session the runtime keeps, its status   *)
(* and its bounded event history.  Each method holds the store's lock and  *)
(* is one step.  Both DemoAdapter and LiveCaptureController write to it.   *)
(***************************************************************************)
EXTENDS Integers, Sequences, SequencesExt, FiniteSetsExt

CONSTANTS
  MaxSessions, \* bound: sessions ever created
  MaxSteps,    \* bound: total_steps of a session
  MaxHistory,  \* max_history_size, 500 by default
  None

VARIABLES
  session,  \* session_id, None when there is none
  sessions, \* sessions created so far: ids are fresh
  mode,     \* execution_mode
  status,   \* DemoStatus
  step,     \* current_step, -1 before the first event
  total,    \* total_steps
  history   \* the deque of events; the last one is current_event

storeVars == <<session, sessions, mode, status, step, total, history>>

Mode == {"DEMO", "LIVE_PACKET_CAPTURE"}
DemoStatus == {"IDLE", "RUNNING", "PAUSED", "COMPLETED"}
SessionId == 1..MaxSessions
\* A DemoEvent, by its position and by the run whose states it came from.
DemoEvent == [run : SessionId, index : 0..(MaxSteps - 1)]

ASSUME StoreAssumption ==
  /\ MaxSessions \in Nat /\ MaxSteps \in Nat \ {0} /\ MaxHistory \in Nat \ {0}
  /\ None \notin Int /\ None \notin DemoEvent

InitStore ==
  /\ session = None
  /\ sessions = 0
  /\ mode = "DEMO"
  /\ status = "IDLE"
  /\ step = -1
  /\ total = 0
  /\ history = <<>>

\* The new session's id is sessions'.
CreateSession(n, m) ==
  /\ sessions < MaxSessions
  /\ sessions' = sessions + 1
  /\ session' = sessions'
  /\ mode' = m
  /\ status' = "RUNNING"
  /\ step' = -1
  /\ total' = n
  /\ history' = <<>>

SetStatus(s) ==
  /\ status' = s
  /\ UNCHANGED <<session, sessions, mode, step, total, history>>

\* Why append_event raises.
Refused(e) == \/ status = "IDLE"
              \/ session = None
              \/ e.index # step + 1

\* deque(maxlen=max_history_size): the oldest events make room.
Recent(s) == SubSeq(s, Len(s) - Min({Len(s), MaxHistory}) + 1, Len(s))

AfterEarly(e) == IF e.index >= total - 2 THEN "COMPLETED" ELSE status

\* The status e leaves the session in.
After(e) == IF e.index >= total - 1 THEN "COMPLETED" ELSE status

Record(e, s) ==
  /\ ~Refused(e)
  /\ history' = Recent(Append(history, e))
  /\ step' = e.index
  /\ status' = s
  /\ UNCHANGED <<session, sessions, mode, total>>

AppendEvent(e) == Record(e, After(e))

ResetStore ==
  /\ session' = None
  /\ mode' = "DEMO"
  /\ status' = "IDLE"
  /\ step' = -1
  /\ total' = 0
  /\ history' = <<>>
  /\ UNCHANGED sessions
-----------------------------------------------------------------------------
StoreTypeOK ==
  /\ session \in SessionId \union {None}
  /\ sessions \in 0..MaxSessions
  /\ mode \in Mode
  /\ status \in DemoStatus
  /\ step \in -1..(MaxSteps - 1)
  /\ total \in 0..MaxSteps
  /\ history \in Seq(DemoEvent) /\ Len(history) <= MaxHistory

(* A reader of the history sees no gap, no repeat and no reordering: the    *)
(* events kept are the last ones up to the current step, as many as fit.    *)
HistoryContiguous ==
  /\ Len(history) = Min({step + 1, MaxHistory})
  /\ \A k \in DOMAIN history : history[k].index = step - Len(history) + k
=============================================================================
