----------------------------- MODULE EventStream -----------------------------
(***************************************************************************)
(* The SSE stream of runtime/api.py, fed by the adapter's broadcasts, and  *)
(* the browser that watches it: ui/src/lib/sse.ts and the store of         *)
(* ui/src/store/useRuntimeStore.ts.  The demo is played by hand, by this    *)
(* browser, whose requests are answered while the stream runs, and by other *)
(* clients.  Connections break and come back with Last-Event-ID.           *)
(***************************************************************************)
EXTENDS DemoAdapter

CONSTANTS
  MaxLosses, \* bound: connections broken by the network
  MaxQueue,  \* bound: messages waiting for the watcher (the code's queue has none)
  MaxAsked   \* bound: requests made by this browser

VARIABLES
  phase,     \* where the browser and its connection are
  backlog,   \* missed events the handler has read and is still replaying
  queue,     \* the subscription's queue
  losses,    \* connections broken so far
  lastId,    \* the EventSource's last event id, None for none
  asked,     \* requests made by this browser
  reply,     \* the answer on its way back to it, None for none
  shown,     \* snapshot.event, None for none
  uiStep,    \* demoStatus.current_step
  uiStatus,  \* demoStatus.status
  uiHistory  \* eventHistory

uiVars == <<shown, uiStep, uiStatus, uiHistory>>
streamVars == <<phase, backlog, queue, losses, lastId>>
askVars == <<asked, reply>>
watchVars == <<vars, streamVars, uiVars, askVars>>

ASSUME StreamAssumption == MaxLosses \in Nat /\ MaxQueue \in Nat /\ MaxAsked \in Nat

WatchPhase == {"loading", "loadingEvents", "offline", "replaying", "live"}
Message == [kind : {"event"}, event : DemoEvent]
  \union [kind : {"demo_status"}, status : DemoStatus, step : -1..(MaxSteps - 1)]
  \union [kind : {"complete"}, step : -1..(MaxSteps - 1)]
\* What a request is answered with: a status to show, the word to clear all, or,
\* after a step, only the cue to ask for the status.
Answer == [kind : {"status", "reset", "stepped"}, status : DemoStatus, step : -1..(MaxSteps - 1)]

WatchInit ==
  /\ Init
  /\ phase = "loading"
  /\ backlog = <<>>
  /\ queue = <<>>
  /\ losses = 0
  /\ lastId = None
  /\ asked = 0
  /\ reply = None
  /\ shown = None
  /\ uiStep = -1
  /\ uiStatus = "IDLE"
  /\ uiHistory = {}

-----------------------------------------------------------------------------
(* The adapter and its broadcasts *)

Broadcast(msgs) ==
  /\ Len(queue) + Len(msgs) <= MaxQueue
  /\ queue' = IF phase = "live" THEN queue \o msgs ELSE queue
  /\ UNCHANGED <<phase, backlog, losses, lastId, uiVars>>

StatusMessage == [kind |-> "demo_status", status |-> status', step |-> step']

StepMessages ==
  (IF step' # step THEN <<[kind |-> "event", event |-> Last(history')]>> ELSE <<>>)
  \o (IF status' = "COMPLETED" THEN <<[kind |-> "complete", step |-> step']>> ELSE <<>>)

\* A request the adapter refuses changes nothing but the browser's error line.
Control ==
  \/ /\ (\E n \in 1..MaxSteps : Start(n, 0)) \/ Pause \/ Resume \/ Reset
     /\ Broadcast(<<StatusMessage>>)
  \/ StepByHand /\ Broadcast(StepMessages)

Play == Control /\ UNCHANGED askVars

\* startDemo, pauseDemo, resumeDemo, stepDemo, resetDemo: the server has acted and
\* broadcast before the answer is back.  The answers to start and reset name no
\* step, which the store reads as -1; that to step is thrown away.
Ask ==
  /\ phase \notin {"loading", "loadingEvents"}
  /\ asked < MaxAsked /\ reply = None
  /\ Control
  /\ asked' = asked + 1
  /\ reply' = [kind |-> IF status' = "IDLE" THEN "reset"
                        ELSE IF step' # step \/ status' = "COMPLETED" THEN "stepped"
                        ELSE "status",
               status |-> status',
               step |-> IF status' = "IDLE" \/ session' # session THEN -1 ELSE step']

-----------------------------------------------------------------------------
(* The browser's store *)

EventShownIfNewer(e) ==
  /\ uiHistory' = {x \in uiHistory : x.index # e.index} \union {e}
  /\ IF e.index > uiStep THEN shown' = e /\ uiStep' = e.index ELSE UNCHANGED <<shown, uiStep>>
  /\ uiStatus' = IF uiStatus = "IDLE" THEN "RUNNING" ELSE uiStatus
  /\ lastId' = e.index

EventShown(e) ==
  /\ uiHistory' = {x \in uiHistory : x.index # e.index} \union {e}
  /\ IF e.index >= uiStep THEN shown' = e /\ uiStep' = e.index ELSE UNCHANGED <<shown, uiStep>>
  /\ uiStatus' = IF uiStatus = "IDLE" THEN "RUNNING" ELSE uiStatus
  /\ lastId' = e.index

StatusShown(s, k) ==
  /\ uiStatus' = s
  /\ uiStep' = k
  /\ IF s = "IDLE" THEN shown' = None /\ uiHistory' = {} ELSE UNCHANGED <<shown, uiHistory>>
  /\ UNCHANGED lastId

CompletionShown(k) ==
  /\ uiStatus' = "COMPLETED"
  /\ uiStep' = k
  /\ UNCHANGED <<shown, uiHistory, lastId>>

Shown(msg) ==
  CASE msg.kind = "event" -> EventShown(msg.event)
    [] msg.kind = "demo_status" -> StatusShown(msg.status, msg.step)
    [] OTHER -> CompletionShown(msg.step)

\* getDemoStatus: read now, shown later.
AskStatus ==
  /\ reply # None /\ reply.kind = "stepped"
  /\ reply' = [kind |-> "status", status |-> status, step |-> step]
  /\ UNCHANGED <<vars, streamVars, uiVars, asked>>

Answered ==
  /\ reply # None /\ reply.kind # "stepped"
  /\ uiStatus' = reply.status
  /\ uiStep' = reply.step
  /\ IF reply.kind = "reset" THEN shown' = None /\ uiHistory' = {}
     ELSE UNCHANGED <<shown, uiHistory>>
  /\ reply' = None
  /\ UNCHANGED <<vars, streamVars, asked>>

\* initRuntime: the status first, then the current event and the history.
LoadStatus ==
  /\ phase = "loading"
  /\ phase' = "loadingEvents"
  /\ uiStatus' = status
  /\ uiStep' = step
  /\ UNCHANGED <<askVars, vars, backlog, queue, losses, lastId, shown, uiHistory>>

LoadEvents ==
  /\ phase = "loadingEvents"
  /\ phase' = "offline"
  /\ shown' = IF history = <<>> THEN None ELSE Last(history)
  /\ uiHistory' = ToSet(history)
  /\ UNCHANGED <<askVars, vars, backlog, queue, losses, lastId, uiStep, uiStatus>>

-----------------------------------------------------------------------------
(* The stream *)

MissedAndLast ==
  IF lastId = None THEN <<>> ELSE GetEventHistory(None, lastId)

Missed == IF lastId = None THEN <<>> ELSE GetEventHistory(None, lastId + 1)

\* The handler reads the missed events once, when the client connects.
Connect ==
  /\ phase = "offline"
  /\ phase' = "replaying"
  /\ backlog' = Missed
  /\ UNCHANGED <<askVars, vars, queue, losses, lastId, uiVars>>

Replay ==
  /\ phase = "replaying" /\ backlog # <<>>
  /\ EventShown(Head(backlog))
  /\ backlog' = Tail(backlog)
  /\ UNCHANGED <<askVars, vars, phase, queue, losses>>

\* Only now does the adapter know the subscriber.
Subscribe ==
  /\ phase = "replaying" /\ backlog = <<>>
  /\ phase' = "live"
  /\ UNCHANGED <<askVars, vars, backlog, queue, losses, lastId, uiVars>>

Deliver ==
  /\ phase = "live" /\ queue # <<>>
  /\ Shown(Head(queue))
  /\ queue' = Tail(queue)
  /\ UNCHANGED <<askVars, vars, phase, backlog, losses>>

Close ==
  /\ phase' = "offline"
  /\ backlog' = <<>>
  /\ queue' = <<>>
  /\ UNCHANGED <<askVars, vars, lastId, uiVars>>

\* After five silent seconds wait_for cancels the subscription's generator: the
\* handler sends one heartbeat and finds the generator finished.
Heartbeat ==
  /\ phase = "live" /\ queue = <<>>
  /\ Close
  /\ UNCHANGED losses

Lose ==
  /\ phase \in {"replaying", "live"}
  /\ losses < MaxLosses
  /\ losses' = losses + 1
  /\ Close

WatchNext ==
  \/ Play
  \/ Ask \/ AskStatus \/ Answered
  \/ LoadStatus \/ LoadEvents
  \/ Connect \/ Replay \/ Subscribe \/ Deliver
  \/ Heartbeat
  \/ Lose

\* The handler and the browser make progress; EventSource retries; wait_for
\* times out; requests are answered.  Nobody is obliged to play the demo, nor the
\* network to fail.
WatchFairness ==
  /\ WF_watchVars(LoadStatus) /\ WF_watchVars(LoadEvents)
  /\ WF_watchVars(Connect) /\ WF_watchVars(Replay) /\ WF_watchVars(Subscribe)
  /\ WF_watchVars(Deliver) /\ WF_watchVars(Heartbeat)
  /\ WF_watchVars(AskStatus) /\ WF_watchVars(Answered)

WatchSpec == WatchInit /\ [][WatchNext]_watchVars /\ WatchFairness
-----------------------------------------------------------------------------
WatchTypeOK ==
  /\ TypeOK
  /\ phase \in WatchPhase
  /\ backlog \in Seq(DemoEvent)
  /\ queue \in Seq(Message) /\ Len(queue) <= MaxQueue
  /\ losses \in 0..MaxLosses
  /\ lastId \in 0..(MaxSteps - 1) \union {None}
  /\ asked \in 0..MaxAsked
  /\ reply \in Answer \union {None}
  /\ shown \in DemoEvent \union {None}
  /\ uiStep \in -1..(MaxSteps - 1)
  /\ uiStatus \in DemoStatus
  /\ uiHistory \subseteq DemoEvent

\* The events on their way to the browser: where they are, and their index.
Coming ==
  {<<k, backlog[k].index>> : k \in DOMAIN backlog}
    \union {<<Len(backlog) + k, queue[k].event.index>> :
               k \in {i \in DOMAIN queue : queue[i].kind = "event"}}

(* Within a session the stream sends no event twice and none out of order,  *)
(* across broken connections, replays and pushes; and "State must never move *)
(* backward": nothing older than the event shown is still to come, whatever  *)
(* step an answer that comes late made the browser believe in.              *)
SentOnce ==
  /\ \A x, y \in Coming : x[1] < y[1] => x[2] < y[2]
  /\ lastId # None => \A x \in Coming : lastId < x[2]
  /\ shown # None => \A x \in Coming : shown.index <= x[2]
  /\ shown # None /\ lastId # None => shown.index <= lastId

\* What the browser shows when it is up to date.
UpToDate == history # <<>> => shown = Last(history)

(* "Client reconnecting with Last-Event-ID receives missed events and       *)
(* converges to canonical state": once the demo is COMPLETED, a browser that *)
(* shows an event shows the last one in the end, however often its           *)
(* connection breaks and whatever its requests are answered meanwhile,       *)
(* unless a reset clears it.  True within one session only.                 *)
Converges ==
  lastId # None /\ shown # None /\ status = "COMPLETED"
    ~> status # "COMPLETED" \/ UpToDate \/ shown = None

(* Only a reset clears the browser: fails when the answer to a reset is      *)
(* overtaken by the next start and its events.                              *)
OnlyResetClears == [][shown # None /\ shown' = None => status = "IDLE"]_watchVars

(* "Event timeline complete": the browser's history has every event of the  *)
(* session up to the one it shows. Fails: an event broadcast between replay *)
(* and subscription is in neither.                                          *)
TimelineComplete ==
  shown # None => {e \in ToSet(history) : e.run = shown.run /\ e.index < shown.index} \subseteq uiHistory

(* "Heartbeat ping mechanism to maintain long-lived connections": a silent  *)
(* stream stays open; only the network ends it. Fails: the heartbeat        *)
(* timeout finishes the subscription.                                       *)
SilenceKeepsStream ==
  [][phase = "live" /\ losses' = losses => phase' = "live"]_watchVars
=============================================================================
