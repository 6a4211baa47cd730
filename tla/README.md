# A verification project for the predictive security-response platform

TLA+ modules, TLC instances and TLAPS proofs about the program in `src/`: a
FastAPI runtime that plays a network-security scenario (recorded or captured
live), forecasts risk for each window, and lets a human authorise reversible
responses, with an event stream for browsers, a loop that verifies what a
response achieved, and a hash-chained audit store.

Every definition is read from the source; `PROJECT.json` ("map") names the
lines. Paths below are relative to `src/`.

## 1. Inventory

| Part | State | Operations | Talks to |
|---|---|---|---|
| **Response executor and demo adapter** `core/response_execution/{executor,adapters}.py` | `_execution_history`, `_action_executions` (action id to its last execution), the adapter's `_active_actions` and target states | `execute`, `rollback` | called by the gate and by the API |
| **Human approval gate** `simulation/approval_gate.py`, `approval_models.py` | `_executed_request_ids`; requests and decisions are frozen values the callers keep | `create_request`, `authorize_and_execute` | executor, authority decision, topology, clock |
| **Closed loop** `simulation/closed_loop.py` | none; the caller keeps requests, windows and verdicts | `evaluate_closed_loop`, `trigger_reconsideration_if_mismatch` | selector, verifier, gate |
| **Intervention simulation** `simulation/{engine,operator,disruption,selector}.py` | none | what an intervention would change, what it costs, which one is recommended | closed loop, demo engine |
| **Outcome verification** `core/response_execution/verification.py` | none | `verify`, `verify_trajectory`, handoffs | closed loop, API |
| **Response API** `runtime/api.py` | one executor per application, replaced by `/demo/reset` | `/response/execute`, `/response/rollback`, reads | executor, verifier, state store |
| **Approval page** `ui/src/pages/HumanApprovalPage.tsx`, `ui/src/lib/api.ts` | gate state, the event it shows, requests on the wire | approve, reject, reconsider, retry, leave | response API, browser store |
| **Runtime state store** `runtime/state_store.py` | one session: id, mode, status, step, bounded history | `create_session`, `append_event`, `set_status`, `reset`, getters | written by the demo adapter and the live controller |
| **Demo adapter** `runtime/demo_adapter.py` | speed, generator, timer task, subscribers | `start`, `pause`, `resume`, `step`, `set_speed`, `reset`, the timer loop | store, engine, subscribers |
| **Live controller** `runtime/live/live_controller.py` | `is_active`, capture, task, states | `start`, `stop`, the live loop | store, engine, capture, adapter's broadcast |
| **Packet capture and flows** `runtime/live/` | packets, counts, the reader thread, tshark, the generator's probes, artifacts | reader loop, `get_packets_in_range`, `stop`, flows, states, manifest | live controller |
| **Event stream and browser store** `runtime/api.py`, `ui/src/lib/sse.ts`, `ui/src/store/useRuntimeStore.ts` | subscription queue, `Last-Event-ID`, the browser's event, step, status, history | connect, replay, push, heartbeat, reconnect, merge, the browser's own requests | adapter |
| **Audit store and recovery** `core/persistence/` | tables `records`, `audit_log`, `current_state` | `put`, `append_audit_event`, `set_current`, import, export, `verify_*`, `check_store` | other stores on the same file |
| **Demo engine** `scenarios/demo/engine.py` | the playback's window and prior event; the engines it owns outlive a playback | `stream_scenario` | everything below, once or twice per window |
| **Bridge, risk, priority, recommendation, routing** `security/`, `core/priority/`, `core/response/` | none | signatures, stage, confidence, risk, priority, strategy, roles | demo engine, simulation, verification |
| **Reconsideration** `security/reconsideration.py` | none that decides | conflict, penalty, second pass, revision | demo engine |
| **Notifications** `core/response/notifications.py` | per role, what it was last told | `generate_notifications` | demo engine |
| **Topology, blast radius** `core/topology/`, `core/blastradius/` | a graph, its snapshot | `add_node`, `add_dependency`, `assess`, searches, `to_dict`/`from_dict` | demo engine; the executor reads a graph |
| **Authority policy** `core/authority/` | none | `evaluate` | risk, trust, topology, blast radius in; decision out |
| **Flow ingestion and samples** `ingest/`, `eval/{dataset,labels}.py` | the rows read, their buckets | load, clean, window, sessions, samples, splits, labels | forecasting |
| **Forecasting** `eval/{models,rollout}.py` | fitted coefficients | predict, roll out, bootstrap, intervals, trust | demo engine |
| **Rolling-baseline bridges** `security/{bridge_v2,bridge_v3}.py` | the signals of the last thirty windows | `analyze`, `reset` | experiments |
| Explanations, experiment scripts, control center page | none, or written once by hand | functions of their inputs | |

What is hard here, and the properties that make each part correct:

* *Retries, duplicates and rollbacks* around the executor: an action, and an
  approval request, takes effect at most once; a rolled-back action never
  returns; an effect never outlives the action it belongs to.
* *Stale authority*: evidence windows, authority decisions, topologies and
  deadlines move on between recommendation, approval, dispatch and rollback.
  What is in force was approved, by hash, in time, for that target, and on the
  evidence the operator was shown.
* *The loop after an execution*: windows are lost, late or unmeasured. A verdict
  is the one they deserve, a mismatch stands, a reconsideration rests on one
  however late it comes, and every second execution is of a request of its own.
* *Loss of memory*: the gate's executed set and the executor die with the
  process, requests do not. They must forget together.
* *Tasks and threads that go on late*: a cancelled timer or live task, a pause
  racing a step, a stop that arrives after the next start, a reader thread that
  stores after the manifest is written.
* *Broken streams*: replay, push, heartbeats, reconnections and late answers
  deliver an event at most once and in order, and the last one in the end.
* *Several stores and crashes* between the transactions of the audit store:
  append-only rows, one hash chain, no entry without its record, no
  acknowledged write lost, an export that can be put back.
* *A second pass over the same variables*: a contradicted forecast reruns the
  analysis in the middle of a window. What is decided on an event follows from
  one trust, a revision never widens what is permitted, and a role is told what is
  new to it.
* *Thresholds in several files* that must agree (trust levels, strategies,
  permitted classes), *cyclic dependency graphs*, and *gaps in telemetry* no
  window, sample, label or split may bridge.

`PROJECT.json` ("hazards") lists each of these at its line, with the properties
that cover it, or why none does.

## 2. The modules

Arrows point to what a module extends.

```
GatedResponse (abstract)                          RuntimeStateStore
      ^ refines                                          ^
 ApprovalGate --> ResponseExecutor <-- ResponseApi   RuntimeReads
                                          ^              ^
                                     ApprovalPage    DemoAdapter <-- EventStream
                                                         ^
                                                     LiveCapture     PacketCapture

            AuthorityPolicy
                  ^
           SecurityAnalysis <--+-- Reconsideration            DemoTopologies
                               +-- OutcomeVerification <----+
                               +-- InterventionSelection <--+-- ClosedLoop
                                            ^
                                        Assessment --> BlastRadius <-- DependencyPaths

AuditStore <-- AuditBundle     ArtifactRecords     TrainingData <-- Forecasting
```

`MCX` is an instance of `X` for TLC; `XProofs` holds the theorems about `X`, and
`TelemetryProofs` those about `PacketCapture` and `TrainingData`.

**`ResponseExecutor`** is the state of the executor and the adapter and what one
call does to it: `ExecuteRefused`, `ExecuteIdempotent`, `ExecuteFailed`,
`ExecuteApplied`, `RollbackBlocked`, `RollbackFailed`, `RollbackApplied`. One
call is one step: nothing in the executor awaits, and its callers run on one
event loop. Targets, parameters and reasons are abstracted to what the checks
compare. The adapter's state per target is a set `effects` of
`<<type, target>>`, apart from the actions it lists as active, because the code
clears the former by the action the *caller* passes to `rollback`.

**`ApprovalGate`** extends it with the gate: requests with deadlines, decisions
with the hash the reviewer quoted, the clock, windows, and what was dispatched
under which fresh action id. `AuthorityPolicyEngine` and the graphs are inputs;
callers may present any request with any decision, any time, with or without a
topology and a window. That a caller may pass its own `now` is left out: a deadline
is compared with the clock. `Restart` is a new process. `dispatched` and `outcome`
are there to speak about a call, not state of the code.

**`GatedResponse`** is what gate, executor and adapter promise together: a
response comes into force only for a request that is open, approved and not
expired, once per process. The refinement mapping is at the end of
`ApprovalGate`.

**`ResponseApi`** is the other program over the executor: clients choose ids,
windows, decision ids, action types. The handlers fill in missing approvals and
make up the action to roll back, exactly as the routes do. **`ApprovalPage`**
puts the browser in front of it: the event the page was last rendered with, the
five states of its gate, the requests on the wire and replies that are lost,
while events, sessions, resets and other clients go on.

**`ClosedLoop`** is the loop around a response: a recommendation of
**`InterventionSelection`** is put before a human, an approved one is executed,
the windows that follow, some lost and some unmeasured, are verified by
**`OutcomeVerification`**, perhaps several at once, and a mismatch lowers the
trust, selects again and asks again. Both extend **`SecurityAnalysis`**, the
bridge and the risk engine from features and forecasts to stage and risk, so
that a recommendation and a verdict rest on the same arithmetic as the engine's
events. The coordinator has no caller in the runtime, only tests and
`eval/run_phase4_mismatch_experiment.py` and its like, so nothing couples its
operations: `EvaluateClosedLoop` and `TriggerReconsiderationIfMismatch` are actions
a caller may take late, again, or never, the latter on a verdict windows old. What
gate and executor check of a dispatch is left to `ApprovalGate`.

**`RuntimeStateStore`** and **`RuntimeReads`**, **`DemoAdapter`**,
**`LiveCapture`**: the store's methods and getters, the adapter's playback over
it, and the live controller beside the adapter. The lock sections contain no
await, so a call is a step, and a timer task is one `step()` each time it wakes.
A cancelled live task wakes once more, in `LiveCancelled`, and calls `stop()`.
An event is its position and the run whose states produced it, which is what
tells a session's own events from others.

**`PacketCapture`** is one live run from the inside: tshark's pipe, the reader
thread that stamps, then stores, then counts, the loop that reads a range of
packets between two clock readings, and a `stop()` that waits for the threads no
longer than it does. Addresses and ports are tested apart, as in
`packet_parser.py`: an outsider may have an address of its own, which the test
flags, or share the experiment's (another program on 127.0.0.1), and then passes
it as soon as it talks to a service. Its packets become windows, flows with
their features and interarrival times, states, and the manifest that says
whether the experiment was isolated.

**`EventStream`** puts a browser behind the adapter: loading, the replay of
missed events (read once, before the subscription), the queue, the heartbeat
timeout, broken connections, the browser's own requests, whose answers may come
after the events they caused, and the merge in the browser's store.

**`AuditStore`** has any number of stores on one database file. A call is a
sequence of steps, one per statement outside a transaction and one per
`BEGIN IMMEDIATE .. COMMIT`, and `Interrupt` may end it between any two (a crash,
a full disk, a busy timeout). A row is the redacted payload and the provenance
hash as it came; hashes are injective, so a hash is what it is a hash of.
`Grounded` follows every reference that recovery follows. **`AuditBundle`** adds
the export, which reads twice, and verifies what it wrote;
**`ArtifactRecords`** says which artifact is stored as what.

**`AuthorityPolicy`** is `evaluate` as an operator from evidence to a decision:
trust, uncertainty and confidence in hundredths, risk in units in which the
risk engine's products are exact integers, so no threshold is blurred.

**`BlastRadius`** builds a graph of services and walks it: one step of the
breadth-first walk takes one service from the queue. `Sorted` stands for
Python's `sorted`; nothing proved of the walk depends on its order.
**`DependencyPaths`** has the graph's other searches with their own bookkeeping,
as recursive functions over walks (of a path so far) or over a service and the
marks of all (`has_cycle`), and its dictionaries;
**`DemoTopologies`** the graphs of the builder.

**`Assessment`** extends them with the loop of `stream_scenario`: a window is
observed (`Observe`), its prior forecast is confirmed or contradicted
(`Confirm`, `Reconsider`), the blast radius is walked, and the policy decides as
the event is yielded (`Publish`). A window is the set of signatures it raises;
how far the forecast was off is the `penalty`, which **`Reconsideration`** says
how the code computes, with the name it gives the revision. The second pass
replaces `outputs` and the notifications; `explained`, the explanations and
candidate techniques of the first pass, stays as it was. `Publish` lets the
selector of `InterventionSelection` replace the recommended `actions` by one of its
own, as urgent as the revised risk. Which one it picks is left open (`Decisions`):
the engine passes it a rate-limit factor of 0.20 and a block reduction of 0.90,
where the closed loop takes the defaults, and never the trust of the event.
`unrevised`, `told` and `overtaken` record the first pass, what each role last read
in an event, and whose notification a reconsideration threw away.

**`RollingBaseline`** is the two candidate bridges of the experiments, which
judge a window by the median and the deviation of the windows they remember
instead of by fixed counts. They are operators over `SecurityAnalysis`, and
`MCAssessment` compares them with the first bridge.

**`TrainingData`** reads rows one by one, cleans them, and turns the flows left
into windows, sessions, states, samples, splits and labels, as `cic_flow.py`,
`pcap_ingest.py`, `dataset.py` and `labels.py` do; **`Forecasting`** has what is
made of the samples: the arrays, the baselines with their order selection, the
rollouts, the bootstrap, the futures shown and the trust of a horizon.

## 3. Runs

| Run | Question | States of interest |
|---|---|---|
| `gate` | Is one request executed at most once by a process, do gate and executor agree on it, is only what a human approved in time in force, and is `GatedResponse` implemented? | two requests on one target whose hashes and approvals may be confused, two windows, refusing policies, calls with and without the topology and the window, rollbacks, restarts |
| `api` | Does an id take effect once, a rolled-back one never again, and only on current evidence? | two ids, two events, a reset |
| `page` | Does what comes into force, always a DEMO_BLOCK, have the target, evidence and decision of one click on what the operator was shown? | two clicks, lost replies, retries, sessions and resets in between |
| `loop` | Is every execution asked for, every verdict deserved, every reconsideration too, every recommendation a minimum? | six kinds of windows, lost ones, verifications and reconsiderations that lag, a mismatch answered twice, two executions |
| `loop_blackout` | *violation*: may a window without telemetry help a verdict to success? | a diverging, an empty and another diverging window |
| `demo` | Is playback single-worker, of its own events, in order, still when paused and driven when running, and does it end? | three sessions of up to four events, a history of two |
| `live` | Does `is_active` tell the truth, and does a live run end? | three sessions, failing starts, late wakeups |
| `capture` | Is a packet in one window at most, is the manifest true, and is every packet in one bin and one flow? | late storing, an outsider of either kind, a tshark that dies, stops that race, repeat and time out |
| `stream` | Are events sent once, in order, and does the browser converge? | two losses, heartbeats, two requests answered late |
| `audit` | Append-only rows, one grounded chain, durable acknowledged calls, faithful exports | two stores, two log entries, two acknowledged calls, one export |
| `assessment` | Is what is decided on every event of one trust, within the policy, on a correct blast radius, told to whom it is new, and are the graph's searches exact? | every graph of three services for one window; three windows and a second playback on the demo's graph, with revisions |
| `ingest` | Do the states tile time, are the samples exactly what was measured, do the rollouts see no future, are the splits and labels honest? | every small export of flows with gaps, missing columns and removed rows |

`loop_blackout` checks the promise of `simulation/closed_loop.py`, "Missing,
unmeasured, or empty telemetry NEVER implies success"; the finding in
`PROJECT.json` says what the code does instead: only the first candidate window
is looked at for missing telemetry, an empty one after it counts as conforming
and resets the streak that would have been a mismatch.

Six runs evaluate assumptions on their way, which check a pure algorithm over
bounded inputs: `RevisionsAreDeserved`, `RevisionsAreNamed`, `EnterpriseIsAcyclic`
and six about the rolling-baseline bridges (`MCAssessment`: warm-up, quiet
streams, a minority of bursts, forgetting, attribution), `RefusedClasses`
(`MCAuditStore`: which artifact classes `artifact_to_stored_record` refuses),
`SelectionKeepsOrder` and `RangesKeepOrder` (`MCDemoAdapter`,
`MCPacketCapture`: the closed form of a filtered list), `SortingIsStable` and
`EarliestIsStable` (`MCPacketCapture`, `MCClosedLoop`: the rank by which packets
or windows are put in order is a stable sort), `SimulationsCompareFairly`
(`MCClosedLoop`), and six of
`MCTrainingData` about arrays, models, futures, intervals and trust.

### What does not hold

The modules also state properties that a document, a docstring or a test of the
repository suggests and that the code does not have. No run checks them; TLC
refutes each when it is put into the configuration named here.

| Property | Module | Refuted with |
|---|---|---|
| `NoOrphanEffect` under the API: `/response/rollback` makes up a DEMO_BLOCK | ResponseExecutor | `Api.cfg`, `ClientActions <- AnyType`, no symmetry |
| `VerifiedIsInForce` | ResponseApi | the same |
| `NeverWithoutApproval` | ResponseApi | the same, and `Policies <- CalmPolicies` |
| `InForceIsTheInterventionShown`: the API knows none of the interventions the page shows and makes each a DEMO_BLOCK (`runtime/api.py:637`), an approved RATE_LIMIT_IP as well | ApprovalPage | `Page.cfg` |
| `DispatchedIsExecuted`, `RejectedIsNotInForce`, `RetryIsIdempotent` | ApprovalPage | `Page.cfg` |
| `HandoffNamesItsWindow`: the values of the first step under the last window's name | ClosedLoop | `Loop.cfg` |
| `NoMasquerade`, `NoSessionIsIdle`, `ReplayIsPlayed`, `NoOrphanCapture` | LiveCapture | `Live.cfg` |
| `StatesDoNotOverlap` | PacketCapture | `Capture.cfg` |
| `OnlyTheExperiment`: another local program that talks to an experiment's service is in scope, and the manifest stays valid (`runtime/live/packet_parser.py:162`) | PacketCapture | `Capture.cfg` |
| `TimelineComplete`, `SilenceKeepsStream` | EventStream | `Stream.cfg` |
| `Converges`, `OnlyResetClears` across a restart of the demo | EventStream | `Stream.cfg`, `MaxSessions = 2`, `MaxSteps = 2` |
| `AuditedIsStored`, `BundleIsSelfContained` | AuditStore, AuditBundle | `Audit.cfg` |
| `EveryCycleIsListed`: `find_cycles` is to "find elementary directed cycles" and lists none of one service, which `add_dependency` allows and `has_cycle` reports (`core/topology/graph.py:285`) | DependencyPaths | `Assessment.cfg` |
| `ExplanationsFollowTrust`: a revised event keeps the contributions, the explanation and the candidate techniques of the first pass, with its trust level (`scenarios/demo/engine.py:369`) | Assessment | `Assessment.cfg` |
| `ActionsFollowStrategy`: the strategy falls to MONITOR with the revised trust, the selector that replaces its actions is not given it (`scenarios/demo/engine.py:533`) | Assessment | `Assessment.cfg` |
| `ChangesAreTold` | Assessment | `Assessment.cfg` |
| `LookaheadIsTimely`, `RatiosAreMeasured` | TrainingData | `Ingest.cfg` |
| `NeverWorse` (an intervention may make a graver stage the primary one), `ForecastsValidate` (a later horizon adds its delta to the one before) | InterventionSelection | as assumptions in place of `SimulationsCompareFairly` |

`NothingFromThePage` is no promise but a fact worth knowing: with
`Topology <- DemoTopology`, the graph of `build_minimal_demo_topology`, every
approval of the page is answered BLOCKED, because the engine proposes nodes that
graph does not have, and the page says "ACTION DISPATCHED SUCCESSFULLY".

They are there to be read next to their hazards. What does hold is stated with
exactly their exception: `ToldWhatIsNew` leaves out the roles a second pass
overtook, `Converges` is of one session, `InForceWasShown` is of one click and
says that the type is DEMO_BLOCK, `SingleTruth` that explanations keep the first
trust level, `ManifestIsHonest` that a valid manifest vouches for addresses and
ports and not for programs, `GraphAnswersAreExact` that the cycles listed are those
of two services or more. `ActionsFollowStrategy` is refuted for a selector that may
decide anything; the code gives it nothing that would make it follow the strategy.

### Bounds

* `gate`: `MaxClock` 1 and `ShortTtls`: a deadline in the present tick and one
  tick after it distinguish in time, decided in time but presented late, and
  late. `MaxDecisions` 2, two requests and two ids: enough to confuse one
  approval with another, a dispatch and a retry. `MaxRecords` 2: an execution,
  and what is tried after it.
* `api`: `MaxRecords` 3: execute, roll back, execute again.
* `page`: `MaxClicks` 2, a click and its retry; three records, the third for
  another client's rollback; three windows.
* `loop`: `MaxWindow` 3, a streak of two and a window around it; `MaxExecutions`
  2, what was reconsidered and what came of it; `FeedLimit` 9, a caller that
  passes every window; `MaxRequests` 3, a first one and two that answer
  mismatches, of one execution or of two. `LoopContexts`: a caller who knows its
  target, topology and a longer time to live, and one who does not.
* `demo`, `live`: `MaxSessions` 3: an old session, its replacement, and one more
  for what wakes late. `MaxHistory` 2 below the number of steps: eviction
  happens.
* `capture`: two windows of two ticks, each waited for in one (so that windows
  overlap in time), one probe and three lines: a packet before, between and after
  the windows, stored late or never. `MaxOutsiders` 1: a run has no outsider, a
  foreign or a local one, which is all that `IsInScope` tells apart, as it looks at
  one packet. `WallWait` is at most `WindowLength`, which is tighter than the
  code; a window may end arbitrarily late all the same.
* `stream`: `MaxLosses` 2: a loss during replay and one during push. `MaxQueue`
  3; the code's queue has no bound, and a longer one only delays what the three
  messages already show. `MaxAsked` 2: two late answers.
* `audit`: `MaxLog` 2, `MaxCalls` 2 and two stores: the smallest fork, the
  smallest race of two puts, an import interrupted between two of its three
  records; `MaxExports` 1, between the reads of which the other store writes.
* `assessment`: three services are every shape of graph that matters to a
  search: chains, forks, cycles of one, two and three, islands. `MCHorizon`
  gives all of them one window, and the demo's own graph three windows and a
  second playback: a revision is possible from the second window on, and the
  cache survives into the second playback. `ReversalIndex` is 2 for the code's
  8, so that a sharp port change comes before it and after it. `MCEvidence`: a
  calm window and one per stage, with rising, falling, current and forecast
  shapes; `MCPenalties` 17 and 30, from the trusts 85, 65 and 35, give every
  level, both sides of the policy's lines at 45, 55 and 70, and the floor of 5.
  `MCDecided`: an intervention, none that suffices, none that could be told: the
  three forms of an action record.
* `ingest`: windows of two ticks and a long gap of two windows over six times:
  adjacent windows, a short gap and a long one; rows with and without a packet
  count; one row removed for each reason; an intrusion of two windows.

`CHECK_DEADLOCK FALSE` in every configuration: sessions, requests, records and
calls run out at their bounds, and a demo nobody plays stands still.

### Fairness

Only what the event loop, the browser and the timeouts guarantee is fair: a
timer task or live task that is alive is woken (`WF` on `TimerStep`, `Playback`,
`LiveTaskStep`); the stream's handler and the browser go on (`LoadStatus`,
`LoadEvents`, `Replay`, `Subscribe`, `Deliver`), EventSource reconnects
(`Connect`), `wait_for` times out (`Heartbeat`), and a request that was sent is
answered (`Answered`, `AskStatus`). No client is obliged to call anything,
nobody to ask the engine for another window (but a window once taken runs to its
event, `WF` on `Analyse`: the loop's body is synchronous), no human to decide,
no connection to fail, no window to be received, and no caller of the closed
loop to verify or to reconsider: none in the repository is scheduled to. The
gate, the API, the page, the closed loop, the capture, the audit store and the
ingestion promise no progress by themselves and have no fairness.

## 4. Proofs

Checked by TLAPS for every value of the constants, under the assumptions named
in the modules: types of the constants, and `None` or `Missing` different from
the values (`NoneAssumption`, `GateAssumption`, `ApiAssumption`,
`PageAssumption`, `StoreAssumption`, `DemoAssumption`, `LiveAssumption`,
`StreamAssumption`, `BundleAssumption`, `MissingAssumption`,
`CaptureAssumption`, `TrainingAssumption`, `ServicesAssumption`,
`VerificationAssumption`, `ClosedLoopAssumption`); `SortedAssumption`: sorting
lists a set's members, and `SortingAssumption`, for the graph searches alone:
each once, and two of them in the same order whatever else is sorted with them;
`AssessmentAssumption`: which shapes the bridge gives which signature. TLC
evaluates each of them in a run.

* **`ResponseExecutorProofs`**: lemmas about one call of the executor, used by
  both programs: a call keeps `ExecutorTypeOK`, and it keeps
  `IndexKeepsExecution` (an id with an EXECUTED record is indexed at that
  record). The index is why an action cannot be applied twice: `IndexedOnce`.
* **`ApprovalGateProofs`**: `TypeCorrect`, `AtMostOnce`, `ExecutedSetAgrees`,
  `InForceIsApproved`, `EffectsHaveActions`. The inductive invariant `GateInv`
  adds that every record's action was dispatched, that every dispatch was for an
  approved request within its deadline, that an active action is the dispatched
  one, and the agreement of the executed set with the history; decisions,
  requests and dispatches only grow (`Grows`), which keeps approvals valid. From
  the same invariant, `GateImplementsGated`: each step of gate, executor and
  adapter is a step of `GatedResponse` or a stutter; a dispatch that is applied is
  the abstract one because its approval is still the one that was given, and one
  that fails or is refused changes nothing the promise speaks of.
* **`ResponseApiProofs`**: `TypeCorrect`, `AtMostOnce`, `RollbackIsFinal`. The
  invariant `ApiInv` adds that what is active, or was rolled back, has an
  EXECUTED record, so the index answers for it for good. `EvidenceIsFresh` is an
  action property: only an execute call that is applied puts anything in force.
  `OperatorSawIt` is of the page in front of the API: target, window and
  decision are those of the click, the type is DEMO_BLOCK whatever was shown.
  Its invariant `PageInv` ties each request on the wire to the click it was sent
  for, gives every click one request or one action but never both, and says the
  events clicked on had a policy and a proposal.
* **`AuditStoreProofs`**: `TypeCorrect`, `HistoryIsAppendOnly`, `ChainIsLinked`,
  `EntriesAreStored`, `StoreStaysSound`, `AcknowledgedStays`, `ExportsOnlyRead`.
  The acknowledgements rest on `DurableInv`: the part of a running call's batch
  that is no longer to do is stored, and a call about to log has seen a row under
  its key. Stored rows never change, which carries both, and every reference that
  recovery follows, past every other store's steps. `ExportsOnlyRead` carries the
  others into the specification with exports, where `BundleStaysFaithful` rests on
  `BundleInv`: what an export has read is a faithful copy of the database at the
  log length it noted, and stays so past every other store's steps, because rows
  do not change and the log only grows.
* **`AssessmentProofs`**: `AffectedAreDownstream`, of the walk alone, by its
  invariant: every reached service that has left the queue has its dependents
  reached, at most one deeper; every closed set around the root holds what is
  reached; every reached service is one deeper than one it depends on; and the
  queue is sorted by depth, nothing reached being more than one deeper than its
  head. The last part is why first met is shortest. `ImpactIsDownstream` carries
  the facts about the walk into the engine's specification.
  `EventsHaveOneTruth`: the outputs are those of the trust they report, the
  explanations were built of the first pass (`FirstPassExplains`) and differ
  from those of the second in the trust level alone (`ExplanationsAgree`), and
  the action record was made of the revised risk (`RecordsAreUrgent`).
  `RolesAreToldWhatIsNew` rests on an invariant that relates the cache to what
  was published: they agree for every role whose notification was not thrown
  away. Of the policy itself, for any evidence: `ConsequentialIsGated` (why a
  policy that permits an executable class always asks for a human),
  `PolicyIsMonotone` and `ImpactGrantsNothing`, by cases on the thresholds.
  `RevisionsOnlyNarrow` puts the two together: `WidthInv` says that the outputs
  of a window and those of its first pass differ in trust alone and that the
  later trust is not the higher, and risk, strategy and policy are monotone in
  it. `GraphSearchesAreExact` is about the searches of the graph an event is
  assessed against, of any number of services, cyclic or not. That a search
  which calls itself is a function at all is shown first, by induction on the
  services its path has not met (`SearchExists`) or its marks have not reached
  (`VisitExists`); induction is on a set of numbers, `UpToInduction`, never on a
  predicate. A listing is then the union over the walks that go on from its
  beginning (`SearchFinds`), which are the simple paths (`ChainsAreExact`); a
  cycle of two services or more has one least service, and is found from there
  and from nowhere else (`CyclesAreExact`), which is all that `find_cycles`
  finds. For `has_cycle`, which does see a service that needs itself, one marked
  done needs only services that are done and is not upstream of itself
  (`Sound`), one on the stack leads to the service being visited (`Leads`), and
  so meeting it tells a cycle (`Tells`). For the breadth-first search,
  `Explored` says that all a served service needs is listed, in order of hops,
  and nothing more than one hop farther than the next to be served; no service
  is listed twice, so the number of services bounds the rounds.
* **`PlaybackProofs`**: `OneTimerPlays` and `PlaybackIsInOrder`, by `DemoInv`,
  which adds where the generator stands (`GeneratorFits`: a step behind the
  session's, of the same run). All that is read of a session follows from its
  history being contiguous: a page is its end, and an index is found once.
  `OneLoopRecords`, by `LiveInv`, about tasks that were cancelled or wake late.
  `StreamSendsOnce`, by `WatchInv`: what is in the backlog was played before what
  is in the queue, what is in the queue was broadcast after the subscription, and
  what the browser has was played before both. It is of one session,
  `MaxSessions = 1`, as its property is: a restart numbers its events from 0
  again, and the browser then drops or repeats some.
* **`TelemetryProofs`**, of the capture: `ManifestIsTrue`, by `CaptureInv`. The
  ids of the packets stored, the one the reader holds and those in the pipe grow
  in this order (`IdsGrow`), so a stored packet is known by its id. What was
  collected was stamped before the window in progress began (`CollectedIsPast`),
  and a window collects what was stamped since (`RangeAre`): nothing is
  collected twice, however late it was stored, and the cut of what was collected
  grows by one place (`WindowCuts`). A packet and its counts go in together
  (`CountsTell`), and nothing is collected once a stop began (`ManifestHolds`),
  so a manifest stays true while the reader goes on storing, past a second stop
  as well. `PacketsAreAccountedForAlways` needs more: stamps follow the order of
  the lines among all the packets stored, held or in the pipe
  (`StampsFollowIds`, which holds since a line is stamped with the clock when it
  is written), so what is collected is in the order of time
  (`CollectedInOrder`), and the manifest keeps its flows (`ManifestKeepsFlows`).
  A sort then changes nothing (`ByTimeIs`), and each packet has one place in one
  bin (`BinsHold`). Packet by packet, the flows stand for what was added
  (`FlowsAre`): a packet opens a flow, goes on with it or leaves it as it is
  (`FlowOpens`, `FlowGoesOn`, `FlowStays`), and as stamps never go back, the
  gaps between them add up to the duration (`GapsAddUp`).
* **`TelemetryProofs`**, of the ingestion: the five properties of `ingest`. The
  invariant `IngestInv` is short: rows are accounted for, and the states are built
  of what was retained. The rest is about what is computed of them. `InOrderIs`
  says that a finite set of numbers has one order, and from it come least and
  greatest members, places and windows; `StatesAre`, that the states are `n`
  windows that lie end to end from the first flow to the last, each told by its
  own flows (`TiledBy`). `StatesTileTimeAlways` adds the sessions: the number of
  empty windows since the last one with flows is what the code counts
  (`NumberingCounts`), so a session changes at every long gap and nowhere else
  (`SessionsPart`). `SamplesWereObservedAlways`: what the code asks of a stretch,
  in four tests, comes to every window of it having been measured (`UsableIs`).
  `SplitsAreHonestAlways`: the shares fit, as halves round to the even neighbour
  (`SharesFit`). `LabelsTellOneStoryAlways`: stages go forward in an interval of
  any length, and an onset is counted down to from as far as the code looks.
  `RolloutsAgreeAlways`: while the forecasts come true, the two rollouts hold the
  same buffer. Where an induction is needed, it is the least counterexample of a
  finite set of numbers that leads to a contradiction.
* **`ClosedLoopProofs`**: of the selector, for any window, forecast, target and
  topology, `DecisionIsMinimumSufficient` and `DoNothingWinsAtACost`; of the
  loop, for any number of windows and executions, `LoopAsks`, `LoopIsCautious`
  and `LoopRecommendsTheMinimum`. The ranking is a strict order on finitely many
  interventions, so that a first one exists and is the only one; the loop's
  invariant says which execution each request answers. What the documentation
  leaves out is an assumption of the theorem: "DO_NOTHING wins when safe" fails
  where another intervention costs nothing. Of the verdicts, for windows of any
  number and any feed: `VerdictsAreDeserved`. Windows that arrive in order are
  sorted already (`EarliestOfOrdered`), those inside the time to live are the
  first ones, and a count over three of them is at least two exactly where two
  in a row are off (`StreakIsFound`); so what `verify_trajectory` counts is
  `Convicts`, and that is the reference `Diverges`. The invariant `VerdictInv`
  says that what was received follows the execution in order and that a verdict
  of the latest window is that of the windows fed. `MismatchesStand` assumes a
  caller who passes every window, `FeedLimit >= MaxWindow`: a window added at
  the end moves none out of the first three (`MismatchGrows`), while one dropped
  in front would. Under the same assumption `ReconsiderationsAreDeserved`: by
  `StandingInv`, a mismatch once found is one of the windows received now, so a
  verdict acted on windows later, perhaps a second time, still rests on a
  divergence (`StandingDiverges`).

Proving changed the models where they could not be reasoned about or promised
too much: `ReadsAgree` now says that its pages are of at most 500 events, which
is the most `GET /events` answers; the assumptions now keep `None` out of events
and generators; filtered histories and ranges of packets are written in closed
form (`Selected`); and `SentOnce` is about positions and indices instead of one
concatenated list; the verifier's windows and the packets of bins are put in
order by rank (`EarliestFirst`, `ByTime`), and streaks are counted by a
recursive function, as are sessions, rollouts and flows; the searches of the
graph are recursive functions, where two were operators that pass their state
along, and cycles are turned to their least service by a minimum.
`PacketsAreAccountedFor` says of a packet that it is at exactly one place of the
bins, where it had compared their sizes to the whole. `Expected` says that a
long gap of zero leaves no samples, which no run had shown: each window is then
a session of its own.

Left to TLC: the liveness properties (`PlaybackEnds`, `LiveRunEnds`, `Converges`,
`WindowsArePublished`), which need reasoning about
fairness that the prover does not do. Left to TLC too are the algorithms that runs
check as assumptions over bounded inputs (section 3). Every invariant and every
action property that a run checks is stated by a theorem.

## 5. Not modelled

* What an event of the engine says in words: explanations
  (`explainability/engine.py`), of which `Assessment` keeps only what they tell of
  the first pass, the evidence named beside a hypothesis, the derived
  reconsideration view of the browser.
* The parameters with which the demo engine calls the selector, other than the
  defaults, and so which intervention it picks for a window.
* `analyze.py`, the experiment scripts of `eval/` and the training scripts of
  `runtime/`: run by hand, one after the other, over files; floating-point
  reports without interaction. The tree models and metrics of `eval/` are
  library calls.
* The what-if simulation route and the routes that list scenarios, topology and
  health: they read.
* What tshark's columns are parsed into (`packet_parser.py`), how its binary is
  found, CSV headers and dates.
* The control center page: view state over mock data.
* In the modelled parts: the wording of records and replies; two live runs
  started within one second (their ids collide); artifact directories shared by
  runs; schema versions and the opening of a database file.
* `Assessment` takes what raises a signature and by how much a forecast missed as
  inputs, and `ApprovalGate`, `ResponseApi` and `ApprovalPage` the policy's
  answers: `SecurityAnalysis`, `Reconsideration` and `AuthorityPolicy` say what
  they can be. `ResponseApi` takes `verify`'s answer as an input.

## 6. Plan

1. Done: executor, gate, API, page, store, playback, live, capture, stream,
   audit store with exports, policy, analysis, selection, verification, closed
   loop, blast radius and graph searches, assessment, ingestion, forecasting.
2. Done: proofs of the invariants of gate, API, page, store, playback, live
   capture, stream, audit store with exports, policy, assessment, closed loop,
   and of the refinement of `GatedResponse`; of the verdicts, from the fact that
   only the first three windows count; of the capture, from the ranges of packets
   that the windows read and the order of their stamps.
3. Done: proofs of the ingestion, once samples, sessions and rollouts were
   written in closed form or as recursive functions; of the bins and flows of a
   capture likewise.
4. Done: proof of the searches over the service graph, rewritten as recursive
   functions for it.
5. Left: liveness, with a prover that knows fairness.

Order: what can put a response in force came first, then what is shown of it,
then what is kept of it, then the functions that decide it, then what they are
made from.
