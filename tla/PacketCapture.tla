---------------------------- MODULE PacketCapture ----------------------------
(***************************************************************************)
(* Inside one live run: runtime/live/packet_capture.py,                    *)
(* traffic_generator.py, flow_accumulator.py, state_builder.py,            *)
(* provenance.py and the loop of live_controller.py.                       *)
(*                                                                         *)
(* tshark writes one line per packet into a pipe; a reader thread takes    *)
(* the lines, checks that each packet belongs to the experiment and        *)
(* stores it under a lock.  The controller sleeps through a window, asks   *)
(* for the packets stamped inside it, builds one state of them, and at the *)
(* end stops everything and writes the manifest.  Time is a counter of     *)
(* ticks.  An endpoint, an address and a port, is a number; a probe of the *)
(* generator talks from an endpoint of its own.                            *)
(***************************************************************************)
EXTENDS Integers, SequencesExt

CONSTANTS
  None,         \* no line, no manifest
  Services,     \* endpoints on an allowed address and an allowed port
  Foreign,      \* endpoints on an address outside the experiment
  Locals,       \* endpoints of other programs on an allowed address, with ports
                \* of their own
  MaxOutsiders, \* bound: outsiders on the interface during one run
  MaxProbes,    \* bound: probes of the generator, each an endpoint 1..MaxProbes
  MaxInFlight,  \* probes the generator's scenario has open at once
  MaxLines,     \* bound: lines tshark writes
  MaxTime,      \* bound: ticks
  Windows,      \* duration_windows
  WindowLength, \* window_duration_s
  WallWait      \* how long the loop sleeps: window_duration_s / speed

ASSUME CaptureAssumption ==
  /\ MaxProbes \in Nat /\ MaxOutsiders \in Nat /\ Windows \in Nat \ {0}
  /\ Services \subseteq Int /\ Foreign \subseteq Int /\ Locals \subseteq Int
  /\ Services \intersect Foreign = {} /\ Locals \intersect (Services \union Foreign) = {}
  /\ (1..MaxProbes) \intersect (Services \union Foreign \union Locals) = {}
  /\ WindowLength \in Nat \ {0} /\ WallWait \in 1..WindowLength

VARIABLES
  clock,      \* time.time()
  lines,      \* lines tshark has written
  process,    \* whether the tshark process is alive
  pipe,       \* its lines that nobody has read
  reader,     \* the reader thread: what it does and the packet it holds
  stopEvent,  \* capture._stop_event
  packets,    \* capture._packets
  stats,      \* capture.stats
  generating, \* the generator runs and was not told to stop
  probes,     \* each probe: unused, sent, or over
  outsiders,  \* who else talks to the services during the run
  phase,      \* where the live loop or stop() is
  stopper,    \* who called stop()
  tStart,     \* t_start of the window in progress
  collected,  \* all_captured_packets
  states,     \* the network states built
  manifest    \* the manifest on disk

captureVars == <<lines, process, pipe, reader, stopEvent, packets, stats>>
trafficVars == <<generating, probes, outsiders>>
loopVars == <<phase, stopper, tStart, collected, states, manifest>>
vars == <<clock, captureVars, trafficVars, loopVars>>

Probe == 1..MaxProbes

CaptureInit ==
  /\ clock = 0 /\ lines = 0
  /\ process = FALSE /\ pipe = <<>>
  /\ reader = [at |-> "off", holds |-> None]
  /\ stopEvent = FALSE /\ packets = <<>>
  /\ stats = [captured |-> 0, inScope |-> 0, violations |-> 0]
  /\ generating = FALSE /\ probes = [p \in Probe |-> "unused"]
  /\ outsiders \in {S \in SUBSET (Foreign \union Locals) : Cardinality(S) <= MaxOutsiders}
  /\ phase = "idle" /\ stopper = "nobody" /\ tStart = 0
  /\ collected = <<>> /\ states = <<>> /\ manifest = None

\* These of a sequence, in their order.
Selected(seq, chosen) ==
  LET place(k) == Cardinality({i \in chosen : i <= k})
  IN [j \in 1..Cardinality(chosen) |-> seq[CHOOSE k \in chosen : place(k) = j]]

-----------------------------------------------------------------------------
(* packet_parser.py *)

\* The endpoints on the experiment's addresses, and those on its ports; a foreign
\* one may have such a port, which nobody looks at.
AllowedAddress == Services \union Probe \union Locals
AllowedPort == Services

\* Mutant: one allowed address is enough.
EitherInScope(p) ==
  /\ p.src \in AllowedAddress \/ p.dst \in AllowedAddress
  /\ p.src \in AllowedPort \/ p.dst \in AllowedPort

\* The addresses are tested apart from the ports: nothing tells a probe from
\* another program on its address.
IsInScope(p) ==
  /\ p.src \in AllowedAddress /\ p.dst \in AllowedAddress
  /\ p.src \in AllowedPort \/ p.dst \in AllowedPort

-----------------------------------------------------------------------------
(* flow_accumulator.py: flows by key, the first packet names the initiator  *)

\* A key that keeps the direction.
DirectedKey(p) == <<p.src, p.dst>>

FlowKey(p) == IF p.src <= p.dst THEN <<p.src, p.dst>> ELSE <<p.dst, p.src>>

NewFlow(p) ==
  [initiator |-> p.src, responder |-> p.dst, start |-> p.at, last |-> p.at,
   fwd |-> 0, bwd |-> 0, timestamps |-> <<>>]

Later(flow, p) ==
  [flow EXCEPT !.last = Max({@, p.at}), !.timestamps = Append(@, p.at),
               !.fwd = @ + (IF p.src = flow.initiator THEN 1 ELSE 0),
               !.bwd = @ + (IF p.src = flow.initiator THEN 0 ELSE 1)]

AddPacket(flows, p) ==
  [key \in DOMAIN flows \union {FlowKey(p)} |->
     IF key # FlowKey(p) THEN flows[key]
     ELSE Later(IF key \in DOMAIN flows THEN flows[key] ELSE NewFlow(p), p)]

FlowsOf(seq) ==
  LET upTo[n \in 0..Len(seq)] == IF n = 0 THEN <<>> ELSE AddPacket(upTo[n - 1], seq[n])
  IN upTo[Len(seq)]

\* compute_extended_iat_stats, of the timestamps in the order they were added.
Interarrivals(f) ==
  [i \in 1..(Len(f.timestamps) - 1) |-> f.timestamps[i + 1] - f.timestamps[i]]

Total(seq) ==
  LET upTo[n \in 0..Len(seq)] == IF n = 0 THEN 0 ELSE upTo[n - 1] + seq[n]
  IN upTo[Len(seq)]

\* get_flow_features; a ratio is a pair, over no packets it is over one.
Ratio(a, b) == [of |-> a, over |-> Max({1, b})]

FlowFeatures(f) ==
  LET iats == Interarrivals(f) IN
  [duration |-> Max({0, f.last - f.start}),
   fwdBwd |-> Ratio(f.fwd, f.bwd),
   fwd |-> Ratio(f.fwd, f.fwd + f.bwd), bwd |-> Ratio(f.bwd, f.fwd + f.bwd),
   iatMean |-> Ratio(Total(iats), Len(iats)),
   iatMax |-> IF iats = <<>> THEN 0 ELSE Max(ToSet(iats))]

\* An index that rounds up.
IndexAbove(p, from) == (p.at - from + WindowLength - 1) \div WindowLength

\* partition_packets_into_windows: bins from the first packet it is given.
WindowIndex(p, from) == (p.at - from) \div WindowLength

\* Sorted by time, packets of one time in the order they came in.
ByTime(seq) ==
  LET upTo(i) == {j \in DOMAIN seq : seq[j].at < seq[i].at \/ (seq[j].at = seq[i].at /\ j <= i)}
  IN [n \in DOMAIN seq |-> seq[CHOOSE i \in DOMAIN seq : Cardinality(upTo(i)) = n]]

PartitionIntoWindows(seq) ==
  LET from == seq[1].at
      ordered == ByTime(seq)
      places(k) == {n \in DOMAIN ordered : WindowIndex(ordered[n], from) = k}
  IN [k \in {WindowIndex(p, from) : p \in ToSet(seq)} |-> Selected(ordered, places(k))]

-----------------------------------------------------------------------------
(* state_builder.py.  The end of a state is its start and the window's      *)
(* length, however short the loop slept; without packets every feature is   *)
(* UNAVAILABLE.                                                             *)

IdleState(from) ==
  [from |-> from, until |-> from + WindowLength,
   isEmpty |-> TRUE, packets |-> 0, flowCount |-> 0, dstPorts |-> {}]

ObservedState(seq, from) ==
  LET flows == FlowsOf(seq) IN
  [from |-> from, until |-> from + WindowLength,
   isEmpty |-> FALSE,
   packets |-> Len(seq),
   flowCount |-> Cardinality(DOMAIN flows),
   dstPorts |-> {flows[key].responder : key \in DOMAIN flows}]

BuildState(seq, from) == IF seq = <<>> THEN IdleState(from) ELSE ObservedState(seq, from)

-----------------------------------------------------------------------------
(* provenance.py *)

IsolationPassed(s) == s.captured = s.inScope /\ s.violations = 0

\* The reasons the manifest gives for being invalid.
Reasons(s, seq) ==
  (IF IsolationPassed(s) THEN {} ELSE {"out of scope packets"})
    \union (IF seq = <<>> THEN {"zero packets"} ELSE {})

Manifest(s, seq, built) ==
  [valid |-> IsolationPassed(s) /\ seq # <<>> /\ built # <<>>,
   reasons |-> Reasons(s, seq),
   packets |-> Len(seq), states |-> Len(built), flows |-> FlowsOf(seq)]

\* The manifest stands for the files of the one directory every run writes to.
SaveArtifacts(m) == manifest' = m

-----------------------------------------------------------------------------
(* The wire and the pipe: tshark stamps a packet when it sees it.           *)

Observe(src, dst) ==
  IF process /\ lines < MaxLines
  THEN /\ pipe' = Append(pipe, [id |-> lines + 1, at |-> clock, src |-> src, dst |-> dst])
       /\ lines' = lines + 1
  ELSE UNCHANGED <<pipe, lines>>

\* Another program on the loopback interface, of an address of the experiment or
\* of another one; tshark's filter passes packets of a service's port only.
ForeignPacket ==
  /\ process /\ lines < MaxLines
  /\ \E f \in outsiders, s \in Services : Observe(f, s) \/ Observe(s, f)
  /\ UNCHANGED <<clock, process, reader, stopEvent, packets, stats, trafficVars, loopVars>>

\* A header or a status line has too few fields to be a packet.
ChatterLine ==
  /\ process /\ lines < MaxLines
  /\ pipe' = Append(pipe, None)
  /\ lines' = lines + 1
  /\ UNCHANGED <<clock, process, reader, stopEvent, packets, stats, trafficVars, loopVars>>

TsharkDies ==
  /\ process /\ process' = FALSE
  /\ UNCHANGED <<clock, lines, pipe, reader, stopEvent, packets, stats, trafficVars, loopVars>>

-----------------------------------------------------------------------------
(* traffic_generator.py: a probe connects, sends and waits for the echo     *)

ProbeSends(p) ==
  /\ generating
  /\ probes[p] = "unused" /\ \A q \in 1..(p - 1) : probes[q] # "unused"
  /\ Cardinality({q \in Probe : probes[q] = "sent"}) < MaxInFlight
  /\ probes' = [probes EXCEPT ![p] = "sent"]
  /\ \E s \in Services : Observe(p, s)
  /\ UNCHANGED <<clock, process, reader, stopEvent, packets, stats, generating, outsiders, loopVars>>

\* The echo arrives, or the probe times out; a probe outlives the stop that
\* did not wait for it.
ProbeEnds(p) ==
  /\ probes[p] = "sent"
  /\ probes' = [probes EXCEPT ![p] = "over"]
  /\ \/ \E s \in Services : Observe(s, p)
     \/ UNCHANGED <<pipe, lines>>
  /\ UNCHANGED <<clock, process, reader, stopEvent, packets, stats, generating, outsiders, loopVars>>

-----------------------------------------------------------------------------
(* _read_stdout: the thread that reads the pipe                             *)

Idle == [at |-> "reading", holds |-> None]
Ended == [at |-> "ended", holds |-> None]

ReaderReads ==
  /\ reader = Idle /\ pipe # <<>>
  /\ pipe' = Tail(pipe)
  /\ reader' = IF stopEvent THEN Ended
               ELSE IF Head(pipe) = None THEN Idle
               ELSE [at |-> "storing", holds |-> Head(pipe)]
  /\ UNCHANGED <<clock, lines, process, stopEvent, packets, stats, trafficVars, loopVars>>

ReaderSeesEnd ==
  /\ reader = Idle /\ pipe = <<>> /\ ~process
  /\ reader' = Ended
  /\ UNCHANGED <<clock, lines, process, pipe, stopEvent, packets, stats, trafficVars, loopVars>>

CountPacket(s, p) ==
  IF IsInScope(p)
  THEN [s EXCEPT !.captured = @ + 1, !.inScope = @ + 1]
  ELSE [s EXCEPT !.captured = @ + 1, !.violations = @ + 1]

\* Under the lock: the packet and its counts go in together.
ReaderStores ==
  /\ reader.at = "storing"
  /\ packets' = Append(packets, reader.holds)
  /\ stats' = CountPacket(stats, reader.holds)
  /\ reader' = Idle
  /\ UNCHANGED <<clock, lines, process, pipe, stopEvent, trafficVars, loopVars>>

\* A range closed at both ends.
PacketsInClosedRange(from, until) ==
  Selected(packets, {k \in DOMAIN packets : from <= packets[k].at /\ packets[k].at <= until})

PacketsInRange(from, until) ==
  Selected(packets, {k \in DOMAIN packets : from <= packets[k].at /\ packets[k].at < until})

-----------------------------------------------------------------------------
(* start() and the live loop *)

StartCapture ==
  /\ phase = "idle"
  /\ process' = TRUE
  /\ reader' = Idle

StartRun ==
  /\ StartCapture
  /\ generating' = TRUE
  /\ phase' = "sleeping" /\ tStart' = clock
  /\ UNCHANGED <<clock, lines, pipe, stopEvent, packets, stats, probes, outsiders,
                 stopper, collected, states, manifest>>

\* A port is in use: tshark runs on and there is no loop to stop it.
StartGeneratorFails ==
  /\ StartCapture
  /\ phase' = "orphaned"
  /\ UNCHANGED <<clock, lines, pipe, stopEvent, packets, stats, trafficVars,
                 stopper, tStart, collected, states, manifest>>

WindowBuilt(seq) ==
  /\ collected' = collected \o seq
  /\ states' = Append(states, BuildState(seq, tStart))

\* The packets stamped in [t_start, t_end) become a state, which goes through
\* the engine; the last window stops the run, and so does an engine that fails.
WindowEnds ==
  /\ phase = "sleeping" /\ clock >= tStart + WallWait
  /\ WindowBuilt(PacketsInRange(tStart, clock))
  /\ \/ /\ Len(states') < Windows
        /\ phase' = "between" /\ UNCHANGED stopper
     \/ /\ Len(states') = Windows
        /\ phase' = "halting" /\ stopper' = "loop"
     \/ phase' = "halting" /\ stopper' = "handler"
  /\ UNCHANGED <<clock, captureVars, trafficVars, tStart, manifest>>

\* t_start is read afresh: the engine's work lies between two windows.
NextWindow ==
  /\ phase = "between"
  /\ phase' = "sleeping" /\ tStart' = clock
  /\ UNCHANGED <<clock, captureVars, trafficVars, stopper, collected, states, manifest>>

-----------------------------------------------------------------------------
(* stop(), which blocks the event loop while the threads go on              *)

\* A client's stop cancels the task asleep in its window, and the cancelled
\* task stops once more; nobody follows a stop of an orphaned capture.
ClientStops ==
  /\ phase \in {"sleeping", "orphaned"}
  /\ stopper' = IF phase = "sleeping" THEN "client" ELSE "handler"
  /\ phase' = "halting"
  /\ UNCHANGED <<clock, captureVars, trafficVars, tStart, collected, states, manifest>>

\* What follows a stop that is over, or that raised.
Follow(raised) ==
  IF stopper = "client" \/ (stopper = "loop" /\ raised)
  THEN phase' = "halting" /\ stopper' = "handler"
  ELSE phase' = "stopped" /\ UNCHANGED stopper

\* The generator is told first; neither it nor a probe is waited for for ever.
HaltAll ==
  /\ phase = "halting"
  /\ generating' = FALSE
  /\ stopEvent' = TRUE /\ process' = FALSE
  /\ phase' = "joining"
  /\ UNCHANGED <<clock, lines, pipe, reader, packets, stats, probes, outsiders,
                 stopper, tStart, collected, states, manifest>>

\* The second wait, after kill(), times out: nobody catches it.
KillTimesOut ==
  /\ phase = "halting" /\ process
  /\ generating' = FALSE
  /\ stopEvent' = TRUE
  /\ Follow(TRUE)
  /\ UNCHANGED <<clock, lines, process, pipe, reader, packets, stats, probes, outsiders,
                 tStart, collected, states, manifest>>

\* The join is over: the reader ended, or two seconds passed.
WriteManifest ==
  /\ phase = "joining"
  /\ SaveArtifacts(Manifest(stats, collected, states))
  /\ Follow(FALSE)
  /\ UNCHANGED <<clock, captureVars, trafficVars, tStart, collected, states>>

-----------------------------------------------------------------------------
\* Nobody reads the clock before the start or after the end.
Tick ==
  /\ phase \notin {"idle", "stopped"} /\ clock < MaxTime
  /\ clock' = clock + 1
  /\ UNCHANGED <<captureVars, trafficVars, loopVars>>

ReaderStep == ReaderReads \/ ReaderSeesEnd \/ ReaderStores
StopStep == HaltAll \/ KillTimesOut \/ WriteManifest

CaptureNext ==
  \/ Tick
  \/ ForeignPacket \/ ChatterLine \/ TsharkDies
  \/ \E p \in Probe : ProbeSends(p) \/ ProbeEnds(p)
  \/ ReaderStep
  \/ StartRun \/ StartGeneratorFails
  \/ WindowEnds \/ NextWindow
  \/ ClientStops \/ StopStep

CaptureSpec == CaptureInit /\ [][CaptureNext]_vars
-----------------------------------------------------------------------------
\* Between the addresses of the experiment, and with one of its services.
Belongs(p) ==
  /\ {p.src, p.dst} \intersect Foreign = {}
  /\ {p.src, p.dst} \intersect Services # {}

(* No packet is collected twice, and the states cut what is collected into    *)
(* runs: to a state belong the packets stamped from its start on and before  *)
(* the start of the next one.                                                *)
ObservedOnce ==
  /\ \A i, j \in DOMAIN collected : collected[i].id = collected[j].id => i = j
  /\ \E cut \in [1..(Len(states) + 1) -> 0..Len(collected)] :
       /\ cut[1] = 0 /\ cut[Len(states) + 1] = Len(collected)
       /\ \A k \in DOMAIN states :
            /\ states[k].packets = cut[k + 1] - cut[k]
            /\ \A i \in DOMAIN collected : cut[k] < i <=> states[k].from <= collected[i].at

(* "Strictly partition packets into causal, non-overlapping windows": a      *)
(* packet is in one window at most, however late the reader stored it and    *)
(* however long the engine took between two windows.  And the manifest,      *)
(* written while the reader may still be storing, tells the truth: a valid   *)
(* experiment contains only packets between the experiment's addresses that  *)
(* go to or come from one of its services, an invalid one says why, and its  *)
(* packets and states are those collected.                                  *)
ManifestIsHonest ==
  /\ ObservedOnce
  /\ manifest # None =>
       /\ manifest.valid => \A i \in DOMAIN collected : Belongs(collected[i])
       /\ manifest.valid <=> manifest.reasons = {}
       /\ manifest.packets = Len(collected) /\ manifest.states = Len(states)

(* "all packets belong strictly to the intended localhost experiment scope"  *)
(* (packet_capture.py): a valid experiment contains packets of the generator *)
(* and the services alone. Fails: another program on an address of the       *)
(* experiment that talks to a service passes both tests.                     *)
OnlyTheExperiment ==
  manifest # None /\ manifest.valid =>
    \A i \in DOMAIN collected : {collected[i].src, collected[i].dst} \intersect Locals = {}

\* The bins of what was collected hold each packet of it once and nothing
\* else, within their bounds and in order.
BinsPartition ==
  \E bins \in {PartitionIntoWindows(collected)} :
    LET place == UNION {{<<k, i>> : i \in DOMAIN bins[k]} : k \in DOMAIN bins}
    IN  /\ \A p \in ToSet(collected) : \E at \in place : \A b \in place :
             bins[b[1]][b[2]] = p <=> b = at
        /\ \A k \in DOMAIN bins : \A i \in DOMAIN bins[k] :
             /\ bins[k][i] \in ToSet(collected)
             /\ bins[k][i].at - collected[1].at \in (k * WindowLength)..((k + 1) * WindowLength - 1)
             /\ i > 1 => bins[k][i - 1].at <= bins[k][i].at

\* The two directions of an exchange are one flow, opened by the side whose
\* packet came first, every packet of it is counted in its direction, and the
\* times between its packets add up to how long it lasted.
FlowsAreConversations ==
  manifest # None =>
    LET between(key) ==
          {i \in DOMAIN collected : {collected[i].src, collected[i].dst} = ToSet(key)}
        flows == manifest.flows
    IN  /\ \A p \in ToSet(collected) :
             Cardinality({key \in DOMAIN flows : ToSet(key) = {p.src, p.dst}}) = 1
        /\ \A key \in DOMAIN flows :
             LET f == flows[key] forward == {i \in between(key) : collected[i].src = f.initiator}
             IN  /\ between(key) # {} /\ Min(between(key)) \in forward
                 /\ f.fwd = Cardinality(forward) /\ f.fwd + f.bwd = Cardinality(between(key))
                 /\ \E x \in {FlowFeatures(f)} :
                      /\ x.fwd.of + x.bwd.of = x.fwd.over
                      /\ x.iatMean.of = x.duration /\ x.iatMax <= x.duration

(* However they are grouped, by bins of time or by the flows of the          *)
(* manifest, the packets collected are all there: a bin is a span of time    *)
(* and a flow is a conversation.                                             *)
PacketsAreAccountedFor == BinsPartition /\ FlowsAreConversations

(* LEAD_TIME_METHODOLOGY.md: "Network telemetry is organized into            *)
(* non-overlapping 10-second causal observation windows". Fails when windows *)
(* are waited for in less than their length.                                 *)
StatesDoNotOverlap ==
  \A k \in 2..Len(states) : states[k - 1].until <= states[k].from
=============================================================================
