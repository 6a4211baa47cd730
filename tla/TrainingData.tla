----------------------------- MODULE TrainingData -----------------------------
(***************************************************************************)
(* From rows of a flow export to training samples: ingest/cic_flow.py,     *)
(* ingest/pcap_ingest.py, eval/dataset.py, eval/labels.py and the sampling *)
(* and rollouts of eval/rollout.py.                                        *)
(*                                                                         *)
(* Rows are read one by one and cleaned; the flows that are left fall into *)
(* windows, every window from the first to the last becomes a state, and   *)
(* runs of states become samples, which are split and labelled.  Time is a *)
(* number; of a row the model keeps its time, which of its columns hold a  *)
(* number, and a tag for the rest of its content.                          *)
(***************************************************************************)
EXTENDS Integers, SequencesExt

CONSTANTS
  WindowSize,   \* settings.window_size_seconds
  LongGap,      \* settings.long_gap_seconds
  MaxBadShare,  \* settings.max_timestamp_failure_fraction, in hundredths
  Times,        \* the times rows may bear
  Contents,     \* sets of columns that hold a number in a row
  Tags,         \* what else tells two rows apart
  MaxRemoved,   \* bound: headers, bad timestamps and duplicates read, of each
  HistoryDepth, \* history_depth of the transitions
  RolloutDepth, \* history_depth of the multi-step samples
  MaxHorizon,   \* max_horizon of the multi-step samples
  MinSamples,   \* the fewest samples chronological_split takes
  Block,        \* the block left out, an attack interval
  Lags          \* the coefficients of the fitted AR model, oldest lag first

ASSUME TrainingAssumption ==
  /\ WindowSize \in Nat \ {0} /\ LongGap \in Nat /\ MaxBadShare \in 0..100
  /\ Times \subseteq Nat /\ HistoryDepth \in Nat \ {0} /\ RolloutDepth \in Nat
  /\ MaxHorizon \in Nat \ {0} /\ Lags \in Seq(Int) /\ Len(Lags) \in 1..(RolloutDepth - 1)
  /\ Block \in [start : Int, end : Int, recon : Nat, family : STRING]

VARIABLES
  progress,      \* reading, refused or built
  rowsRead,      \* stats.rows_read
  removed,       \* stats: the rows removed, by reason
  retained,      \* the flows read_flows has yielded
  networkStates  \* the network states

ingestVars == <<progress, rowsRead, removed, retained, networkStates>>

Row == [at : Times, columns : Contents, tag : Tags]
Reason == {"header", "timestamp", "duplicate"}

Init ==
  /\ progress = "reading" /\ rowsRead = 0
  /\ removed = [r \in Reason |-> 0]
  /\ retained = {} /\ networkStates = <<>>

-----------------------------------------------------------------------------
(* read_flows.  An invalid number costs a row that column, never the row.   *)

RemoveRow(reason) ==
  /\ progress = "reading" /\ removed[reason] < MaxRemoved
  /\ rowsRead' = rowsRead + 1
  /\ removed' = [removed EXCEPT ![reason] = @ + 1]
  /\ UNCHANGED <<progress, retained, networkStates>>

ReadHeader == RemoveRow("header")
ReadBadTimestamp == RemoveRow("timestamp")
ReadDuplicate == retained # {} /\ RemoveRow("duplicate")

ReadFlow(row) ==
  /\ progress = "reading" /\ row \notin retained
  /\ rowsRead' = rowsRead + 1
  /\ retained' = retained \union {row}
  /\ UNCHANGED <<progress, removed, networkStates>>

-----------------------------------------------------------------------------
(* _state: the features of a window, and which of them are available        *)

\* The columns a feature is computed from; any of them will do.
Columns ==
  [byte_rate |-> {"TotLen Fwd Pkts", "TotLen Bwd Pkts"},
   packet_rate |-> {"Tot Fwd Pkts", "Tot Bwd Pkts"},
   mean_flow_duration |-> {"Flow Duration"},
   dst_port_diversity |-> {"Dst Port"},
   syn_count |-> {"SYN Flag Cnt"},
   ack_count |-> {"ACK Flag Cnt"},
   rst_count |-> {"RST Flag Cnt"},
   iat_mean |-> {"Flow IAT Mean"},
   iat_std |-> {"Flow IAT Std"},
   pkt_size_mean |-> {"Pkt Len Mean"},
   pkt_size_std |-> {"Pkt Len Std"}]

MeasuredColumns(rows) == UNION {r.columns : r \in rows}
Measured(feature, rows) == Columns[feature] \intersect MeasuredColumns(rows) # {}

\* Nothing measured counts as a packet total of zero, and a flag count over
\* zero packets is an available ratio of zero.
RatioAvailable(flag, rows) == Measured(flag, rows)

\* The variance wants a row that holds both directions.
VarianceAvailable(rows) == \E r \in rows : Columns["byte_rate"] \subseteq r.columns

AvailableFeatures(rows) ==
  {f \in DOMAIN Columns : Measured(f, rows)}
    \union (IF rows = {} THEN {} ELSE {"flow_count"})
    \union (IF RatioAvailable("syn_count", rows) THEN {"syn_ratio"} ELSE {})
    \union (IF RatioAvailable("rst_count", rows) THEN {"rst_ratio"} ELSE {})
    \union (IF VarianceAvailable(rows) THEN {"byte_variance"} ELSE {})

\* CSV_AVAILABLE_FEATURES
AllFeatures == DOMAIN Columns \union {"flow_count", "syn_ratio", "rst_ratio", "byte_variance"}

StateOf(from, rows, session, gapBefore, gapAfter) ==
  [from |-> from, until |-> from + WindowSize,
   flowCount |-> Cardinality(rows), isEmpty |-> rows = {},
   features |-> AvailableFeatures(rows),
   session |-> session, gapBefore |-> gapBefore, gapAfter |-> gapAfter]

-----------------------------------------------------------------------------
(* build_states *)

Floor(t) == (t \div WindowSize) * WindowSize

Starts(flows) ==
  LET buckets == {Floor(f.at) : f \in flows} IN
  [k \in 1..((Max(buckets) - Min(buckets)) \div WindowSize + 1) |->
     Min(buckets) + (k - 1) * WindowSize]

Bucket(flows, start) == {f \in flows : Floor(f.at) = start}

\* A run exactly as long as the long gap ends nothing.
NumberWindowLate(acc, isEmpty) ==
  IF isEmpty THEN [acc EXCEPT !.run = @ + 1]
  ELSE [session |-> acc.session + (IF acc.run * WindowSize > LongGap THEN 1 ELSE 0), run |-> 0]

\* One session number per window: a new session begins at the first window
\* with flows after a run of empty ones as long as the long gap.
NumberWindow(acc, isEmpty) ==
  IF isEmpty THEN [acc EXCEPT !.run = @ + 1]
  ELSE [session |-> acc.session + (IF acc.run * WindowSize >= LongGap THEN 1 ELSE 0), run |-> 0]

Sessions(empty) ==
  LET upTo[k \in 0..Len(empty)] ==
        IF k = 0 THEN [session |-> 1, run |-> 0] ELSE NumberWindow(upTo[k - 1], empty[k])
  IN [k \in DOMAIN empty |-> upTo[k].session]

StatesOf(flows) ==
  LET starts == Starts(flows)
      empty == [k \in DOMAIN starts |-> Bucket(flows, starts[k]) = {}]
      sessions == Sessions(empty)
  IN  [k \in DOMAIN starts |->
         StateOf(starts[k], Bucket(flows, starts[k]), sessions[k],
                 k > 1 /\ empty[k - 1], k < Len(starts) /\ empty[k + 1])]

TooManyBadTimestamps == removed["timestamp"] * 100 > MaxBadShare * rowsRead

Refuse ==
  /\ progress = "reading" /\ TooManyBadTimestamps
  /\ progress' = "refused"
  /\ UNCHANGED <<rowsRead, removed, retained, networkStates>>

BuildStates ==
  /\ progress = "reading" /\ ~TooManyBadTimestamps
  /\ progress' = "built"
  /\ networkStates' = IF retained = {} THEN <<>> ELSE StatesOf(retained)
  /\ UNCHANGED <<rowsRead, removed, retained>>

Next ==
  \/ ReadHeader \/ ReadBadTimestamp \/ ReadDuplicate
  \/ \E row \in Row : ReadFlow(row)
  \/ Refuse \/ BuildStates

Spec == Init /\ [][Next]_ingestVars

-----------------------------------------------------------------------------
(* pcap_ingest.py: the windows of a capture start at its first packet       *)

PcapWindows(times) ==
  LET first == Min(times)
      count == Max({1, (Max(times) - first) \div WindowSize + 1})
      bin(k) == {t \in times : (t - first) \div WindowSize = k - 1}
  IN  [k \in 1..count |->
         [from |-> first + (k - 1) * WindowSize, until |-> first + k * WindowSize, holds |-> bin(k)]]
-----------------------------------------------------------------------------
(* extract_transitions and extract_multistep_samples *)

Slice(seq, i, length) == SubSeq(seq, i, i + length - 1)

\* Why a stretch of states is dropped, in the order the code asks.
Bridges(w) == \E k \in DOMAIN w : w[k].isEmpty
CrossesSessions(w) == \E k \in DOMAIN w : w[k].session # w[1].session
Jumps(w) == \E k \in 2..Len(w) : w[k - 1].until # w[k].from
\* Only the target is asked.
TargetLacksFeature(w, wanted) == ~(wanted \subseteq Last(w).features)

LacksFeature(w, wanted) == \E k \in DOMAIN w : ~(wanted \subseteq w[k].features)

Usable(w, wanted) ==
  ~Bridges(w) /\ ~CrossesSessions(w) /\ ~Jumps(w) /\ ~LacksFeature(w, wanted)

\* Where a usable stretch of that length begins.
UsableAt(seq, length, wanted) ==
  {i \in 1..(Len(seq) - length + 1) : Usable(Slice(seq, i, length), wanted)}

\* A set of numbers, least first.
InOrder(S) ==
  [n \in 1..Cardinality(S) |-> CHOOSE k \in S : Cardinality({i \in S : i <= k}) = n]

\* The transitions, each by the start of its target, which is what they are
\* split and labelled by.
Transitions(seq) ==
  LET at == InOrder(UsableAt(seq, HistoryDepth + 1, AllFeatures)) IN
  [n \in DOMAIN at |-> [target |-> seq[at[n] + HistoryDepth].from, first |-> seq[at[n]].from]]

Deltas(values) == [k \in 1..(Len(values) - 1) |-> values[k + 1] - values[k]]

\* The multi-step samples, with the deltas of one feature, the flow count.
MultiStepSamples(seq) ==
  LET at == InOrder(UsableAt(seq, RolloutDepth + MaxHorizon, AllFeatures))
      counts(i) == [k \in 1..(RolloutDepth + MaxHorizon) |-> seq[i + k - 1].flowCount]
  IN  [n \in DOMAIN at |->
         [target |-> seq[at[n] + RolloutDepth].from,
          history |-> SubSeq(Deltas(counts(at[n])), 1, RolloutDepth - 1),
          future |-> SubSeq(Deltas(counts(at[n])), RolloutDepth, RolloutDepth + MaxHorizon - 1)]]

-----------------------------------------------------------------------------
(* MultiStepRolloutEngine: the same one-step model, fed with its own        *)
(* predictions or with what was observed meanwhile                          *)

Predict(buffer) == FoldLeft(LAMBDA n, k : n + Lags[k] * buffer[k], 0, [k \in DOMAIN Lags |-> k])

LastLags(seq) == SubSeq(seq, Len(seq) - Len(Lags) + 1, Len(seq))

OpenLoop(sample) ==
  LET buffer[h \in 1..MaxHorizon] ==
        IF h = 1 THEN LastLags(sample.history)
        ELSE Append(Tail(buffer[h - 1]), Predict(buffer[h - 1]))
  IN [h \in 1..MaxHorizon |-> Predict(buffer[h])]

\* Mutant: it is told the delta it is to predict.
RecedingHorizonTold(sample) ==
  [h \in 1..MaxHorizon |-> Predict(LastLags(sample.history \o SubSeq(sample.future, 1, h)))]

RecedingHorizon(sample) ==
  [h \in 1..MaxHorizon |->
     Predict(LastLags(sample.history \o SubSeq(sample.future, 1, h - 1)))]

-----------------------------------------------------------------------------
(* chronological_split and leave_one_block_out_split *)

\* int(round(n * share)), the halves to the even neighbour.
Rounded(n, share) ==
  LET whole == (n * share) \div 100 rest == (n * share) % 100 IN
  IF rest > 50 \/ (rest = 50 /\ whole % 2 = 1) THEN whole + 1 ELSE whole

ChronologicalSplit(seq) ==
  LET train == Rounded(Len(seq), 60) val == Rounded(Len(seq), 15) IN
  [train |-> SubSeq(seq, 1, train),
   val |-> SubSeq(seq, train + 1, train + val),
   test |-> SubSeq(seq, train + val + 1, Len(seq))]

InBlock(t) == Block.start <= t /\ t <= Block.end

\* Those of the samples whose target is chosen.
SamplesWith(seq, chosen(_)) ==
  LET at == InOrder({n \in DOMAIN seq : chosen(seq[n].target)}) IN
  [n \in DOMAIN at |-> seq[at[n]]]

\* The two ends of the block are tested on and trained on.
LeaveInsideOut(seq) ==
  LET others == SamplesWith(seq, LAMBDA t : t <= Block.start \/ Block.end <= t)
      train == Rounded(Len(others), 80)
  IN  [train |-> SubSeq(others, 1, train),
       val |-> SubSeq(others, train + 1, Len(others)),
       test |-> SamplesWith(seq, InBlock)]

LeaveBlockOut(seq) ==
  LET others == SamplesWith(seq, LAMBDA t : ~InBlock(t))
      train == Rounded(Len(others), 80)
  IN  [train |-> SubSeq(others, 1, train),
       val |-> SubSeq(others, train + 1, Len(others)),
       test |-> SamplesWith(seq, InBlock)]

-----------------------------------------------------------------------------
(* labels.py *)

StageOf(t) ==
  LET offset == t - Block.start IN
  IF ~InBlock(t) THEN "BENIGN"
  ELSE IF offset < Block.recon THEN "RECONNAISSANCE"
  ELSE IF Block.family = "DDoS" THEN "IMPACT_DOS"
  ELSE IF 2 * offset < Block.end - Block.start THEN "EXPLOITATION_INFILTRATION"
  ELSE "LATERAL_EXFILTRATION"

\* The target taken for the current state.
CurrentIsTarget(t) == t

\* The current state of a transition starts one window before its target.
Current(t) == t - WindowSize

TransitionType(t) ==
  CASE ~InBlock(Current(t)) /\ ~InBlock(t) -> "STEADY_BENIGN"
    [] ~InBlock(Current(t)) /\ InBlock(t) -> "ATTACK_ONSET"
    [] InBlock(Current(t)) /\ InBlock(t) -> "ATTACK_ACTIVE"
    [] OTHER -> "ATTACK_CESSATION"

\* Whether one of the next h transitions of the list is in the attack.
LooksAhead(seq, i, h) == \E k \in i..Min({Len(seq), i + h - 1}) : InBlock(seq[k].target)

StepsToOnset(seq, i) ==
  LET onsets == {k \in i..Min({Len(seq), i + 29}) : TransitionType(seq[k].target) = "ATTACK_ONSET"} IN
  IF onsets = {} THEN -1 ELSE Min(onsets) - i + 1

Labels(seq) ==
  [i \in DOMAIN seq |->
     [type |-> TransitionType(seq[i].target),
      stage |-> StageOf(Current(seq[i].target)), nextStage |-> StageOf(seq[i].target),
      ahead |-> [h \in 1..3 |-> LooksAhead(seq, i, h)],
      stepsToOnset |-> StepsToOnset(seq, i)]]
-----------------------------------------------------------------------------
Observed(t) == {f \in retained : t <= f.at /\ f.at < t + WindowSize}

(* Every row read is retained or removed for one reason, and every flow is   *)
(* in exactly one state: the states lie end to end, from the first flow to   *)
(* the last, and say truly which of their neighbours are empty.  Two windows *)
(* with flows share a session exactly if no long gap lies between them.  The *)
(* windows of a capture tile it too.                                         *)
StatesTileTime ==
  /\ rowsRead = Cardinality(retained)
                  + removed["header"] + removed["timestamp"] + removed["duplicate"]
  /\ (progress = "built" /\ retained # {}) =>
       LET emptyBetween(i, j) ==
             \E a \in i..j, b \in i..j :
               /\ a <= b + 1 /\ (b - a + 1) * WindowSize >= LongGap
               /\ \A k \in a..b : networkStates[k].isEmpty
           tiles(windows) ==
             \A k \in 2..Len(windows) : windows[k - 1].until = windows[k].from
           pcap == PcapWindows({f.at : f \in retained})
       IN  /\ tiles(networkStates) /\ ~Head(networkStates).isEmpty /\ ~Last(networkStates).isEmpty
           /\ \A k \in DOMAIN networkStates :
                /\ networkStates[k].flowCount = Cardinality(Observed(networkStates[k].from))
                /\ networkStates[k].gapBefore <=> k > 1 /\ networkStates[k - 1].isEmpty
           /\ \A f \in retained : \E k \in DOMAIN networkStates :
                \A j \in DOMAIN networkStates : f \in Observed(networkStates[j].from) <=> j = k
           /\ \A i, j \in DOMAIN networkStates :
                (i < j /\ ~networkStates[i].isEmpty /\ ~networkStates[j].isEmpty) =>
                  (networkStates[i].session = networkStates[j].session <=> ~emptyBetween(i, j))
           /\ tiles(pcap) /\ UNION {pcap[k].holds : k \in DOMAIN pcap} = {f.at : f \in retained}
           /\ \A k \in DOMAIN pcap : \A t \in pcap[k].holds : pcap[k].from <= t /\ t < pcap[k].until

\* The targets whose windows, so many before and after, all hold flows with
\* every feature: what the samples should be, read off the flows themselves.
\* A long gap of nothing leaves no two windows in one session.
Expected(before, after) ==
  {t \in {s.from : s \in ToSet(networkStates)} :
     LongGap > 0 /\ \A k \in (-before)..after :
       LET rows == Observed(t + k * WindowSize) IN
       rows # {} /\ AllFeatures \subseteq AvailableFeatures(rows)}

Targets(samples) == {samples[n].target : n \in DOMAIN samples}

(* "Never bridge an empty window, never cross a session boundary, never      *)
(* bridge a temporal gap": the samples are the stretches of telemetry that   *)
(* were measured throughout, all of them and no others.                      *)
SamplesWereObserved ==
  progress = "built" =>
    /\ Targets(Transitions(networkStates)) = Expected(HistoryDepth, 0)
    /\ Targets(MultiStepSamples(networkStates)) = Expected(RolloutDepth, MaxHorizon - 1)

(* "Strictly zero access to future ground truth": the open-loop forecast     *)
(* agrees with the receding one for as long as what was observed is what it  *)
(* predicted, and so always at its first step.                               *)
RolloutsAgree ==
  progress = "built" =>
    \A sample \in ToSet(MultiStepSamples(networkStates)) : \A h \in 1..MaxHorizon :
      (\A k \in 1..(h - 1) : sample.future[k] = OpenLoop(sample)[k]) =>
        OpenLoop(sample)[h] = RecedingHorizon(sample)[h]

(* A split uses every sample once. The chronological one tests on what comes *)
(* last; the other one tests on the block left out, tunes on later targets   *)
(* than it trains on, and neither trains nor tunes on a target of the block. *)
SplitsAreHonest ==
  progress = "built" =>
    LET samples == Transitions(networkStates)
        together(s) == s.train \o s.val \o s.test
        split == ChronologicalSplit(samples)
        leave == LeaveBlockOut(samples)
    IN  /\ Len(samples) >= MinSamples => together(split) = samples
        /\ ToSet(together(leave)) = ToSet(samples) /\ Len(together(leave)) = Len(samples)
        /\ \A a \in ToSet(leave.train) : \A b \in ToSet(leave.val) : a.target < b.target
        /\ \A s \in ToSet(leave.train) \union ToSet(leave.val) : ~InBlock(s.target)

(* The labels tell one story: the state a transition ends in is the state    *)
(* the next one starts from, an onset is the transition that enters the      *)
(* attack and is counted down to, the horizons only widen, and the stages of *)
(* an attack are never gone through backwards.                               *)
LabelsTellOneStory ==
  progress = "built" =>
    LET samples == Transitions(networkStates)
        labels == Labels(samples)
        rank == [BENIGN |-> 1, RECONNAISSANCE |-> 2, EXPLOITATION_INFILTRATION |-> 3,
                 LATERAL_EXFILTRATION |-> 4, IMPACT_DOS |-> 5]
    IN  \A i \in DOMAIN samples :
          /\ (labels[i].type = "ATTACK_ONSET") <=> labels[i].stepsToOnset = 1
          /\ (labels[i].ahead[1] => labels[i].ahead[2]) /\ (labels[i].ahead[2] => labels[i].ahead[3])
          /\ (labels[i].stepsToOnset \in 1..3) => labels[i].ahead[labels[i].stepsToOnset]
          /\ labels[i].nextStage # "BENIGN" => rank[labels[i].stage] <= rank[labels[i].nextStage]
          /\ \A j \in DOMAIN samples :
               samples[j].target = samples[i].target + WindowSize =>
                 labels[i].nextStage = labels[j].stage

(* labels.py: "lookahead_attack_h2: 1 if attack in [t+1, t+2]". Fails across *)
(* a gap, where the next sample is later.                                    *)
LookaheadIsTimely ==
  progress = "built" =>
    LET samples == Transitions(networkStates) IN
    \A i \in DOMAIN samples : \A h \in 1..3 :
      Labels(samples)[i].ahead[h] =>
        \E k \in 0..(h - 1) : InBlock(samples[i].target + k * WindowSize)

(* contracts.py: "Only measured, valid predictive features; unavailable      *)
(* values never become zero". Fails for a window whose flows lack a packet   *)
(* count.                                                                    *)
RatiosAreMeasured ==
  \A k \in DOMAIN networkStates :
    networkStates[k].features \intersect {"syn_ratio", "rst_ratio"} # {} =>
      "packet_rate" \in networkStates[k].features
=============================================================================
