--------------------------- MODULE RollingBaseline ---------------------------
(***************************************************************************)
(* security/bridge_v2.py and security/bridge_v3.py: the two candidate      *)
(* bridges of the experiments, which compare a window with the trailing    *)
(* ones instead of with fixed counts.  A bridge's state is what it         *)
(* remembers of the last RollingWindowLength windows; v2 remembers the     *)
(* ports only and reads nothing else from its memory.                      *)
(*                                                                         *)
(* A signal is an integer: ports, hundredths of a logarithm, milliseconds. *)
(* Medians are halves, so twice a median is exact, as is four times a MAD. *)
(***************************************************************************)
EXTENDS SecurityAnalysis, Sequences, TLC

CONSTANTS
  RollingWindowLength, MinHistory, KMad,   \* 30, 5 and 3 by default
  ActiveSignals,                           \* of the multi-signal bridge
  Log1p(_)                                 \* numpy.log1p, in hundredths

Signal == {"port", "flow", "byte", "timing"}

\* DEFAULT_SCALE_FLOORS, in the units of the signals.
ScaleFloor == [port |-> 2, flow |-> 30, byte |-> 80, timing |-> 500]

ValueOf(f) == [port |-> f.ports, flow |-> Log1p(f.flows), byte |-> Log1p(f.bytes),
               timing |-> f.iatMean]

Reset == [s \in Signal |-> <<>>]

\* deque(maxlen): the oldest value falls out.
Observe(history, f) ==
  [s \in Signal |->
    LET longer == Append(history[s], ValueOf(f)[s])
    IN IF Len(longer) > RollingWindowLength THEN Tail(longer) ELSE longer]

TwiceMedian(q) ==
  LET sorted == SortSeq(q, LAMBDA x, y : x < y)
  IN sorted[(Len(q) + 1) \div 2] + sorted[Len(q) \div 2 + 1]

Distances(q) ==
  [i \in DOMAIN q |-> LET d == 2 * q[i] - TwiceMedian(q) IN IF d < 0 THEN -d ELSE d]

FourMads(q) == TwiceMedian(Distances(q))

Larger(x, y) == IF x < y THEN y ELSE x

IsActive(history, s) == Len(history[s]) >= MinHistory

-----------------------------------------------------------------------------
(* RollingBaselineSecurityBridge                                           *)

\* The ports lie k dispersions above the median.
PortsExceed(history, f, k) ==
  4 * f.ports >= 2 * TwiceMedian(history.port) + k * Larger(FourMads(history.port), 8)

\* Only the port exploration is judged anew.
RollingStrength(history, f) ==
  IF IsActive(history, "port")
  THEN [CurrentStrength(f) EXCEPT !["Reconnaissance"] =
          Graded(PortsExceed(history, f, KMad), PortsExceed(history, f, KMad + 2) \/ f.syn >= 30)]
  ELSE CurrentStrength(f)

-----------------------------------------------------------------------------
(* MultiSignalRollingBaselineSecurityBridge                                *)

\* A deviation in tenths of the scale, rounded down; short times deviate.
Deviation(history, f, s) ==
  LET above == 2 * ValueOf(f)[s] - TwiceMedian(history[s])
      scale == Larger(7413 * FourMads(history[s]), 20000 * ScaleFloor[s])
  IN ((IF s = "timing" THEN -above ELSE above) * 100000) \div scale

ZScores(history, f) ==
  [s \in Signal |-> IF s \in ActiveSignals /\ IsActive(history, s)
                    THEN Larger(0, Deviation(history, f, s)) ELSE 0]

Listed(s) == CASE s = "port" -> 1 [] s = "flow" -> 2 [] s = "byte" -> 3 [] s = "timing" -> 4

\* The largest deviation and 0.35 of what each of the others has beyond 1.5, in
\* thousandths.
Aggregated(z) ==
  IF \A s \in ActiveSignals : z[s] <= 0
  THEN [composite |-> 0, primary |-> "none", contributions |-> [s \in ActiveSignals |-> 0]]
  ELSE LET primary == CHOOSE s \in ActiveSignals : \A u \in ActiveSignals :
                        z[u] < z[s] \/ (z[u] = z[s] /\ Listed(s) <= Listed(u))
           shares == [s \in Signal |-> IF s \notin ActiveSignals THEN 0
                                       ELSE IF s = primary THEN 100 * z[s]
                                       ELSE 35 * Larger(0, z[s] - 15)]
       IN [composite |-> shares.port + shares.flow + shares.byte + shares.timing,
           primary |-> primary, contributions |-> [s \in ActiveSignals |-> shares[s]]]

\* An active signal is warm with the ports' memory and then judged by its
\* deviation, or by fixed counts that stand whatever is usual; before that, and
\* when it is not active, as ever.
Warm(history, s) == s \in ActiveSignals /\ IsActive(history, "port")
Beyond(history, f, s, k) == ZScores(history, f)[s] >= 10 * k

PortStrength(history, f) ==
  IF Warm(history, "port")
  THEN Graded(Beyond(history, f, "port", KMad),
              Beyond(history, f, "port", KMad + 2) \/ f.syn >= 30)
  ELSE CurrentStrength(f).Reconnaissance

FlowStrength(history, f) ==
  IF Warm(history, "flow")
  THEN Graded(Beyond(history, f, "flow", KMad) \/ (f.flows >= 80 /\ f.rst >= 15) \/ f.flows >= 200,
              Beyond(history, f, "flow", KMad + 2) \/ f.flows >= 200 \/ f.rst >= 30)
  ELSE CurrentStrength(f).DenialOfService

ByteStrength(history, f) ==
  IF Warm(history, "byte")
  THEN Graded(Beyond(history, f, "byte", KMad) \/ (f.bytes >= 50000 /\ f.size >= 300),
              Beyond(history, f, "byte", KMad + 2) \/ f.bytes >= 150000)
  ELSE CurrentStrength(f).Exfiltration

TimingStrength(history, f) ==
  IF Warm(history, "timing")
  THEN Graded(Beyond(history, f, "timing", KMad) \/ CurrentStrength(f).InitialAccess # "NONE",
              Beyond(history, f, "timing", KMad + 2))
  ELSE CurrentStrength(f).InitialAccess

MultiSignalStrength(history, f) ==
  [Reconnaissance |-> PortStrength(history, f), DenialOfService |-> FlowStrength(history, f),
   Exfiltration |-> ByteStrength(history, f), InitialAccess |-> TimingStrength(history, f)]

-----------------------------------------------------------------------------
(* The forecast: as in SecurityAnalysis, but an exploration that stands    *)
(* out is what may be forecast to fall, however many ports it has.         *)

SignaturesGiven(strength, forecast) ==
  LET falls == strength.Reconnaissance # "NONE" /\ \E h \in DOMAIN forecast : forecast[h].ports <= -5
      rising(t) == {ForecastStrength(forecast[h])[t] : h \in DOMAIN forecast} \ {"NONE"}
  IN [t \in SignatureType |->
        [shape |-> ShapeFrom(strength[t] # "NONE", rising(t) # {}, t = "Reconnaissance" /\ falls),
         strong |-> "HIGH" \in {strength[t]} \union rising(t)]]
=============================================================================
