---------------------------- MODULE MCTrainingData ----------------------------
(* Instances of TrainingData for TLC: windows of two ticks, a long gap of    *)
(* two windows, rows with every column and rows without a packet count.      *)
EXTENDS TrainingData, Forecasting

FewTimes == {0, 3, 4, 6, 8, 11}
EveryColumn == UNION {Columns[f] : f \in DOMAIN Columns}
WithOrWithoutPackets == {EveryColumn, EveryColumn \ Columns["packet_rate"]}
OneTag == {"a"}
Intrusion == [start |-> 6, end |-> 9, family |-> "Infiltration", recon |-> 1]
TwoLags == <<1, 1>>

\* Histories of three deltas, and what a bootstrap of three paths may draw.
FewDeltas == {-2, 0, 3}
Histories == UNION {[1..n -> FewDeltas] : n \in 1..3}
FewSamples == {[target |-> 0, history |-> h, future |-> <<>>] : h \in {<<0, 1>>, <<3, -2>>}}
Draws == [1..3 -> [1..MaxHorizon -> FewDeltas]]

ASSUME ModelsReadTheirLags ==
  \A rows \in UNION {[1..n -> [{"flows", "ports"} -> {0, 1, 5}]] : n \in 0..3}, p \in 1..3 :
    LagsAreTheLatest(rows, <<"flows", "ports">>, p)

ASSUME OrdersArePossible ==
  \A length \in 2..6, error \in [1..3 -> 0..2] :
    OrderIsPossible([i \in 1..length |-> 0], 2, error)

ASSUME AveragesAverage ==
  \A deltas \in Histories, alpha, larger \in {1, 3, 5} : AverageIsBetween(deltas, alpha, larger)

ASSUME FirstOfTheBest ==
  \A error \in [1..3 -> 0..2] : LET best == Selected(<<1, 2, 3>>, error) IN
    \A i \in 1..3 : error[best] <= error[i] /\ (i < best => error[best] < error[i])

ASSUME FuturesAreDrawn ==
  \A sample \in FewSamples, draws \in Draws :
    FuturesWereSimulated(sample, draws) /\ IntervalsNest(sample, draws)

ASSUME TrustIsEarned ==
  \A width, error \in 0..8, quality \in {0, 50, 80, 100} : TrustDecays(width, error, quality)
=============================================================================
