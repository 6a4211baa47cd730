------------------------------ MODULE Forecasting ------------------------------
(***************************************************************************)
(* What is made of the samples of TrainingData: eval/dataset.py's arrays,  *)
(* the baseline models of eval/models.py, and, from eval/rollout.py, the   *)
(* bootstrap of a forecast, the three futures shown of it, its prediction  *)
(* intervals and the trust it is given.  All of it is stateless.           *)
(*                                                                         *)
(* A delta is an integer.  A residual is drawn from a pool; the draws are  *)
(* a parameter.                                                            *)
(***************************************************************************)
EXTENDS TrainingData

-----------------------------------------------------------------------------
(* samples_to_arrays: a row is the deltas, oldest first, feature by feature *)

Flattened(deltas, names) ==
  IF deltas = <<>> THEN [j \in DOMAIN names |-> 0]
  ELSE FlattenSeq([k \in DOMAIN deltas |-> [j \in DOMAIN names |-> deltas[k][names[j]]]])

\* X_deltas[:, -p * n_features :] and, of those, lag_indices: k * n_features + j.
FeatureLags(row, p, n, j) ==
  LET latest == SubSeq(row, Len(row) - p * n + 1, Len(row))
  IN [k \in 1..p |-> latest[(k - 1) * n + j]]

\* p is bounded by the history: 1 when no candidate is.
ValidOrders(candidates, row, n) ==
  LET valid == SelectSeq(candidates, LAMBDA p : 1 <= p /\ p <= Len(row) \div n)
  IN IF valid = <<>> THEN <<1>> ELSE valid

-----------------------------------------------------------------------------
(* The baselines B1 to B4, of one feature's deltas                         *)

ZeroChange(deltas) == 0

Persistence(deltas) == IF deltas = <<>> THEN 0 ELSE Last(deltas)

\* The weight alpha * (1 - alpha)^k of the k-th newest of n lags, alpha in
\* tenths, up to a factor all lags share.
EwmaWeight(alpha, k, n) == alpha * (10 - alpha)^k * 10^(n - 1 - k)

\* The sum of the weighted deltas and the sum of the weights it is divided by.
EWMA(deltas, alpha) ==
  LET n == Len(deltas)
      add(acc, i) == LET w == EwmaWeight(alpha, n - i, n)
                     IN [sum |-> acc.sum + w * deltas[i], weights |-> acc.weights + w]
  IN IF n = 0 THEN [sum |-> 0, weights |-> 1]
     ELSE FoldLeft(add, [sum |-> 0, weights |-> 0], [i \in 1..n |-> i])

\* fit: the first candidate of least error on the validation split.
Selected(candidates, error) ==
  LET least == Min({error[i] : i \in DOMAIN candidates})
  IN candidates[Min({i \in DOMAIN candidates : error[i] = least})]

\* ARStyleBaseline.fit: error[p] is what order p, as far as the history allows
\* it, misses the validation split by.
FittedOrder(candidates, row, n, error) ==
  LET valid == ValidOrders(candidates, row, n)
  IN Selected(valid, [i \in DOMAIN valid |-> error[valid[i]]])

-----------------------------------------------------------------------------
(* ResidualBootstrapEngine                                                 *)

\* generate_bootstrap_rollouts: one path, a residual on every step, fed back.
BootstrapPath(history, draws) ==
  FoldLeft(LAMBDA acc, h : LET step == Predict(acc.buffer) + draws[h] IN
             [buffer |-> Append(Tail(acc.buffer), step), path |-> Append(acc.path, step)],
           [buffer |-> LastLags(history), path |-> <<>>],
           [h \in 1..MaxHorizon |-> h]).path

\* np.percentile, in two hundredths of a delta; halves: a percentage, doubled.
Percentile(values, halves) ==
  LET sorted == SortSeq(values, <)
      at == halves * (Len(values) - 1)
      i == at \div 200 + 1
      rest == at % 200
  IN IF rest = 0 THEN 200 * sorted[i] ELSE (200 - rest) * sorted[i] + rest * sorted[i + 1]

\* RidgeLearnedModel.predict_with_interval: the prediction, moved by the
\* residuals' fifth and ninety-fifth percentile.
ResidualInterval(prediction, residuals) ==
  [lower |-> 200 * prediction + Percentile(residuals, 10),
   upper |-> 200 * prediction + Percentile(residuals, 190)]

\* compute_prediction_intervals, of one horizon.
PredictionInterval(paths, level, h) ==
  LET values == [b \in DOMAIN paths |-> paths[b][h]]
  IN [lower |-> Percentile(values, 100 - level), upper |-> Percentile(values, 100 + level)]

-----------------------------------------------------------------------------
(* MultiFutureTrajectoryGenerator                                          *)

Total(seq) == FoldLeft(+, 0, seq)

\* The mean over the horizons, which are as many for every path.
Deviation(path, deterministic) == Total(path) - Total(deterministic)

\* np.argsort of the deviations, at int(round(share * (n_bootstrap - 1))).
PathAt(paths, deterministic, share) ==
  LET dev(b) == Deviation(paths[b], deterministic)
      order == SetToSortSeq(DOMAIN paths,
                 LAMBDA a, b : dev(a) < dev(b) \/ (dev(a) = dev(b) /\ a < b))
  IN order[Rounded(Len(paths) - 1, share) + 1]

\* The predicted states, each from the one before.
Rolled(source, path) == [h \in DOMAIN path |-> source + Total(SubSeq(path, 1, h))]

\* construct_k3_trajectories: the forecast and two paths that were simulated,
\* each whole, with their display weights in hundredths.
CandidateFutures(source, deterministic, paths) ==
  LET upper == paths[PathAt(paths, deterministic, 75)]
      lower == paths[PathAt(paths, deterministic, 25)]
  IN <<[deltas |-> deterministic, states |-> Rolled(source, deterministic), weight |-> 50],
       [deltas |-> upper, states |-> Rolled(source, upper), weight |-> 25],
       [deltas |-> lower, states |-> Rolled(source, lower), weight |-> 25]>>

-----------------------------------------------------------------------------
(* TrustScoringEngine                                                      *)

Capped(x, cap) == Max({0, Min({x, cap})})

\* In hundredths; the width of the interval and the error are whole numbers.
HorizonTrust(h, width, error, quality) ==
  Max({5, Min({95, (90 * quality) \div 100 - 12 * (h - 1)
                   - Capped(10 * (width - 1), 40) - Capped(5 * (error - 1), 30)})})

TrustBand(trust) ==
  CASE trust >= 70 -> "HIGH" [] trust \in 45..69 -> "MEDIUM"
    [] trust \in 20..44 -> "LOW" [] OTHER -> "INSUFFICIENT"

-----------------------------------------------------------------------------
(* What they should be.                                                    *)

(* A model of order p reads, of each feature, its latest p deltas, oldest    *)
(* first: the rows are laid out as the models take them apart.               *)
LagsAreTheLatest(deltas, names, p) ==
  LET n == Len(names) row == Flattened(deltas, names) IN
  p \in ToSet(ValidOrders(<<p>>, row, n)) =>
    \A j \in DOMAIN names :
      FeatureLags(row, p, n, j) =
        IF deltas = <<>> THEN <<0>>
        ELSE [k \in 1..p |-> deltas[Len(deltas) - p + k][names[j]]]

(* An order is fitted that the history allows, and one not worse than any    *)
(* other it allows.                                                          *)
OrderIsPossible(row, n, error) ==
  LET p == FittedOrder(<<1, 2, 3>>, row, n, error) IN
  /\ p * n <= Len(row)
  /\ \A q \in 1..3 : q * n <= Len(row) => error[p] <= error[q]

(* A moving average lies between the deltas it averages, and a larger alpha  *)
(* is nearer to the latest one: towards it, from the side the others are on. *)
AverageIsBetween(deltas, alpha, larger) ==
  LET a == EWMA(deltas, alpha) b == EWMA(deltas, larger) latest == Persistence(deltas) IN
  /\ Min(ToSet(deltas)) * a.weights <= a.sum /\ a.sum <= Max(ToSet(deltas)) * a.weights
  /\ alpha <= larger /\ (\A i \in DOMAIN deltas : deltas[i] <= latest) /\ Len(deltas) = 2 =>
       a.sum * b.weights <= b.sum * a.weights

(* "Actual Empirical ... path": the futures beside the forecast are paths    *)
(* that were simulated, whole and in order of deviation; without residuals   *)
(* all three are the forecast.                                              *)
FuturesWereSimulated(sample, draws) ==
  LET paths == [b \in DOMAIN draws |-> BootstrapPath(sample.history, draws[b])]
      forecast == OpenLoop(sample)
      futures == CandidateFutures(0, forecast, paths)
  IN /\ {futures[2].deltas, futures[3].deltas} \subseteq ToSet(paths)
     /\ Deviation(futures[3].deltas, forecast) <= Deviation(futures[2].deltas, forecast)
     /\ futures[1].weight + futures[2].weight + futures[3].weight = 100
     /\ \A i \in 1..3 : Last(futures[i].states) = Total(futures[i].deltas)
     /\ (\A b \in DOMAIN draws : \A h \in 1..MaxHorizon : draws[b][h] = 0) =>
          \A i \in 1..3 : futures[i].deltas = forecast

(* A wider interval contains a narrower one.                                 *)
IntervalsNest(sample, draws) ==
  LET paths == [b \in DOMAIN draws |-> BootstrapPath(sample.history, draws[b])] IN
  \A h \in 1..MaxHorizon :
    LET at(level) == PredictionInterval(paths, level, h) IN
    /\ at(95).lower <= at(90).lower /\ at(90).lower <= at(80).lower
    /\ at(80).lower <= at(80).upper
    /\ at(80).upper <= at(90).upper /\ at(90).upper <= at(95).upper
    /\ ResidualInterval(0, [b \in DOMAIN draws |-> draws[b][h]]).lower
         <= ResidualInterval(0, [b \in DOMAIN draws |-> draws[b][h]]).upper

(* "Trust decays with horizon step and widening uncertainty intervals": and  *)
(* no later horizon is given a better band than an earlier one.              *)
TrustDecays(width, error, quality) ==
  \A h \in 1..2 :
    /\ HorizonTrust(h + 1, width, error, quality) <= HorizonTrust(h, width, error, quality)
    /\ HorizonTrust(h, width + 1, error, quality) <= HorizonTrust(h, width, error, quality)
    /\ TrustBand(HorizonTrust(h, width, error, quality)) = "HIGH" =>
         quality >= 78 /\ 10 * (width - 1) + 12 * (h - 1) <= 20
================================================================================
