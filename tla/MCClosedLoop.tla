----------------------------- MODULE MCClosedLoop -----------------------------
(* Instances of ClosedLoop for TLC.  Windows transfer data that a rate limit   *)
(* or only a block would contain, drift just over the tolerance of the first   *)
(* horizon, flood over the ceiling, measure no bytes, or measure nothing.      *)
EXTENDS ClosedLoop

Feature(ports, flows, syn, rst, bytes) ==
  [ports |-> ports, flows |-> flows, syn |-> syn, rst |-> rst, bytes |-> bytes,
   size |-> 320, iatMean |-> 900, iatStd |-> 400]
Growth(ports, flows, bytes) == [h \in Horizons |-> [ports |-> ports, flows |-> flows, bytes |-> bytes]]

Kind(f, forecast) ==
  [features |-> f, forecast |-> forecast, measured |-> FeatureName, empty |-> FALSE]

Transfer == Kind(Feature(4, 30, 5, 1, 60000), Growth(0, 0, 40000))
Drift == Kind(Feature(4, 30, 5, 1, 67000), Growth(0, 0, 0))
Surge == Kind(Feature(4, 30, 5, 1, 75000), Growth(0, 10, 80000))
Flood == Kind(Feature(4, 240, 10, 30, 240000), Growth(0, 60, 20000))
Partial == [Kind(Feature(30, 25, 5, 1, 0), Growth(-6, 0, 0)) EXCEPT !.measured = FeatureName \ {"bytes"}]
Dark == [Kind(Feature(0, 0, 0, 0, 0), Growth(0, 0, 0)) EXCEPT !.measured = {}, !.empty = TRUE]

LoopKinds == {Transfer, Drift, Surge, Flood, Partial, Dark}
BlackoutKinds == {Transfer, Surge, Dark}

Informed == [params |-> [attributed |-> TRUE, port |-> TRUE],
             topology |-> [availability |-> "KNOWN", mapped |-> TRUE, criticality |-> 60, impact |-> 50],
             trust |-> 85, ttl |-> 30]
Doubtful == [Informed EXCEPT !.trust = 75, !.topology.availability = "UNAVAILABLE", !.ttl = 20]
LoopContexts == {Informed, Doubtful}
OneContext == {Informed}

VolumeFeatures == <<"bytes", "flows">>

\* Declines, and growth that damping may bring under a threshold of the bridge.
Forecasts == {k.forecast : k \in LoopKinds} \union
  {Growth(p, fl, b) : p \in {-6, 0, 12}, fl \in {-20, 0, 60}, b \in {-30000, 0, 90000}}

ASSUME SimulationsCompareFairly ==
  \A action \in InterventionType, k \in LoopKinds, forecast \in Forecasts,
     attributed, port \in BOOLEAN, trust \in {15, 40, 75, 85} :
    ComparesFairly(action, k.features, forecast, [attributed |-> attributed, port |-> port],
                   trust, TrustLevelOf(trust))

\* Windows of equal numbers keep their order: what SortSeq makes of (n, at).
ASSUME EarliestIsStable ==
  \A s \in BoundedSeq([n : 0..2, at : {0}], 4) :
    LET stamped == [i \in DOMAIN s |-> [s[i] EXCEPT !.at = i]] IN
    \A positions \in SUBSET DOMAIN s :
      EarliestFirst(stamped, positions) =
        SortSeq(SetToSortSeq({stamped[i] : i \in positions}, LAMBDA v, w : v.at < w.at),
                LAMBDA v, w : v.n < w.n \/ (v.n = w.n /\ v.at < w.at))
=============================================================================
