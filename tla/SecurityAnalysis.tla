-------------------------- MODULE SecurityAnalysis --------------------------
(***************************************************************************)
(* security/bridge.py and security/risk_engine.py: from the features of    *)
(* one telemetry window and the forecast of the next three to behavioural  *)
(* signatures, the stage they point at, and the risk of now and of each    *)
(* horizon.  All of it is stateless; Assessment runs it on windows, and    *)
(* InterventionSelection on hypothetical forecasts.                        *)
(*                                                                         *)
(* Ratios, trust and confidence are integers in hundredths, times in       *)
(* milliseconds; a risk is an integer in units of 1/RiskOne, in which the  *)
(* scores of every horizon are exact.                                      *)
(***************************************************************************)
EXTENDS AuthorityPolicy

\* What a signature type shows: only the current window, a rising forecast too,
\* a falling one, one that rises and then falls, or a forecast alone.
Shape == {"absent", "current", "rising", "falling", "turning", "forecast"}
Stage == {"Reconnaissance", "DenialOfService", "Exfiltration", "InitialAccess", "Unknown"}
SignatureType == Stage \ {"Unknown"}

\* strong: some entry of the signature has HIGH strength.
Signatures == [SignatureType -> [shape : Shape, strong : BOOLEAN]]

\* The features of a window the bridge reads.
Features == [ports : Nat, flows : Nat, syn : 0..100, rst : 0..100, bytes : Nat,
             size : Nat, iatMean : Nat, iatStd : Nat]

\* The change a forecast predicts for one horizon.
Deltas == [ports : Int, flows : Int, bytes : Int]
Horizons == 1..3

-----------------------------------------------------------------------------
(* extract_signatures                                                      *)

Graded(shows, high) == IF ~shows THEN "NONE" ELSE IF high THEN "HIGH" ELSE "MEDIUM"

CurrentStrength(f) ==
  [Reconnaissance |-> Graded(f.ports >= 15 \/ (f.ports >= 8 /\ f.flows >= 30),
                             f.ports >= 25 \/ f.syn >= 30),
   DenialOfService |-> Graded(\/ f.flows >= 80 /\ f.rst >= 15
                              \/ f.flows >= 120 /\ f.syn >= 40
                              \/ f.flows >= 200, f.rst >= 30 \/ f.flows >= 200),
   Exfiltration |-> Graded(f.bytes >= 50000 /\ f.size >= 300, f.bytes >= 150000),
   InitialAccess |-> Graded(f.flows >= 40 /\ f.iatStd <= 100 /\ f.iatMean <= 1000, FALSE)]

ForecastStrength(d) ==
  [Reconnaissance |-> Graded(d.ports >= 3, d.ports >= 8),
   DenialOfService |-> Graded(d.flows >= 50, d.flows >= 100),
   Exfiltration |-> Graded(d.bytes >= 30000, d.bytes >= 80000),
   InitialAccess |-> "NONE"]

\* Only a port exploration that shows now is forecast to fall.
ForecastFalls(f, d) == d.ports <= -5 /\ f.ports >= 15

Rises(d) == \E t \in SignatureType : ForecastStrength(d)[t] # "NONE"

ShapeFrom(now, up, down) ==
  CASE now /\ up /\ down -> "turning" [] now /\ up /\ ~down -> "rising"
    [] now /\ ~up /\ down -> "falling" [] now /\ ~up /\ ~down -> "current"
    [] ~now /\ up -> "forecast" [] OTHER -> "absent"

\* forecast: the deltas of some horizons, none when no forecast is given.
ShapeOf(f, forecast, t) ==
  ShapeFrom(CurrentStrength(f)[t] # "NONE",
            \E h \in DOMAIN forecast : ForecastStrength(forecast[h])[t] # "NONE",
            t = "Reconnaissance" /\ \E h \in DOMAIN forecast : ForecastFalls(f, forecast[h]))

SignatureOf(f, forecast, t) ==
  [shape |-> ShapeOf(f, forecast, t),
   strong |-> \/ CurrentStrength(f)[t] = "HIGH"
              \/ \E h \in DOMAIN forecast : ForecastStrength(forecast[h])[t] = "HIGH"]

SignaturesOf(f, forecast) ==
  [Reconnaissance |-> SignatureOf(f, forecast, "Reconnaissance"),
   DenialOfService |-> SignatureOf(f, forecast, "DenialOfService"),
   Exfiltration |-> SignatureOf(f, forecast, "Exfiltration"),
   InitialAccess |-> SignatureOf(f, forecast, "InitialAccess")]

-----------------------------------------------------------------------------
(* infer_stage_hypotheses                                                  *)

Shown(sigs) == {t \in SignatureType : sigs[t].shape # "absent"}

StageOrder == [t \in Stage |->
  CASE t = "Reconnaissance" -> 1 [] t = "DenialOfService" -> 2 [] t = "Exfiltration" -> 3
    [] t = "InitialAccess" -> 4 [] t = "Unknown" -> 5]

\* Confidence of a stage whose evidence rises, of one with a strong signature
\* and of one without.
Rising == [Reconnaissance |-> 85, DenialOfService |-> 85, Exfiltration |-> 80]
Strong == [Reconnaissance |-> 75, DenialOfService |-> 70, Exfiltration |-> 65]
Weak == [Reconnaissance |-> 55, DenialOfService |-> 50, Exfiltration |-> 45]

Confidence(stage, sig) ==
  CASE stage = "InitialAccess" -> 40
    [] stage # "InitialAccess" /\ sig.shape \in {"rising", "turning"} -> Rising[stage]
    [] stage # "InitialAccess" /\ sig.shape = "falling" -> 40
    [] OTHER -> IF sig.strong THEN Strong[stage] ELSE Weak[stage]

\* The most confident stage, the first listed among equals; Unknown when no
\* signature shows.
PrimaryHypothesis(sigs) ==
  IF Shown(sigs) = {} THEN [stage |-> "Unknown", confidence |-> 85]
  ELSE LET conf(t) == Confidence(t, sigs[t])
           first == CHOOSE t \in Shown(sigs) : \A u \in Shown(sigs) :
                      \/ conf(u) < conf(t)
                      \/ conf(u) = conf(t) /\ StageOrder[t] <= StageOrder[u]
       IN [stage |-> first, confidence |-> conf(first)]

-----------------------------------------------------------------------------
(* SecurityRiskEngine                                                      *)

TrustLevelOf(trust) ==
  CASE trust >= 70 -> "HIGH" [] trust \in 45..69 -> "MEDIUM"
    [] trust \in 20..44 -> "LOW" [] OTHER -> "INSUFFICIENT"

Distrusted(level) == level \in {"LOW", "INSUFFICIENT"}

\* STAGE_SEVERITY_WEIGHTS, in twentieths.
Severity == [DenialOfService |-> 17, Exfiltration |-> 16, InitialAccess |-> 12,
             Reconnaissance |-> 8, Unknown |-> 3]

\* (1 - uncertainty) * 1.5 of a horizon, in fortieths: 0.10, 0.20, 0.35 and 0.50
\* are the uncertainties.
Retained(h) == CASE h = 0 -> 54 [] h = 1 -> 48 [] h = 2 -> 39 [] h = 3 -> 30

Clipped(trust) == IF trust < 5 THEN 5 ELSE IF trust > 95 THEN 95 ELSE trust

HorizonTrust(trust, h) == IF h = 0 THEN Clipped(trust) ELSE Clipped(trust - 10 * (h - 1))

\* severity * confidence * trust * (1 - uncertainty) * 1.5, dampened to 13/20 for
\* low trust, capped at 0.18 for an Unknown stage.  halves: the confidence in
\* two hundredths.
ComputeRisk(stage, halves, trust, level, h) ==
  LET twentieths == IF Distrusted(level) \/ HorizonTrust(trust, h) < 40 THEN 13 ELSE 20
      score == Severity[stage] * halves * HorizonTrust(trust, h) * Retained(h) * twentieths
      cap == IF stage = "Unknown" THEN RiskHundredths(18) ELSE RiskOne
  IN IF score > cap THEN cap ELSE score

\* A horizon at which evidence falls and none rises is half believed, and with
\* low trust.
HorizonRisk(primary, f, forecast, trust, level, h) ==
  IF ForecastFalls(f, forecast[h]) /\ ~Rises(forecast[h])
  THEN ComputeRisk(primary.stage, IF primary.confidence < 60 THEN 60 ELSE primary.confidence,
                   trust, "LOW", h)
  ELSE ComputeRisk(primary.stage, 2 * primary.confidence, trust, level, h)

\* compute_risk_trajectory: the risk of now and of each horizon.
RiskTrajectory(f, forecast, trust, level) ==
  LET primary == PrimaryHypothesis(SignaturesOf(f, forecast))
  IN [h \in {0} \union Horizons |->
        IF h = 0 THEN ComputeRisk(primary.stage, 2 * primary.confidence, trust, level, 0)
        ELSE HorizonRisk(primary, f, forecast, trust, level, h)]
=============================================================================
