------------------------------ MODULE Assessment ------------------------------
(***************************************************************************)
(* scenarios/demo/engine.py: LiveDemoEngine.stream_scenario, one playback  *)
(* of telemetry windows through the analysis, and what it calls: the       *)
(* security bridge, priority, role routing, recommendation, notification,  *)
(* risk, reconsideration and explainability engines, the blast radius of   *)
(* BlastRadius and the policy of AuthorityPolicy.  What the selector of    *)
(* InterventionSelection decides on the window is left open.               *)
(*                                                                         *)
(* A window's features are abstracted to the thresholds they cross.  Trust *)
(* and confidence are integers in hundredths; priorities and risks are     *)
(* integers in which the code's formulas are exact.                        *)
(***************************************************************************)
EXTENDS BlastRadius, InterventionSelection

CONSTANTS
  Evidence,      \* what the signatures of a window can be
  Penalties,     \* forecast_error_penalty of a reconsideration, in hundredths
  ReversalIndex, \* first window in which a sharp port change means a reversal (8)
  Foci,          \* what focus_node_id may be: a service, or None
  Database,      \* the service "svc-db", the default focus
  Decided,       \* bound: the decisions of the selector that are told apart
  Horizon(_, _), \* bound: the number of windows of the n-th playback over a graph
  MaxPlaybacks   \* bound: the number of playbacks of one engine

\* Only a port exploration is forecast to fall; a timing anomaly is of the current
\* window and of MEDIUM strength.
ASSUME AssessmentAssumption ==
  /\ Evidence \subseteq Signatures
  /\ \A sigs \in Evidence :
       /\ \A t \in SignatureType \ {"Reconnaissance"} : sigs[t].shape \notin {"falling", "turning"}
       /\ sigs["InitialAccess"].shape \in {"absent", "current"} /\ ~sigs["InitialAccess"].strong
  /\ Penalties \subseteq 15..30     \* every conflicting feature deviates by 1.5 or more
  /\ Foci \subseteq Services \union {None} /\ Database \in Services
  /\ ReversalIndex \in Nat /\ MaxPlaybacks \in Nat
  /\ "UNRESOLVED" \in Decided
  /\ Decided \subseteq InterventionType \union {"NO_SUFFICIENT_ACTION", "UNRESOLVED"}

Roles == {"SOC_ANALYST", "NETWORK_DEFENDER", "INCIDENT_COMMANDER", "DATA_PROTECTION",
          "ENDPOINT_ANALYST"}
PriorityLevel == {"INFO", "LOW", "MEDIUM", "HIGH", "CRITICAL"}
Strategy == {"MONITOR", "PREPARE", "ACT", "ESCALATE"}

VARIABLES
  attached,   \* the engine was given the graph
  focus,      \* focus_node_id
  playback,   \* stream_scenario calls so far
  index,      \* windows begun in this playback
  phase,      \* how far the current window is
  outputs,    \* what the event will say, None before the first window
  unrevised,  \* those outputs before any reconsideration
  explained,  \* forecast_feature_contributions, security_explanation and
              \* candidate_attack_techniques, None before the first window
  actions,    \* the recommended_actions of the event just published, None before
  sent,       \* roles in the current notification list
  sentCache,  \* _sent_cache: role -> the fingerprint last composed for it, or None
  authority,  \* the AuthorityDecision of the event just published, None before
  told,       \* role -> the fingerprint last published to it, or None
  overtaken   \* roles for which a notification was composed and thrown away since

engineVars == <<attached, focus, playback, index, phase, outputs, unrevised, sent,
                sentCache, authority, told, overtaken, explained, actions>>
vars == <<blastVars, engineVars>>

Phase == {"ready", "observed", "settled", "assessing", "published"}

-----------------------------------------------------------------------------
(* The analysis of one window.                                             *)

\* change: the port diversity moved by less than 10, by 10 to 15, or by more.
PortChange == {"none", "sharp", "spike"}

\* The trust of the i-th window's forecast; no window precedes window 0.
ForecastTrust(change, i) ==
  CASE change # "none" /\ i >= ReversalIndex -> [trust |-> 35, level |-> "LOW"]
    [] change = "spike" /\ i < ReversalIndex -> [trust |-> 65, level |-> "MEDIUM"]
    [] OTHER -> [trust |-> 85, level |-> "HIGH"]

\* Signature types whose last entry is at least MEDIUM: a forecast that ends in
\* a fall overwrites the current window's entry with a LOW one.
ActiveSignatures(sigs) == {t \in Shown(sigs) : sigs[t].shape \notin {"falling", "turning"}}

ImmediateEvidence(sigs) == \E t \in Shown(sigs) : sigs[t].strong

Late == {"DenialOfService", "Exfiltration"}

\* 0.35 consequence * 0.5 + 0.30 likelihood + 0.20 proximity + 0.15 leverage *
\* actionability, in millionths.
RawPriority(stage, confidence, trust, immediate) ==
  LET proximity == IF ~immediate THEN 700 * trust
                   ELSE IF stage \in Late THEN 160000 ELSE 120000
      leverage == CASE stage \in Late -> 48000 [] stage = "Unknown" -> 3000
                    [] OTHER -> 84000
  IN 8750 * Severity[stage] + 15 * confidence * (100 + trust) + proximity + leverage

\* A distrusted forecast keeps 13/20 of its priority and cannot be CRITICAL; an
\* Unknown stage stays at LOW or INFO.
AssessPriority(stage, confidence, trust, level, immediate) ==
  LET twentieths == IF Distrusted(level) THEN 13 ELSE 20
      score == twentieths * RawPriority(stage, confidence, trust, immediate)
      atLeast(hundredths) == score >= hundredths * 200000
      assigned == CASE atLeast(75) /\ ~Distrusted(level) -> "CRITICAL"
                    [] atLeast(55) /\ (Distrusted(level) \/ ~atLeast(75)) -> "HIGH"
                    [] atLeast(35) /\ ~atLeast(55) -> "MEDIUM"
                    [] atLeast(20) /\ ~atLeast(35) -> "LOW"
                    [] OTHER -> "INFO"
  IN IF stage = "Unknown" /\ assigned # "LOW" THEN "INFO" ELSE assigned

Recommend(stage, priority, level) ==
  CASE stage = "Unknown" \/ priority \in {"INFO", "LOW"} \/ Distrusted(level) -> "MONITOR"
    [] stage # "Unknown" /\ priority \in {"CRITICAL", "HIGH"} /\ ~Distrusted(level) -> "ACT"
    [] OTHER -> "PREPARE"

\* Everything the event says of a window, from its signatures and the trust in
\* its forecast.
Pipeline(sigs, trust, level) ==
  LET primary == PrimaryHypothesis(sigs)
      priority == AssessPriority(primary.stage, primary.confidence, trust, level,
                                 ImmediateEvidence(sigs))
  IN [sigs |-> sigs, trust |-> trust, level |-> level,
      stage |-> primary.stage, confidence |-> primary.confidence, priority |-> priority,
      strategy |-> Recommend(primary.stage, priority, level),
      risk |-> ComputeRisk(primary.stage, 2 * primary.confidence, trust, level, 0)]

\* The explanations of a pass, each signature type standing for its technique.
Explained(out) ==
  [stage |-> out.stage, confidence |-> out.confidence, level |-> out.level,
   techniques |-> Shown(out.sigs)]

\* What the selector may decide on.  It is given the window, its forecast and the
\* graph, never the trust; without a graph an isolation has no known cost, and that
\* nothing else suffices is UNRESOLVED, which also stands for a selector that raised.
Decisions ==
  IF attached /\ graph.availability # "UNAVAILABLE" THEN Decided
  ELSE Decided \ {"ISOLATE_SERVICE_ENDPOINT", "NO_SUFFICIENT_ACTION"}

Urgency(risk) ==
  CASE risk >= RiskHundredths(40) -> "IMMEDIATE"
    [] risk >= RiskHundredths(20) /\ risk < RiskHundredths(40) -> "PROMPT"
    [] OTHER -> "WHEN_CONVENIENT"

\* The one action record that replaces those of the recommendation engine.
ActionRecord(decision, risk) ==
  CASE decision \in InterventionType -> [type |-> decision, urgency |-> Urgency(risk)]
    [] decision = "NO_SUFFICIENT_ACTION" -> [type |-> decision, urgency |-> "IMMEDIATE"]
    [] decision = "UNRESOLVED" -> [type |-> "DO_NOTHING", urgency |-> "WHEN_CONVENIENT"]

-----------------------------------------------------------------------------
(* Who is told.                                                            *)

RelevantStages == [r \in Roles |->
  CASE r = "SOC_ANALYST" -> SignatureType
    [] r \in {"NETWORK_DEFENDER", "INCIDENT_COMMANDER"} -> SignatureType \ {"InitialAccess"}
    [] r = "DATA_PROTECTION" -> {"Exfiltration"}
    [] r = "ENDPOINT_ANALYST" -> {}]

Grave(priority) == priority \in {"HIGH", "CRITICAL"}

\* RELEVANT or CONDITIONAL for role r; the signatures of a profile are those of
\* its stages.
RelevantFor(r, out) ==
  /\ out.stage # "Unknown"
  /\ CASE r = "ENDPOINT_ANALYST" -> FALSE
       [] r = "INCIDENT_COMMANDER" -> Grave(out.priority)
       [] r = "DATA_PROTECTION" ->
            out.stage = "Exfiltration" \/ "Exfiltration" \in ActiveSignatures(out.sigs)
       [] OTHER -> \/ out.stage \in RelevantStages[r]
                   \/ ActiveSignatures(out.sigs) \intersect RelevantStages[r] # {}

Fingerprint(out) == [stage |-> out.stage, priority |-> out.priority,
                     confidence |-> out.confidence, level |-> out.level]

\* The only confidences of one stage that are 0.10 apart are 0.85 and 0.75, and
\* as floats they differ by less than 0.10.
MateriallyUnchanged(old, new) ==
  /\ old.stage = new.stage /\ old.priority = new.priority /\ old.level = new.level
  /\ old.confidence - new.confidence \in -10..10

\* Mutant: only a change of stage counts as news.
NotifiedByStage(out, cache) ==
  {r \in Roles : RelevantFor(r, out) /\ (cache[r] = None \/ cache[r].stage # out.stage)}

\* Roles generate_notifications composes a notification for: relevant ones
\* whose last one, if any, said something else.
Notified(out, cache) ==
  {r \in Roles : RelevantFor(r, out)
                 /\ (cache[r] = None \/ ~MateriallyUnchanged(cache[r], Fingerprint(out)))}

Cached(out, cache) ==
  [r \in Roles |-> IF r \in Notified(out, cache) THEN Fingerprint(out) ELSE cache[r]]

-----------------------------------------------------------------------------
(* The loop of stream_scenario.                                            *)

NoFingerprints == [r \in Roles |-> None]

EngineInit ==
  /\ attached \in BOOLEAN /\ focus \in Foci
  /\ playback = 0 /\ index = 0 /\ phase = "ready"
  /\ outputs = None /\ unrevised = None /\ authority = None
  /\ explained = None /\ actions = None
  /\ sent = {} /\ sentCache = NoFingerprints
  /\ told = NoFingerprints /\ overtaken = {}

Init == BlastInit /\ EngineInit

BuildGraph == attached /\ playback = 0 /\ Build /\ UNCHANGED engineVars

\* A new generator over the same engine: the history and the prior event start
\* anew, the notification engine keeps its cache.
StreamScenario ==
  /\ phase \in {"ready", "published"} /\ playback < MaxPlaybacks
  /\ playback' = playback + 1 /\ index' = 0 /\ phase' = "ready"
  /\ outputs' = None /\ unrevised' = None /\ authority' = None /\ sent' = {}
  /\ explained' = None /\ actions' = None
  /\ UNCHANGED <<blastVars, attached, focus, sentCache, told, overtaken>>

\* From the window's features to its notifications.
Observe(sigs, change) ==
  /\ phase \in {"ready", "published"} /\ playback > 0 /\ index < Horizon(graph, playback)
  /\ index = 0 => change = "none"
  /\ LET forecast == ForecastTrust(change, index)
         out == Pipeline(sigs, forecast.trust, forecast.level)
     IN /\ outputs' = out /\ unrevised' = out /\ explained' = Explained(out)
        /\ sent' = Notified(out, sentCache) /\ sentCache' = Cached(out, sentCache)
  /\ index' = index + 1 /\ phase' = "observed" /\ actions' = None
  /\ UNCHANGED <<blastVars, attached, focus, playback, authority, told, overtaken>>

\* The first window has no prior forecast; a forecast all features confirm, or
\* that shares none with the window, revises nothing.
Confirm ==
  /\ phase = "observed" /\ phase' = "settled"
  /\ UNCHANGED <<blastVars, attached, focus, playback, index, outputs, unrevised, sent,
                 sentCache, authority, told, overtaken, explained, actions>>

\* Mutant: the penalty is taken from full trust.
LoweredFromFull(trust, penalty) == 100 - penalty

Lowered(trust, penalty) == IF trust - penalty < 5 THEN 5 ELSE trust - penalty

\* Mutant: the second pass runs with the trust level of the first.
RevisedAtLevel(out, penalty) == Pipeline(out.sigs, Lowered(out.trust, penalty), out.level)

\* The analysis runs again with what is left of the trust.
Revised(out, penalty) ==
  LET trust == Lowered(out.trust, penalty) IN Pipeline(out.sigs, trust, TrustLevelOf(trust))

\* A contradicted forecast costs trust; the results of the second pass, the
\* notifications included, replace the first ones, but for the explanations.
Reconsider(penalty) ==
  /\ phase = "observed" /\ index > 1
  /\ LET out == Revised(outputs, penalty)
     IN /\ outputs' = out
        /\ sent' = Notified(out, sentCache) /\ sentCache' = Cached(out, sentCache)
  /\ overtaken' = overtaken \union sent
  /\ phase' = "settled"
  /\ UNCHANGED <<blastVars, attached, focus, playback, index, unrevised, authority, told,
                 explained, actions>>

\* No focus: the database, or else the first service; an empty graph has neither.
Root ==
  IF focus # None THEN focus
  ELSE IF Database \in graph.nodes \/ graph.nodes = {} THEN Database
  ELSE Sorted[graph.nodes][1]

AssessImpact ==
  /\ phase = "settled" /\ phase' = "assessing"
  /\ IF attached THEN Assess(Root) ELSE UNCHANGED blastVars
  /\ UNCHANGED <<attached, focus, playback, index, outputs, unrevised, sent, sentCache,
                 authority, told, overtaken, explained, actions>>

WalkGraph == phase = "assessing" /\ (Expand \/ Conclude) /\ UNCHANGED engineVars

\* What the policy is shown of the outputs and of the blast radius.
PolicyInput(out) ==
  [risk |-> out.risk, trust |-> out.trust, level |-> out.level, uncertainty |-> 10,
   confidence |-> out.confidence,
   topology |-> IF attached THEN graph.availability ELSE "UNAVAILABLE",
   affected |-> IF blast # None THEN Cardinality(blast.affected) ELSE 0,
   critical |-> IF blast # None THEN Cardinality(blast.critical) ELSE 0]

\* The policy's decision and the selector's are the last results; with them the
\* event is yielded.
Publish ==
  /\ phase = "assessing" /\ walk = None
  /\ authority' = Evaluate(PolicyInput(outputs), Missing)
  /\ \E decision \in Decisions : actions' = ActionRecord(decision, outputs.risk)
  /\ told' = [r \in Roles |-> IF r \in sent THEN Fingerprint(outputs) ELSE told[r]]
  /\ overtaken' = overtaken \ sent
  /\ phase' = "published"
  /\ UNCHANGED <<blastVars, attached, focus, playback, index, outputs, unrevised, sent,
                 sentCache, explained>>

Analyse ==
  \/ Confirm \/ (\E p \in Penalties : Reconsider(p))
  \/ AssessImpact \/ WalkGraph \/ Publish

Next ==
  \/ BuildGraph
  \/ StreamScenario
  \/ \E sigs \in Evidence, change \in PortChange : Observe(sigs, change)
  \/ Analyse

\* The loop's body is synchronous: once a window is taken it runs to the yield.
\* Nobody has to ask for another window or another playback.
Spec == Init /\ [][Next]_vars /\ WF_vars(Analyse)

-----------------------------------------------------------------------------
(* Properties.                                                             *)

Outputs ==
  [sigs : Signatures, trust : 0..100, level : TrustLevel, stage : Stage, confidence : 0..100,
   priority : PriorityLevel, strategy : Strategy, risk : 0..RiskOne]

(* Every part of the engine has a value of its kind.                        *)
TypeOK ==
  /\ BlastTypeOK
  /\ attached \in BOOLEAN /\ focus \in Foci
  /\ playback \in 0..MaxPlaybacks /\ index \in Nat /\ phase \in Phase
  /\ sent \subseteq Roles /\ overtaken \subseteq Roles
  /\ DOMAIN sentCache = Roles /\ DOMAIN told = Roles
  /\ outputs \in Outputs \union {None} /\ unrevised \in Outputs \union {None}
  /\ explained # None =>
       explained.level \in TrustLevel /\ explained.techniques \subseteq SignatureType
  /\ actions # None => actions.type \in InterventionType \union {"NO_SUFFICIENT_ACTION"}
  /\ authority # None => authority.permitted \subseteq ActionClasses

Published == phase = "published"

(* What the policy, the roles and the operator are given of an event follows *)
(* from the one trust it reports: after a reconsideration too, stage,        *)
(* priority, strategy, risk and trust level are those of that trust, only    *)
(* roles relevant to it are told, and an intervention is as urgent as that   *)
(* risk.  Its explanations tell the same stage, confidence and techniques;   *)
(* the trust level they tell is that of the first pass.                      *)
SingleTruth ==
  Published =>
    /\ outputs = Pipeline(outputs.sigs, outputs.trust, TrustLevelOf(outputs.trust))
    /\ \A r \in sent : RelevantFor(r, outputs)
    /\ actions.type \in InterventionType \ {"DO_NOTHING"} =>
         actions.urgency = Urgency(outputs.risk)
    /\ explained = [Explained(outputs) EXCEPT !.level = unrevised.level]

(* "Replace current step outputs with revised pipeline results" (engine.py), *)
(* of the explanations too.  Fails: they are built before the                *)
(* reconsideration and tell the trust level it took away.                    *)
ExplanationsFollowTrust == Published => explained.level = outputs.level

(* The recommended action is one the recommended strategy asks for: nothing  *)
(* is done where the strategy is to monitor.  Fails: the strategy follows    *)
(* the revised trust, and the selector, whose action replaces those of the   *)
(* strategy, is never given it.                                              *)
ActionsFollowStrategy ==
  Published /\ outputs.strategy = "MONITOR" => actions.type = "DO_NOTHING"

(* A contradicted forecast never widens what is done about a window: the     *)
(* revised event permits no class, recommends no strategy and reports no     *)
(* risk that the first pass would not have; and what the recommendation      *)
(* engine asks for beyond monitoring, the policy permits to recommend.       *)
RevisionNeverWidens ==
  Published =>
    /\ authority.permitted \subseteq PermittedActionClasses(PolicyInput(unrevised))
    /\ outputs.risk <= unrevised.risk
    /\ outputs.strategy = "ACT" => unrevised.strategy = "ACT"
    /\ outputs.strategy = "PREPARE" => unrevised.strategy # "MONITOR"
    /\ outputs.strategy # "MONITOR" => "GENERATE_RECOMMENDATION" \in authority.permitted

(* A relevant role is told exactly what is new to it, measured by what was   *)
(* published to it last, over windows and playbacks: unless a                *)
(* reconsideration threw a notification to it away since.                   *)
ToldWhatIsNew ==
  [][Publish => \A r \in Roles \ overtaken :
       RelevantFor(r, outputs) =>
         (r \in sent <=> \/ told[r] = None
                        \/ ~MateriallyUnchanged(told[r], Fingerprint(outputs)))]_vars

(* "material changes generate updates" (tests/test_day7.py), without the     *)
(* exception: a relevant role always was told of the present state. Fails:   *)
(* see overtaken.                                                            *)
ChangesAreTold ==
  Published =>
    \A r \in Roles :
      RelevantFor(r, outputs) =>
        told[r] # None /\ MateriallyUnchanged(told[r], Fingerprint(outputs))

(* Whatever the graph, cyclic ones included, an observed window ends in an   *)
(* event.                                                                   *)
WindowsArePublished == phase = "observed" ~> phase = "published"
=============================================================================
