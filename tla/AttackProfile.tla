---------------------------- MODULE AttackProfile ----------------------------
(***************************************************************************)
(* services/profiler/domain.py: an event becomes evidence, and the profile is *)
(* rebuilt from all the evidence of an attacker.                              *)
(*                                                                            *)
(* An event is [ts, rule, priority, tags, fields]: fields holds what the      *)
(* adapter puts into output_fields, of which the profiler keeps a part.  A    *)
(* technique is a pair of its family and its sub-technique ("" for none).     *)
(* Confidences are thousandths.  Evidence is a set: the order in which the    *)
(* code dedupes the recent lists is read by nobody.                           *)
(***************************************************************************)
EXTENDS Naturals, Sequences, FiniteSets, FiniteSetsExt, SequencesExt

CONSTANTS
  TacticOf,      \* the ATT&CK catalog: techniques to tactics
  Tactics,       \* the tactics the catalog knows
  ChainWindow    \* chain_window_seconds, in steps of the event clock

ASSUME ProfileAssumption == ChainWindow \in Nat

NoTechnique == <<"", "">>
NoTactic == ""

TacticForTechnique(t) == IF t \in DOMAIN TacticOf THEN TacticOf[t] ELSE NoTactic

\* In half units: 0.5, 1 and 2.
PriorityToWeight(priority) ==
  CASE priority = "high" -> 4 [] priority = "medium" -> 2 [] OTHER -> 1

\* Each technique gets the nearest preceding tactic as context.
TacticAt(tags, i) ==
  LET tactics == {j \in 1 .. (i - 1) : tags[j].kind = "tactic"}
      current == IF tactics = {} THEN NoTactic ELSE tags[Max(tactics)].id
  IN  IF current \in Tactics THEN current ELSE TacticForTechnique(tags[i].id)

MappingsFromTags(tags) ==
  LET of(kind) == {i \in DOMAIN tags : tags[i].kind = kind}
  IN  IF of("technique") # {}
        THEN {[tech |-> tags[i].id, group |-> TacticAt(tags, i)] : i \in of("technique")}
        ELSE {[tech |-> NoTechnique, group |-> tags[i].id] :
                i \in {j \in of("tactic") : tags[j].id \in Tactics}}

\* Untagged events are kept for audit, without tactic or technique.
DeriveAttackMappings(tags) ==
  IF MappingsFromTags(tags) # {} THEN MappingsFromTags(tags)
  ELSE {[tech |-> NoTechnique, group |-> NoTactic]}

\* The fields an event leaves with its evidence, and those of them that tell two
\* pieces of evidence apart when confidence is summed up.
FingerprintKeys == {"source", "asset", "path", "rules", "indicators", "service", "command",
                    "commands", "sensor", "kind", "username", "password"}
SourceRefKeys == FingerprintKeys \cup {"logdata"}

BuildSourceRef(event) == Restrict(event.fields, SourceRefKeys \cap DOMAIN event.fields)

\* Mutant: when it happened tells evidence apart.
FingerprintWithTime(event) == <<event.rule, event.fields, event.ts>>

ConfidenceFingerprint(event) ==
  <<event.rule, Restrict(event.fields, FingerprintKeys \cap DOMAIN event.fields)>>

MapEvent(event) ==
  {[ts |-> event.ts, rule |-> event.rule, tech |-> m.tech, group |-> m.group,
    weight |-> PriorityToWeight(event.priority),
    fingerprint |-> ConfidenceFingerprint(event), fields |-> BuildSourceRef(event)] :
      m \in DeriveAttackMappings(event.tags)}

\* round(1 - exp(-score)) in thousandths, score in half units; MaxScore bounds
\* the table.
Gap == <<607, 368, 223, 135, 82, 50, 30, 18, 11, 7, 4, 2>>
MaxScore == Len(Gap)
Confidence(score) == IF score = 0 THEN 0
                     ELSE 1000 - Gap[IF score > MaxScore THEN MaxScore ELSE score]

\* Mutant: the lightest counts.
LightestScore(evidences) ==
  MapThenSumSet(LAMBDA f : Min({e.weight : e \in {x \in evidences : x.fingerprint = f}}),
                {e.fingerprint : e \in evidences})

\* A half unit is a fingerprint and its number; of the evidence with one
\* fingerprint only the heaviest counts, whose half units are those of all.
HalfUnits(e) == {e.fingerprint} \X (1 .. e.weight)
Score(evidences) == Cardinality(UNION {HalfUnits(e) : e \in evidences})

RecentEvidences(evidences) ==
  IF evidences = {} THEN {}
  ELSE LET latest == Max({e.ts : e \in evidences})
       IN  {e \in evidences : e.ts + ChainWindow >= latest}

SummarizeTechniques(evidences) ==
  [t \in {e.tech : e \in evidences} \ {NoTechnique} |->
     Confidence(Score({e \in evidences : e.tech = t}))]

SummarizeTactics(evidences) ==
  [g \in {e.group : e \in evidences} \ {NoTactic} |->
     Confidence(Score({e \in evidences : e.group = g}))]

\* The breadcrumbs of one surface: public and internal HTTP are kept apart.
HttpValues(evidences, source) ==
  LET http == {e.fields : e \in {x \in evidences : x.fields.source = source}}
  IN  [paths |-> {f.path : f \in http},
       rules |-> UNION {f.rules : f \in http},
       indicators |-> UNION {f.indicators : f \in http}]

\* The assets named by evidence of any source.
SourceRefAssets(evidences) == {e.fields.asset : e \in evidences} \ {""}

RebuildProfile(evidences) ==
  LET recent == RecentEvidences(evidences)
      techniques == SummarizeTechniques(recent)
      tactics == SummarizeTactics(recent)
  IN  [confByTechnique |-> techniques,
       confByTactic |-> tactics,
       recentTechniques |-> DOMAIN techniques,
       recentTactics |-> DOMAIN tactics,
       hasEvidence |-> recent # {},
       publicHttp |-> HttpValues(recent, "public_http"),
       internalHttp |-> HttpValues(recent, "internal_http"),
       recentAssets |-> SourceRefAssets(recent)]
==============================================================================
