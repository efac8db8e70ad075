--------------------------- MODULE ControllerPolicy ---------------------------
(***************************************************************************)
(* services/controller: which assets and configurations the next tick         *)
(* reveals, from a profile (the record of AttackProfile), the unlocked assets *)
(* and the revealed configurations.  Scores are integers, thousandths for      *)
(* supports, confidences and telemetry values; ties that the code breaks by    *)
(* name are broken by CHOOSE.  The ablation of the prior (use_prior_support    *)
(* off) is a switch of the evaluation scripts and is left out.                 *)
(***************************************************************************)
EXTENDS Naturals, Sequences, FiniteSets, FiniteSetsExt, SequencesExt

CONSTANTS
  Catalog,             \* asset ids to records, see the configuration of a run
  PriorFile,           \* the file of the prior: [readable, groups], the groups sequences
                       \* of techniques in the order of their names
  Portal,              \* internal-portal
  UnlockCap, TopK, SupportThreshold, ObservedThreshold

\* An asset has one configuration of a name, as in data/assets/catalog.json.
ASSUME PolicyAssumption ==
  \A a \in DOMAIN Catalog : \A v, w \in Catalog[a].variants : v.id = w.id => v = w

None == "none"
ScannerTechniques == {<<"T1190", "">>, <<"T1189", "">>, <<"T1046", "">>, <<"T1595", "">>,
                      <<"T1595", "001">>, <<"T1595", "002">>, <<"T1595", "003">>}

Family(technique) == technique[1]
SameFamily(a, b) == Family(a) = Family(b)
At(scores, t) == IF t \in DOMAIN scores THEN scores[t] ELSE 0
Greater(a, b) == IF a > b THEN a ELSE b

\* The best score of another technique of the family, at a discount.
BestFamilyScore(t, scores) ==
  Max({0} \cup {(scores[c] * 3) \div 4 : c \in {d \in DOMAIN scores : d # t /\ SameFamily(d, t)}})

ThresholdedObserved(profile) ==
  {t \in DOMAIN profile.confByTechnique : profile.confByTechnique[t] >= ObservedThreshold}

-----------------------------------------------------------------------------
(* The prior: weighted k nearest neighbours over ATT&CK groups.               *)

\* A file that cannot be read leaves the controller without a prior.
AttackGroups ==
  IF PriorFile.readable THEN [g \in DOMAIN PriorFile.groups |-> ToSet(PriorFile.groups[g])]
                        ELSE <<>>

Common(observed, group) == Cardinality(observed \cap AttackGroups[group])
Sizes(observed, group) == Cardinality(observed) + Cardinality(AttackGroups[group])

\* Soerensen-Dice similarity is 2 * Common / Sizes; nearer means greater, then
\* earlier by name.
Nearer(observed, g, h) ==
  LET left == Common(observed, g) * Sizes(observed, h)
      right == Common(observed, h) * Sizes(observed, g)
  IN  left > right \/ (left = right /\ g < h)

Neighbors(observed) ==
  LET similar == {g \in DOMAIN AttackGroups : Common(observed, g) > 0}
  IN  {g \in similar : Cardinality({h \in similar : Nearer(observed, h, g)}) < Greater(1, TopK)}

\* 1 / (1 - similarity); a group that matches exactly has nothing to add.
WknnWeight(observed, g) ==
  LET distance == Sizes(observed, g) - 2 * Common(observed, g)
  IN  IF distance = 0 THEN 0 ELSE (1000 * Sizes(observed, g)) \div distance

Recommend(observed) ==
  LET near == Neighbors(observed)
      candidates == (UNION {AttackGroups[g] : g \in near}) \ observed
      support == [t \in candidates |->
                    MapThenSumSet(LAMBDA g : IF t \in AttackGroups[g] THEN WknnWeight(observed, g) ELSE 0,
                                  near) \div Greater(1, TopK)]
  IN  IF observed = {} THEN <<>>
      ELSE [t \in {c \in candidates : support[c] >= SupportThreshold} |-> support[t]]

-----------------------------------------------------------------------------
(* Gates.  A marker is <<key, value>>, its key the name of a signal set.      *)

ObservedSignalSets(profile) ==
  [any_http_paths |-> profile.publicHttp.paths,
   any_http_rules |-> profile.publicHttp.rules,
   any_http_indicators |-> profile.publicHttp.indicators,
   any_internal_http_paths |-> profile.internalHttp.paths,
   any_internal_http_rules |-> profile.internalHttp.rules,
   any_internal_http_indicators |-> profile.internalHttp.indicators,
   any_asset_ids |-> profile.recentAssets,
   any_techniques |-> profile.recentTechniques,
   any_tactics |-> profile.recentTactics]

SignalsMatch(observed, marker) ==
  \/ marker[2] \in observed[marker[1]]
  \/ marker[1] = "any_techniques" /\ \E t \in observed[marker[1]] : SameFamily(t, marker[2])

MatchesUnlockSignals(asset, profile) ==
  IF Catalog[asset].signals = {}
    THEN profile.hasEvidence \/ profile.recentTechniques # {}
    ELSE \E m \in Catalog[asset].signals : SignalsMatch(ObservedSignalSets(profile), m)

MatchedDependencyMarkers(asset, profile) ==
  {m \in Catalog[asset].signals \cup Catalog[asset].optional :
     SignalsMatch(ObservedSignalSets(profile), m)}

HasConcreteMarker(markers) == \E m \in markers : m[1] \notin {"any_techniques", "any_tactics"}

IsBootstrap(asset, profile, unlocked) ==
  /\ asset = Portal /\ unlocked = {}
  /\ profile.hasEvidence \/ profile.recentTechniques # {} \/ profile.recentTactics # {}

Eligible(asset, profile, unlocked, planned) ==
  /\ Catalog[asset].internal /\ Catalog[asset].ready
  /\ asset \notin planned /\ Cardinality(planned) < UnlockCap
  /\ Catalog[asset].dependencies \subseteq planned
  /\ Catalog[asset].runtime
  /\ IsBootstrap(asset, profile, unlocked) \/ MatchesUnlockSignals(asset, profile)

ScannerOnly(profile) ==
  /\ profile.recentTechniques # {} /\ profile.recentTechniques \subseteq ScannerTechniques
  /\ profile.publicHttp.rules \cup profile.publicHttp.indicators = {}
  /\ profile.internalHttp.paths \cup profile.internalHttp.rules
       \cup profile.internalHttp.indicators = {}

\* An unlocked asset's catalog entry names this one as its upgrade.
UpgradeContext(asset, planned, markers) ==
  \E source \in planned : \E upgrade \in Catalog[source].upgrades :
    LET matched == upgrade.markers \cap markers
    IN  /\ upgrade.asset = asset
        /\ upgrade.markers # {} => matched # {} /\ HasConcreteMarker(matched)

-----------------------------------------------------------------------------
(* Options: an asset to unlock, or a configuration to reveal.                  *)

AssetOptions(profile, unlocked, planned) ==
  LET markers(a) == MatchedDependencyMarkers(a, profile)
  IN  {[kind |-> "unlock", asset |-> a, configuration |-> None, target |-> None,
        covered |-> Catalog[a].covered, telemetry |-> Catalog[a].telemetry,
        group |-> Catalog[a].group, markers |-> markers(a),
        upgrade |-> UpgradeContext(a, planned, markers(a))] :
          a \in {b \in DOMAIN Catalog : /\ Eligible(b, profile, unlocked, planned)
                                        /\ Catalog[b].covered # {}}}

\* Configurations ask for the exact marker, on an asset that is open and was
\* used lately; their target's dependencies and signals are not looked at.
MatchedVariantMarkers(variant, profile) ==
  {m \in variant.markers : m[2] \in ObservedSignalSets(profile)[m[1]]}

VariantVisible(source, variant, profile) ==
  profile.recentAssets \cap ({source} \cup variant.visibleFrom) # {}

TargetAvailable(source, variant, planned) ==
  variant.target # None =>
    /\ variant.target \in DOMAIN Catalog
    /\ variant.target = source \/ variant.target \notin planned
    /\ Catalog[variant.target].runtime

\* A variant that says nothing of its techniques has those of the asset it shows.
CoveredBy(variant, fallback) ==
  IF variant.covered = {} THEN Catalog[fallback].covered ELSE variant.covered

Exposes(source, target) == IF target = None THEN source ELSE target

ConfigurationOptions(profile, unlocked, revealed, planned) ==
  LET open(a) == {v \in Catalog[a].variants :
                    /\ <<a, v.id>> \notin revealed
                    /\ VariantVisible(a, v, profile)
                    /\ v.markers # {} => MatchedVariantMarkers(v, profile) # {}
                    /\ TargetAvailable(a, v, planned)}
      shown(a, v) == Exposes(a, v.target)
  IN  UNION {{[kind |-> "configure", asset |-> a, configuration |-> v.id, target |-> v.target,
               covered |-> CoveredBy(v, shown(a, v)),
               telemetry |-> v.telemetry, group |-> Catalog[shown(a, v)].group,
               markers |-> MatchedVariantMarkers(v, profile),
               upgrade |-> v.target # None] : v \in open(a)} :
               a \in unlocked \cap DOMAIN Catalog}

RevealOptions(profile, unlocked, revealed, planned) ==
  AssetOptions(profile, unlocked, planned)
  \cup ConfigurationOptions(profile, unlocked, revealed, planned)

-----------------------------------------------------------------------------
(* Scores.                                                                    *)

Support(t, recommended) == Greater(At(recommended, t), BestFamilyScore(t, recommended))
TechniqueGain(t, profile, recommended) ==
  Support(t, recommended) * (1000 - At(profile.confByTechnique, t))

\* Observed families continue, the prior recommends, and a concrete breadcrumb
\* lets a weakly observed technique pass: otherwise the technique is no reason.
SignalScore(t, profile, observed, recommended, concrete) ==
  LET current == Greater(At(profile.confByTechnique, t),
                         BestFamilyScore(t, profile.confByTechnique))
  IN  CASE \E o \in observed : SameFamily(o, t) -> current
        [] (\A o \in observed : ~SameFamily(o, t)) /\ Support(t, recommended) > 0 ->
             Support(t, recommended)
        [] OTHER -> IF concrete THEN current ELSE 0

\* Mutant: any technique is a new direction.
AnyDirection(t, exploit) == TRUE

IsDistinctExploreTechnique(t, exploit) == \A c \in exploit.covered : ~SameFamily(t, c)

NeedsUpgrade(option) ==
  option.kind = "unlock" /\ option.group \in {"generic-capture", "payload-transfer-high"}

\* Explore needs two observed families, and a breadcrumb or an upgrade of its own.
MayExplore(option, observed) ==
  /\ Cardinality({Family(t) : t \in observed}) >= 2
  /\ HasConcreteMarker(option.markers) \/ option.upgrade
  /\ NeedsUpgrade(option) => option.upgrade

\* The techniques of an option that count, with exploit the first choice or <<>>.
CountedTechniques(option, exploit, profile, unlocked, observed, recommended) ==
  LET bootstrap == option.kind = "unlock" /\ IsBootstrap(option.asset, profile, unlocked)
      scored == {t \in option.covered :
                   bootstrap \/ SignalScore(t, profile, observed, recommended,
                                            HasConcreteMarker(option.markers)) > 0}
  IN  IF exploit = <<>> THEN scored
      ELSE IF ~MayExplore(option, observed) THEN {}
      ELSE {t \in scored : IsDistinctExploreTechnique(t, exploit[1])}

ExpectedTechniqueGain(techniques, profile, recommended) ==
  MapThenSumSet(LAMBDA t : TechniqueGain(t, profile, recommended), techniques)

Candidates(options, exploit, profile, unlocked, observed, recommended) ==
  LET counted(o) == CountedTechniques(o, exploit, profile, unlocked, observed, recommended)
      priority(o) == IF o.kind = "configure" THEN 1
                     ELSE IF IsBootstrap(o.asset, profile, unlocked) THEN 2 ELSE 0
      reasoned == {c \in {[option |-> o, techniques |-> counted(o)] : o \in options} :
                     c.techniques # {}}
  IN  {[option |-> c.option, techniques |-> c.techniques, priority |-> priority(c.option),
        gain |-> ExpectedTechniqueGain(c.techniques, profile, recommended)] : c \in reasoned}

\* _candidate_order_key, without the name that breaks the last ties.
OrderKey(c) == <<c.priority, c.gain, Cardinality(c.option.markers), c.option.telemetry>>

RanksBefore(c, d) ==
  \E i \in 1 .. 4 : /\ OrderKey(c)[i] > OrderKey(d)[i]
                    /\ \A j \in 1 .. (i - 1) : OrderKey(c)[j] = OrderKey(d)[j]

Best(candidates) ==
  LET first == {c \in candidates : \A d \in candidates : ~RanksBefore(d, c)}
  IN  IF first = {} THEN <<>> ELSE <<(CHOOSE c \in first : TRUE).option>>

\* What a planned reveal adds to the assets the second pass takes as unlocked.
Planned(planned, option) ==
  planned \cup (IF option.kind = "unlock" THEN {option.asset} ELSE {option.target} \ {None})

\* tick: at most two reveals, the exploit and then the explore one.
Tick(profile, unlocked, revealed) ==
  LET observed == ThresholdedObserved(profile)
      recommended == Recommend(observed)
      choose(exploit, planned) ==
        Best(Candidates(RevealOptions(profile, unlocked, revealed, planned), exploit,
                        profile, unlocked, observed, recommended))
      exploit == choose(<<>>, unlocked)
      explore == [o \in ToSet(exploit) |-> choose(<<o>>, Planned(unlocked, o))]
  IN  IF ScannerOnly(profile) \/ exploit = <<>> THEN <<>>
      ELSE exploit \o explore[exploit[1]]
==============================================================================
