-------------------------------- MODULE Sigma --------------------------------
(***************************************************************************)
(* libs/common/sigma.py: the small Sigma grammar that the HTTP, the          *)
(* high-interaction and the shell mappers share.  A detection is             *)
(*                                                                            *)
(*   [selections |-> a function from names to selections,                     *)
(*    condition  |-> a sequence of branches ("or"), each a sequence of        *)
(*                   terms ("and")]                                           *)
(*                                                                            *)
(* A name is [stem, n] ("selection_1"); a term is [negated, how, pattern]     *)
(* with how one of "name", "one" (1 of ...) and "all" (all of ...), and a     *)
(* pattern is a name, a prefix ("selection_*") or "them".  Parsing of the     *)
(* text is left out; the code drops parentheses, so a condition with nested   *)
(* ones is none of those modelled here.                                       *)
(***************************************************************************)
EXTENDS Naturals, Sequences, FiniteSets, SequencesExt

\* What a sequence has at some positions, in their order: the n-th of them comes
\* after n - 1 others.
Picked(s, positions) ==
  [n \in 1 .. Cardinality(positions) |->
     s[CHOOSE i \in positions : Cardinality({j \in positions : j < i}) = n - 1]]

\* keys: the key of each value, in their order.
DedupePreserveBy(values, keys) ==
  Picked(values, {i \in DOMAIN values : \A j \in 1 .. (i - 1) : keys[j] # keys[i]})

DedupePreserve(values) == DedupePreserveBy(values, values)

IsFilterName(name) == name.stem = "filter"

\* Scalars under "detection" (a timeframe, say) are not selections.
NamedSelections(detection) ==
  {n \in DOMAIN detection.selections : detection.selections[n].shape # "scalar"}

NamesForPattern(pattern, names) ==
  CASE pattern.kind = "them" -> names
    [] pattern.kind = "prefix" -> {n \in names : n.stem = pattern.stem}
    [] OTHER -> {pattern.name} \cap names

\* Mutant: "all of" is any of them.
AllIsOne(term, names) ==
  {{n} : n \in NamesForPattern(term.pattern, {m \in names : ~IsFilterName(m)})}

\* The ways to satisfy a positive term: sets of selections that must all hold.
PositiveOptions(term, names) ==
  LET found == NamesForPattern(term.pattern, {n \in names : ~IsFilterName(n)})
  IN  IF term.how = "one" THEN {{n} : n \in found} ELSE {found}

NegatedNames(term, names) == NamesForPattern(term.pattern, names)

PlansFromAndBranch(branch, names) ==
  LET positives == {t \in ToSet(branch) : ~t.negated}
      negatives == ToSet(branch) \ positives
      options == [t \in positives |-> PositiveOptions(t, names)]
      choices == {c \in [positives -> UNION {options[t] : t \in positives}] :
                    \A t \in positives : c[t] \in options[t]}
  IN  IF positives = {} \/ \E t \in negatives : Cardinality(NegatedNames(t, names)) # 1
        THEN {}
        ELSE {[positives |-> p,
               negatives |-> UNION {NegatedNames(t, names) : t \in negatives}] :
                p \in {UNION {c[t] : t \in positives} : c \in choices} \ {{}}}

SelectionPlans(detection) ==
  LET names == NamedSelections(detection)
  IN  IF detection.condition = <<>>
        THEN {[positives |-> {n}, negatives |-> {}] :
                n \in {m \in names : ~IsFilterName(m)}}
        ELSE UNION {PlansFromAndBranch(branch, names) : branch \in ToSet(detection.condition)}

\* Tags are records: an ATT&CK technique, an ATT&CK tactic, or anything else.
Technique(id) == [kind |-> "technique", id |-> id]
Tactic(id) == [kind |-> "tactic", id |-> id]

AttackProfileTags(tags) ==
  DedupePreserve(Picked(tags, {i \in DOMAIN tags : tags[i].kind \in {"technique", "tactic"}}))

AttackTechniques(tags) == {t.id : t \in {u \in ToSet(tags) : u.kind = "technique"}}

-----------------------------------------------------------------------------
(* What a condition means, for the truth of every selection; a name alone is   *)
(* all of the one selection it names.                                         *)

TermHolds(term, truth) ==
  LET found == NamesForPattern(term.pattern, DOMAIN truth)
      holds == IF term.how = "one" THEN \E n \in found : truth[n]
                                   ELSE \A n \in found : truth[n]
  IN  holds # term.negated

ConditionHolds(condition, truth) ==
  \E b \in DOMAIN condition : \A i \in DOMAIN condition[b] : TermHolds(condition[b][i], truth)

\* Conditions the grammar of sigma_selection_plans covers: positive terms name
\* selections that are there and are no filters, and each "not" names one.
Supported(detection) ==
  LET names == NamedSelections(detection)
      terms == UNION {ToSet(branch) : branch \in ToSet(detection.condition)}
  IN  /\ detection.condition # <<>>
      /\ \A branch \in ToSet(detection.condition) : \E t \in ToSet(branch) : ~t.negated
      /\ \A t \in terms :
           LET found == NamesForPattern(t.pattern, names)
           IN  IF t.negated THEN Cardinality(found) = 1
                            ELSE found # {} /\ \A n \in found : ~IsFilterName(n)
==============================================================================
