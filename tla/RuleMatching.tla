----------------------------- MODULE RuleMatching -----------------------------
(***************************************************************************)
(* How Sigma rules are matched: against HTTP requests (entrypoint) and        *)
(* sensor events (high_interaction), whose matchers are the same code, and    *)
(* against shell commands (cowrie), which are translated into match payloads  *)
(* first.                                                                     *)
(*                                                                            *)
(* Text is abstracted to the markers a rule can ask for.  A request is a      *)
(* function from fields to the markers found there (prefix, suffix, regular    *)
(* expression: all of them are markers).  A line typed is [path, facts], its    *)
(* path the one of its first word, <<>> if it is blank; a command is            *)
(* [process, facts], its facts the pairs <<modifier, value>> true of its         *)
(* command line, and a regular expression is the set of commands it matches.   *)
(***************************************************************************)
EXTENDS Sigma

CONSTANT Commands      \* the shell commands an attacker may type

(* HTTP and high-interaction.  A selection is [shape |-> "keywords", values]   *)
(* or [shape |-> "fields", fields], a field [field, every, values].            *)

FieldIndicators(f, event) ==
  LET hit == IF f.field \in DOMAIN event THEN f.values \cap event[f.field] ELSE {}
  IN  IF f.every /\ hit # f.values THEN {} ELSE {<<f.field, v>> : v \in hit}

KeywordIndicators(values, event) ==
  {<<"combined", v>> : v \in values \cap UNION {event[f] : f \in DOMAIN event}}

SelectionIndicators(selection, event) ==
  IF selection.shape = "keywords" THEN KeywordIndicators(selection.values, event)
  ELSE IF \E f \in selection.fields : FieldIndicators(f, event) = {} THEN {}
  ELSE UNION {FieldIndicators(f, event) : f \in selection.fields}

RuleIndicators(rule, event) ==
  LET found == [n \in NamedSelections(rule.detection) |->
                  SelectionIndicators(rule.detection.selections[n], event)]
      fires(p) == /\ \A n \in p.positives : found[n] # {}
                  /\ \A n \in p.negatives : found[n] = {}
  IN  UNION {UNION {found[n] : n \in p.positives} :
               p \in {q \in SelectionPlans(rule.detection) : fires(q)}}

\* _rule_from_sigma_file keeps a file only if it has ATT&CK tags and a plan.
Deployed(rules) ==
  Picked(rules, {i \in DOMAIN rules : /\ AttackProfileTags(rules[i].tags) # <<>>
                                     /\ SelectionPlans(rules[i].detection) # {}})

MatchesFor(rules, event) ==
  LET deployed == Deployed(rules)
      matched == Picked(deployed, {i \in DOMAIN deployed : RuleIndicators(deployed[i], event) # {}})
  IN  [i \in DOMAIN matched |-> [rule |-> matched[i].name,
                                 tags |-> AttackProfileTags(matched[i].tags),
                                 indicators |-> RuleIndicators(matched[i], event)]]

TagsFromRuleMatches(matches) ==
  DedupePreserve(FlattenSeq([i \in DOMAIN matches |-> matches[i].tags]))

IndicatorsFromRuleMatches(matches) == UNION {matches[i].indicators : i \in DOMAIN matches}

-----------------------------------------------------------------------------
(* Shell commands.  A field of a selection is [field, modifier, values], its   *)
(* field one of "type", "a0" and "arg" (auditd), "process", "line" and         *)
(* "other".                                                                    *)

NoMatch == [processes |-> {}, contains |-> {}, regexes |-> {}]
Regex(modifier, value) == {c \in Commands : <<modifier, value>> \in c.facts}
ContainsAllRegex(values) == {c \in Commands : \A v \in values : c \in Regex("contains", v)}
ContainsEachGroupRegex(groups) ==
  {c \in Commands : \A g \in groups : \E v \in g : c \in Regex("contains", v)}

UnsupportedField(f) ==
  \/ f.values = {} \/ f.field = "other"
  \/ f.field = "type" /\ "execve" \notin f.values
  \/ f.field = "line" /\ f.modifier = "other"

MatchFromSigmaSelection(selection) ==
  LET of(name) == {f \in selection.fields : f.field = name}
      lines(modifiers) == {f \in of("line") : f.modifier \in modifiers}
      args == {f.values : f \in of("arg")}
  IN  IF selection.shape = "keywords"
        THEN [NoMatch EXCEPT !.regexes = {Regex("keyword", v) : v \in selection.values}]
      ELSE IF \E f \in selection.fields : UnsupportedField(f) THEN NoMatch
      ELSE [processes |-> UNION {f.values : f \in of("a0") \cup of("process")},
            contains |-> UNION {f.values : f \in lines({"contains"})},
            regexes |-> {ContainsAllRegex(f.values) : f \in lines({"contains all"})}
                        \cup (UNION {{Regex(f.modifier, v) : v \in f.values} :
                                       f \in lines({"re", "startswith", "endswith", "is"})})
                        \cup (IF args = {} THEN {} ELSE {ContainsEachGroupRegex(args)})]

\* One regular expression that asks for every command-line group.
CombinedCommandLineRegex(matches) ==
  {c \in Commands :
     \A m \in matches :
       /\ m.contains # {} => \E v \in m.contains : c \in Regex("contains", v)
       /\ m.regexes # {} => c \in UNION m.regexes}

MergeMatchPayloads(matches) ==
  LET named == {m \in matches : m.processes # {}}
      processes == {p \in UNION {m.processes : m \in named} : \A m \in named : p \in m.processes}
      contains == {m.contains : m \in matches} \ {{}}
      regexes == {m.regexes : m \in matches} \ {{}}
      simple == Cardinality(contains) = 1 /\ regexes = {}
  IN  IF named # {} /\ processes = {} THEN NoMatch
      ELSE [processes |-> processes,
            contains |-> IF simple THEN UNION contains ELSE {},
            regexes |-> IF ~simple /\ contains \cup regexes # {}
                          THEN {CombinedCommandLineRegex(matches)} ELSE {}]

MergeOrMatchPayloads(matches) ==
  [processes |-> UNION {m.processes : m \in matches},
   contains |-> UNION {m.contains : m \in matches},
   regexes |-> UNION {m.regexes : m \in matches}]

\* Every group a match names must hold; a match without any never does.
CommandHas(c, match) ==
  /\ match # NoMatch
  /\ match.processes # {} => c.process \in match.processes
  /\ match.contains # {} => \E v \in match.contains : c \in Regex("contains", v)
  /\ match.regexes # {} => c \in UNION match.regexes

CommandMatchesRule(c, rule) == CommandHas(c, rule.match) /\ ~CommandHas(c, rule.excluded)

ConfidenceFromSigmaLevel(level) ==
  CASE level \in {"critical", "high"} -> "high" [] level = "medium" -> "medium" [] OTHER -> "low"

\* sigma_rule_to_command_rules: one rule per plan and technique.
SigmaCommandRules(rule) ==
  LET match(n) == MatchFromSigmaSelection(rule.detection.selections[n])
      merged(p) == MergeMatchPayloads({match(n) : n \in p.positives})
      usable == {p \in SelectionPlans(rule.detection) :
                   /\ NoMatch \notin {match(n) : n \in p.positives \cup p.negatives}
                   /\ merged(p) # NoMatch}
  IN  {[name |-> <<rule.name, p, t>>, technique |-> t,
        confidence |-> ConfidenceFromSigmaLevel(rule.level),
        match |-> merged(p),
        excluded |-> MergeOrMatchPayloads({match(n) : n \in p.negatives})] :
          p \in usable, t \in AttackTechniques(rule.tags)}

\* Rules of the same title get numbers, by which they survive what follows.
DedupeRuleNames(rules) ==
  [i \in DOMAIN rules |->
     [rules[i] EXCEPT !.name = <<@, Cardinality({j \in 1..i : rules[j].name = @})>>]]

\* The rules of one root's files.
ImportSigmaCommandRules(files) ==
  DedupeRuleNames(FlattenSeq([i \in DOMAIN files |-> SetToSeq(SigmaCommandRules(files[i]))]))

\* Either catalog: of the rules of one name and technique, the first.
LoadedRules(rules) ==
  DedupePreserveBy(rules, [i \in DOMAIN rules |-> <<rules[i].name, rules[i].technique>>])

\* The program of a line is the last part of its first word's path.
NormalizeCommand(line) ==
  {[process |-> Last(p), facts |-> line.facts] : p \in {line.path} \ {<<>>}}

CatalogMatch(rules, line) ==
  LET loaded == LoadedRules(rules)
  IN  Picked(loaded, {i \in DOMAIN loaded :
                        \E c \in NormalizeCommand(line) : CommandMatchesRule(c, loaded[i])})

\* CompositeCowrieCommandRuleCatalog.match: the reviewed rules, then Sigma's,
\* and a name and technique that both have once.
MatchCommand(reviewed, files, line) ==
  LoadedRules(CatalogMatch(reviewed, line) \o CatalogMatch(ImportSigmaCommandRules(files), line))
==============================================================================
