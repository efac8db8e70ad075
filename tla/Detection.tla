------------------------------- MODULE Detection -------------------------------
(***************************************************************************)
(* What one attacker does, from the wire to the next plan: requests, reads of *)
(* routed connections, sensor events and shell commands become tagged events, *)
(* the profile is rebuilt from the evidence of all of them, and a tick turns  *)
(* it into reveals, which open what can be reached next.                      *)
(*                                                                            *)
(* Each adapter's handler is one action: that handlers overlap, that lines    *)
(* are lost or come twice and that a reveal can fail is modelled elsewhere    *)
(* (Telemetry, AdaptiveLoop, Orchestrator).                                   *)
(***************************************************************************)
EXTENDS RuleMatching, Observers, CanaryTags, AttackProfile, ControllerPolicy

CONSTANTS
  Conditions,      \* of the candidate rule
  HttpSelections, ShellSelections,     \* what its selections ask for
  CandidateTags,   \* and its tags
  SensorRules,     \* the high-interaction rules
  ReviewedRules,   \* the reviewed command rules, a sequence
  HttpEvents,      \* what an HTTP request can hold, by field
  PublicRequests,  \* HTTP requests [path, fields] to the public site
  CanaryLogs,      \* what the OpenCanary containers log themselves
  SensorEvents,    \* what the capture backends log themselves
  Messages,        \* what is sent to each asset, see Observers; one that is HTTP
                   \* has a [path, fields] as its request
  Typed,           \* the lines typed in this run
  PortOf,          \* assets to public ports
  MaxRead,         \* bounds the messages in one read
  MaxDelay,        \* how late a sensor's event can be
  MaxClock, MaxEvents

\* Terms are negated or not, the rule names a technique (one that names none is no
\* command rule), and a command is its program and what is true of its line.
ASSUME DetectionAssumption ==
  /\ \A condition \in Conditions : \A b \in DOMAIN condition : \A i \in DOMAIN condition[b] :
       condition[b][i].negated \in BOOLEAN
  /\ IsFiniteSet(DOMAIN HttpSelections) /\ IsFiniteSet(DOMAIN ShellSelections)
  /\ CandidateTags \in Seq(ToSet(CandidateTags)) /\ AttackTechniques(CandidateTags) # {}
  /\ \A c \in Commands : c = [process |-> c.process, facts |-> c.facts]

VARIABLES
  candidate,     \* the condition of the candidate rule
  clock,
  evidence,      \* the attacker's evidence
  profile,       \* and the profile saved with it
  seen,          \* events taken in
  unlocked, revealed

vars == <<candidate, clock, evidence, profile, seen, unlocked, revealed>>

Init ==
  /\ candidate \in Conditions
  /\ clock = 0 /\ evidence = {} /\ profile = RebuildProfile({}) /\ seen = 0
  /\ unlocked = {} /\ revealed = {}

HttpRule == [name |-> "candidate", tags |-> CandidateTags,
             detection |-> [selections |-> HttpSelections, condition |-> candidate]]
ShellRule == [name |-> "candidate", tags |-> CandidateTags, level |-> "critical",
              detection |-> [selections |-> ShellSelections, condition |-> candidate]]

\* A sensor's own clock dates its events, which may have waited for the adapter.
Late == {t \in 0 .. clock : t + MaxDelay >= clock}

\* Assets the gateway leads the attacker to.
Reachable ==
  unlocked \cup UNION {{v.target : v \in {w \in Catalog[a].variants : <<a, w.id>> \in revealed}}
                         \ {None} : a \in unlocked}

\* ProfilerService.ingest, for the events of one handler.
Ingest(events) ==
  /\ seen < MaxEvents
  /\ events # {}
  /\ evidence' = evidence \cup UNION {MapEvent(e) : e \in events}
  /\ profile' = RebuildProfile(evidence')
  /\ seen' = seen + 1
  /\ UNCHANGED <<candidate, clock, unlocked, revealed>>

\* A rule can ask for the surface and the asset of a request, too.
NormalizeHttpFields(request, surface, asset) ==
  request.fields @@ ("surface" :> {surface}) @@ ("asset_id" :> {asset})

SourceForSurface(surface) == IF surface = "internal" THEN "internal_http" ELSE "public_http"

\* EntrypointService.capture_http_request, of the public site or of a request
\* that the gateway observed: only a match is profiled.
CaptureHttpRequest(surface, asset, request) ==
  LET matches == MatchesFor(<<HttpRule>>, NormalizeHttpFields(request, surface, asset))
  IN  Ingest({[ts |-> clock, rule |-> surface \o " HTTP", priority |-> "low",
               tags |-> TagsFromRuleMatches(matches),
               fields |-> [source |-> SourceForSurface(surface), asset |-> asset,
                           path |-> request.path,
                           rules |-> {matches[i].rule : i \in DOMAIN matches},
                           indicators |-> IndicatorsFromRuleMatches(matches)]] :
                 x \in {m \in {matches} : m # <<>>}})

PublicRequest == \E r \in PublicRequests : CaptureHttpRequest("public", "", r)

\* OpenCanaryService.ingest, of an event of either origin.
IngestCanary(event, ts) ==
  Ingest({[ts |-> ts, rule |-> "OpenCanary " \o event.service, priority |-> CanaryPriority(event),
           tags |-> CanaryProfileTags(event), fields |-> CanaryFields(event)]})

\* HighInteractionService.ingest.
EventFields(event) ==
  [source |-> {event.source}, service |-> {event.service}, kind |-> event.kind,
   text |-> event.text]

\* FileHighInteractionSigmaRuleMatcher, the HTTP matcher over again.
SensorMatchesFor(event) == MatchesFor(SensorRules, EventFields(event))

HighWords == {"payload", "download", "upload", "exploit", "shellcode"}
MediumWords == {"login", "auth", "password"}
EventText(event) == {event.source, event.service} \cup event.kind \cup event.text
PriorityFor(event) ==
  IF EventText(event) \cap HighWords # {} THEN "high"
  ELSE IF EventText(event) \cap MediumWords # {} THEN "medium"
  ELSE "low"

IngestSensor(event, ts) ==
  Ingest({[ts |-> ts, rule |-> event.source, priority |-> PriorityFor(event),
           tags |-> TagsFromRuleMatches(SensorMatchesFor(event)),
           fields |-> [source |-> "high_interaction", asset |-> event.asset,
                       sensor |-> event.source, service |-> event.service,
                       kind |-> event.kind, logdata |-> event.text]]})

\* One read of a connection through the gateway: every event it makes goes its
\* own way to an adapter.
Read ==
  \E a \in Reachable \cap DOMAIN Messages, ts \in Late :
    \E read \in BoundedSeq(Messages[a], MaxRead) :
      \/ \E event \in ProtocolEvents(a, PortOf[a], read) : IngestCanary(event, ts)
      \/ \E event \in ProbeEvents(a, PortOf[a], read) : IngestSensor(event, ts)
      \/ \E m \in ParsedHttpRequests(PortOf[a], read) :
           ts = clock /\ CaptureHttpRequest("internal", a, m.request)

CanaryLog ==
  \E log \in CanaryLogs, ts \in Late :
    log.asset \in Reachable /\ IngestCanary(CanaryEvent(log), ts)
SensorLog ==
  \E event \in SensorEvents, ts \in Late :
    event.asset \in Reachable /\ IngestSensor(event, ts)

\* CowrieService.ingest.  A command is evidence once per rule it matches; what
\* was typed is not among the fields the profiler keeps, so that two commands of
\* one technique are the same evidence.
CowrieEvent(ts, rule, priority, tags, fields) ==
  [ts |-> ts, rule |-> rule, priority |-> priority, tags |-> tags, fields |-> fields]

ShellCommand ==
  \E line \in Typed, ts \in Late :
    Ingest({CowrieEvent(ts, "cowrie.command.input", r.confidence, <<Technique(r.technique)>>,
                        [source |-> "cowrie", asset |-> "", input |-> line]) :
              r \in ToSet(MatchCommand(ReviewedRules, <<ShellRule>>, line))})

\* The login of Cowrie names the user, and says whether a password was given.
ShellLoginFailed ==
  \E ts \in Late :
    Ingest({CowrieEvent(ts, "cowrie.login.failed", "low", CredentialAccess,
                        [source |-> "cowrie", asset |-> "", username |-> TRUE, password |-> TRUE])})

ShellTransfer ==
  \E ts \in Late :
    Ingest({CowrieEvent(ts, "cowrie.session.file_download", "medium",
                        <<Tactic("command_and_control"), Technique(<<"T1105", "">>)>>,
                        [source |-> "cowrie", asset |-> ""])})

Passes ==
  /\ clock < MaxClock
  /\ clock' = clock + 1
  /\ UNCHANGED <<candidate, evidence, profile, seen, unlocked, revealed>>

Plan == Tick(profile, unlocked, revealed)

\* A tick of the controller whose plan the orchestrator carries out.
Reveal ==
  \E plan \in {ToSet(Plan)} :
    /\ plan # {}
    /\ unlocked' = unlocked \cup {o.asset : o \in {p \in plan : p.kind = "unlock"}}
    /\ revealed' = revealed \cup {<<o.asset, o.configuration>> :
                                    o \in {p \in plan : p.kind = "configure"}}
    /\ UNCHANGED <<candidate, clock, evidence, profile, seen>>

Next == \/ PublicRequest \/ Read \/ CanaryLog \/ SensorLog
        \/ ShellCommand \/ ShellLoginFailed \/ ShellTransfer \/ Passes \/ Reveal

Spec == Init /\ [][Next]_vars

-----------------------------------------------------------------------------
(* What the fields and selections of a Sigma rule ask for.                    *)

FieldHolds(f, event) ==
  /\ f.values # {} /\ f.field \in DOMAIN event
  /\ IF f.every THEN f.values \subseteq event[f.field] ELSE f.values \cap event[f.field] # {}
HttpHolds(selection, event) ==
  IF selection.shape = "keywords"
    THEN \E f \in DOMAIN event : selection.values \cap event[f] # {}
    ELSE selection.fields # {} /\ \A f \in selection.fields : FieldHolds(f, event)

CommandFieldHolds(f, c) ==
  CASE f.field \in {"a0", "process"} -> c.process \in f.values
    [] f.field = "arg" -> \E v \in f.values : <<"contains", v>> \in c.facts
    [] f.field = "line" ->
         IF f.modifier = "contains all" THEN \A v \in f.values : <<"contains", v>> \in c.facts
         ELSE \E v \in f.values : <<f.modifier, v>> \in c.facts
    [] OTHER -> TRUE
ShellHolds(selection, c) ==
  IF selection.shape = "keywords" THEN \E v \in selection.values : <<"keyword", v>> \in c.facts
  ELSE \A f \in selection.fields : CommandFieldHolds(f, c)

\* The part of a payload that a field goes to.  A payload asks for one of each part,
\* so that a selection is translated whole if no two fields go to the same one; the
\* arguments of a command are one regular expression that asks for all of them.
PayloadPart(f) ==
  CASE f.field \in {"a0", "process"} -> "processes"
    [] f.field = "line" /\ f.modifier = "contains" -> "contains"
    [] f.field = "line" /\ f.modifier \in {"contains all", "re", "startswith", "endswith", "is"} ->
         "regexes"
    [] f.field = "arg" -> "regexes"
    [] f.field = "type" -> "none"
    [] OTHER -> "lost"
TranslatedWhole(selection) ==
  /\ MatchFromSigmaSelection(selection) # NoMatch
  /\ selection.shape # "keywords" =>
       \A f, g \in selection.fields :
         /\ PayloadPart(f) # "lost"
         /\ PayloadPart(f) = PayloadPart(g) =>
              f = g \/ PayloadPart(f) = "none" \/ (f.field = "arg" /\ g.field = "arg")

\* A rule matches exactly the requests, and exactly the commands, for which its
\* condition holds: neither the plans made of it, nor the indicators, nor the
\* translation into command payloads lose or add a case.  For conditions of the
\* grammar the code names, and for commands those of selections translated whole
\* and of one "not" per branch (excluded selections are merged, see the README).
\* It depends on the rule alone, so that it is evaluated before anything has
\* happened.
RulesMeanTheirConditions ==
  seen = 0 =>
    LET names == NamedSelections(HttpRule.detection)
        named == NamedSelections(ShellRule.detection)
    IN  /\ Supported(HttpRule.detection) =>
             \A e \in HttpEvents :
               MatchesFor(<<HttpRule>>, e) # <<>>
                 <=> ConditionHolds(candidate, [n \in names |-> HttpHolds(HttpSelections[n], e)])
        /\ (/\ Supported(ShellRule.detection)
            /\ \A n \in named : TranslatedWhole(ShellSelections[n])
            /\ \A b \in DOMAIN candidate : \A i, j \in DOMAIN candidate[b] :
                 candidate[b][i].negated /\ candidate[b][j].negated => i = j) =>
             \A c \in Commands :
               MatchCommand(<<>>, <<ShellRule>>, [path |-> <<c.process>>, facts |-> c.facts]) # <<>>
                 <=> ConditionHolds(candidate, [n \in named |-> ShellHolds(ShellSelections[n], c)])

\* TCP decides how many messages one read of the gateway holds.  However many whole
\* messages that are, a read claims no technique that they would not apart, and for
\* FTP and SMTP, which are read by the line, the verbs and whether somebody
\* tried to log in are the same.  (A message torn over two reads is not covered.)
CoalescedReadsInventNothing ==
  seen = 0 =>
    \A a \in DOMAIN Messages : \A read \in BoundedSeq(Messages[a], MaxRead) :
      LET whole == ProtocolEvents(a, PortOf[a], read)
          parts == UNION {ProtocolEvents(a, PortOf[a], <<read[i]>>) : i \in DOMAIN read}
          techniques(events) == UNION {AttackTechniques(CanaryProfileTags(e)) : e \in events}
          verbs(events) == UNION {ToSet(e.commands) : e \in events}
          login(events) == \E e \in events : CanaryPriority(e) = "medium"
      IN  /\ techniques(whole) \subseteq techniques(parts)
          /\ ObservedService(a, PortOf[a]) \in {"ftp", "smtp"} =>
               verbs(whole) = verbs(parts) /\ login(whole) = login(parts)

\* No confidence falls but for the time that passes: an event that leaves the
\* newest timestamp where it is, whatever it is and however late it comes, adds.
Latest(evidences) == Max({0} \cup {e.ts : e \in evidences})
NothingFades ==
  Latest(evidence) = Latest(evidence') =>
    /\ \A t \in DOMAIN profile.confByTechnique :
         profile'.confByTechnique[t] >= profile.confByTechnique[t]
    /\ \A g \in DOMAIN profile.confByTactic :
         profile'.confByTactic[g] >= profile.confByTactic[g]
ConfidenceOnlyFades == [][NothingFades]_evidence

\* "Repeated probes of the same path/command should not inflate confidence": a
\* repeat within the window, whatever it carried, leaves the profile as it is, and
\* with it the plan.
Probe(e) == [rule |-> e.rule, tech |-> e.tech, group |-> e.group, weight |-> e.weight,
             fields |-> [k \in DOMAIN e.fields \ {"logdata"} |-> e.fields[k]]]
RepeatsAddNothing ==
  (/\ {Probe(e) : e \in evidence' \ evidence} \subseteq {Probe(e) : e \in RecentEvidences(evidence)}
   /\ RecentEvidences(evidence) \subseteq RecentEvidences(evidence'))
    => profile' = profile
RepeatsChangeNothing == [][RepeatsAddNothing]_evidence

\* A plan opens up two directions and never one twice: its second reveal is not
\* the first one again, covers a technique family the first does not, and rests
\* only on what is open or opened by the first; neither was made before.
PlanIsTwoDirections ==
  \A plan \in {Plan} :
    LET reveal(o) == <<o.asset, o.configuration>>
    IN  /\ \A i \in DOMAIN plan :
             IF plan[i].kind = "unlock" THEN plan[i].asset \notin unlocked
             ELSE plan[i].asset \in unlocked /\ reveal(plan[i]) \notin revealed
        /\ Len(plan) = 2 =>
             /\ reveal(plan[1]) # reveal(plan[2])
             /\ \E t \in plan[2].covered : \A u \in plan[1].covered : ~SameFamily(t, u)
             /\ plan[2].kind = "unlock" =>
                  Catalog[plan[2].asset].dependencies \subseteq Planned(unlocked, plan[1])
================================================================================
