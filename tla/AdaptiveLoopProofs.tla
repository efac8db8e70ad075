--------------------------- MODULE AdaptiveLoopProofs ---------------------------
(***************************************************************************)
(* What the control loop guarantees for any number of attackers, any       *)
(* catalog and any bounds, whatever attackers do, whichever POSTs time     *)
(* out, and wherever it crashes.                                           *)
(***************************************************************************)
EXTENDS AdaptiveLoop, SequenceTheorems, TLAPS

USE LoopAssumption

-------------------------------------------------------------------------------
(* Operators of the model.                                                   *)

\* A profile names evidence that exists.
LEMMA RecentIsBounded ==
  ASSUME NEW a, NEW n \in Nat PROVE RecentEvidence(a, n) \subseteq 1..n
BY DEF RecentEvidence, InWindow

LEMMA OptionsTyped ==
  ASSUME NEW b, NEW active, NEW planned, NEW count
  PROVE  Options(b, active, planned, count) \subseteq Action
<1> SUFFICES ASSUME NEW act \in Options(b, active, planned, count) PROVE act \in Action
  OBVIOUS
<1>1. CASE \E x \in Assets : act = Unlock(x)
  BY <1>1 DEF Unlock, Action
<1>2. CASE \E v \in Variants : act = Configure(v)
  BY <1>2 DEF Configure, Action, Configs
<1> QED
  BY <1>1, <1>2 DEF Options, ConfigurationOptions

\* The controller answers sequences of actions, and the loop cuts them short.
LEMMA PlansTyped ==
  ASSUME NEW b, NEW active, NEW acts \in Plans(b, active)
  PROVE  acts \in Seq(Action)
<1>1. CASE acts = <<>>
  BY <1>1
<1>2. CASE \E x \in FirstChoices(b, active) : acts = <<x>>
  BY <1>2, OptionsTyped DEF FirstChoices
<1>3. CASE \E x \in FirstChoices(b, active) : \E y \in SecondChoices(b, active, x) : acts = <<x, y>>
  BY <1>3, OptionsTyped DEF FirstChoices, SecondChoices
<1> QED
  BY <1>1, <1>2, <1>3 DEF Plans

LEMMA LimitTyped ==
  ASSUME NEW acts \in Seq(Action) PROVE Limit(acts) \in Seq(Action)
<1>1. CASE Len(acts) <= MaxActions
  BY <1>1 DEF Limit
<1>2. CASE ~(Len(acts) <= MaxActions)
  BY <1>2, SubSeqProperties DEF Limit
<1> QED
  BY <1>1, <1>2

\* What is left of a plan is its beginning.
LEMMA LimitIsPrefix ==
  ASSUME NEW acts \in Seq(Action)
  PROVE  /\ DOMAIN Limit(acts) \subseteq DOMAIN acts
         /\ \A i \in DOMAIN Limit(acts) : Limit(acts)[i] = acts[i] /\ 1..(i - 1) \subseteq DOMAIN Limit(acts)
<1>1. CASE Len(acts) <= MaxActions
  BY <1>1 DEF Limit
<1>2. CASE ~(Len(acts) <= MaxActions)
  <2>1. MaxActions \in 0..Len(acts) /\ Limit(acts) = SubSeq(acts, 1, MaxActions)
    BY <1>2 DEF Limit
  <2>2. /\ DOMAIN Limit(acts) = 1..MaxActions
        /\ \A i \in 1..MaxActions : Limit(acts)[i] = acts[i]
    BY <2>1, SubSeqProperties
  <2> QED
    BY <2>1, <2>2
<1> QED
  BY <1>1, <1>2

\* The controller proposes an action only if it finds its dependencies among the
\* assets it plans with, and an unlock only for an asset that is not among them.
LEMMA OptionsStand ==
  ASSUME NEW b, NEW active, NEW planned, NEW count, NEW act \in Options(b, active, planned, count)
  PROVE  \/ /\ act.kind = "unlock" /\ act.asset \in Assets \ planned
            /\ Deps[act.asset] \subseteq planned /\ ExposedBy(act) = {act.asset}
         \/ act.kind = "configure" /\ \E v \in Variants : act = Configure(v)
<1>1. CASE \E x \in Assets : Eligible(x, planned, count) /\ act = Unlock(x)
  BY <1>1 DEF Unlock, Eligible, ExposedBy
<1>2. CASE \E v \in Variants : act = Configure(v)
  BY <1>2 DEF Configure
<1> QED
  BY <1>1, <1>2 DEF Options, ConfigurationOptions

\* So in a plan, every action finds its dependencies in the binding or among what
\* the actions before it open, and nothing is unlocked that the binding has open.
LEMMA PlansInOrder ==
  ASSUME NEW b, NEW active, NEW acts \in Plans(b, active), NEW i \in DOMAIN acts
  PROVE  /\ acts[i].kind = "unlock" => acts[i].asset \notin b.unlocked
         /\ \/ /\ acts[i].kind = "unlock"
               /\ Deps[acts[i].asset] \subseteq
                    b.unlocked \cup UNION {ExposedBy(acts[k]) : k \in 1..(i - 1)}
            \/ \E v \in Variants : acts[i] = Configure(v)
<1>1. ASSUME NEW x \in FirstChoices(b, active), acts[1] = x
      PROVE  /\ x.kind = "unlock" => x.asset \notin b.unlocked
             /\ \/ x.kind = "unlock" /\ Deps[x.asset] \subseteq b.unlocked
                \/ \E v \in Variants : x = Configure(v)
  BY OptionsStand DEF FirstChoices
<1>2. CASE \E x \in FirstChoices(b, active) : acts = <<x>>
  <2>1. i = 1
    BY <1>2
  <2> QED
    BY <1>1, <1>2, <2>1
<1>3. CASE \E x \in FirstChoices(b, active) : \E y \in SecondChoices(b, active, x) : acts = <<x, y>>
  <2>0. PICK x \in FirstChoices(b, active) : \E y \in SecondChoices(b, active, x) : acts = <<x, y>>
    BY <1>3
  <2>1. PICK y \in SecondChoices(b, active, x) : acts = <<x, y>>
    BY <2>0
  <2>2. CASE i = 1
    BY <1>1, <2>1, <2>2
  <2>3. CASE i = 2
    <3>1. /\ y.kind = "unlock" => y.asset \notin b.unlocked \cup ExposedBy(x)
          /\ \/ y.kind = "unlock" /\ Deps[y.asset] \subseteq b.unlocked \cup ExposedBy(x)
             \/ \E v \in Variants : y = Configure(v)
      BY OptionsStand DEF SecondChoices
    <3>2. acts[1] = x /\ acts[2] = y /\ 1..(i - 1) = {1}
      BY <2>1, <2>3
    <3>3. ExposedBy(x) \subseteq UNION {ExposedBy(acts[k]) : k \in 1..(i - 1)}
      BY <3>2
    <3> QED
      BY <2>3, <3>1, <3>2, <3>3
  <2> QED
    BY <2>1, <2>2, <2>3
<1> QED
  BY <1>2, <1>3 DEF Plans

\* The same of what is left of a plan.
LEMMA JobsInOrder ==
  ASSUME NEW b, NEW active, NEW acts \in Plans(b, active), NEW i \in DOMAIN Limit(acts)
  PROVE  /\ Limit(acts)[i].kind = "unlock" => Limit(acts)[i].asset \notin b.unlocked
         /\ \/ /\ Limit(acts)[i].kind = "unlock"
               /\ Deps[Limit(acts)[i].asset] \subseteq
                    b.unlocked \cup UNION {ExposedBy(Limit(acts)[k]) : k \in 1..(i - 1)}
            \/ \E v \in Variants : Limit(acts)[i] = Configure(v)
<1>1. acts \in Seq(Action)
  BY PlansTyped
<1>2. /\ i \in DOMAIN acts /\ Limit(acts)[i] = acts[i]
      /\ \A k \in 1..(i - 1) : Limit(acts)[k] = acts[k]
  BY <1>1, LimitIsPrefix
<1>3. {ExposedBy(Limit(acts)[k]) : k \in 1..(i - 1)} = {ExposedBy(acts[k]) : k \in 1..(i - 1)}
  BY <1>2
<1> QED
  BY <1>2, <1>3, PlansInOrder

LEMMA UnlockedTyped ==
  ASSUME NEW acts \in Seq(Action) PROVE UnlockedBy(acts) \subseteq Assets
<1>1. ActionsIn(acts) \subseteq Action
  BY DEF ActionsIn
<1> QED
  BY <1>1 DEF UnlockedBy, Action

\* Applying actions keeps every binding's generation, closes nothing, and opens
\* what they unlock if the job's binding is still the latest.
LEMMA PerformOpens ==
  ASSUME binding \in [Attackers -> Binding],
         NEW j \in Job, NEW done \in Seq(Action), Perform(j, done)
  PROVE  /\ binding' \in [Attackers -> Binding]
         /\ \A a \in Attackers : /\ binding'[a].gen = binding[a].gen
                                 /\ binding[a].unlocked \subseteq binding'[a].unlocked
                                 /\ binding[a].revealed \subseteq binding'[a].revealed
                                 /\ a # j.attacker => binding'[a] = binding[a]
         /\ j.gen = binding[j.attacker].gen =>
              UnlockedBy(done) \subseteq binding'[j.attacker].unlocked
<1> DEFINE a == j.attacker
           exposed == UNION {ExposedBy(x) : x \in ActionsIn(done)}
           named == {x.id : x \in ActionsIn(done)} \ {None}
<1>1. a \in Attackers
  BY DEF Job
<1>2. ActionsIn(done) \subseteq Action
  BY DEF ActionsIn
<1>3. exposed \subseteq Assets /\ UnlockedBy(done) \subseteq exposed
  BY <1>2 DEF ExposedBy, UnlockedBy, Action
<1>4. named \subseteq Configs
  BY <1>2 DEF Action
<1>5. CASE done = <<>> \/ j.gen # binding[a].gen
  <2>1. binding' = binding
    BY <1>5 DEF Perform
  <2>2. done = <<>> => UnlockedBy(done) = {}
    BY DEF UnlockedBy, ActionsIn
  <2> QED
    BY <1>5, <2>1, <2>2
<1>6. CASE ~(done = <<>> \/ j.gen # binding[a].gen)
  <2> DEFINE new == [binding[a] EXCEPT !.unlocked = @ \cup exposed, !.revealed = @ \cup named]
  <2>1. binding' = [binding EXCEPT ![a] = new]
    BY <1>6 DEF Perform
  <2>2. /\ new \in Binding
        /\ new.gen = binding[a].gen
        /\ new.unlocked = binding[a].unlocked \cup exposed
        /\ new.revealed = binding[a].revealed \cup named
    <3>1. binding[a] \in Binding
      BY <1>1
    <3>2. exposed \in SUBSET Assets /\ named \in SUBSET Configs
      BY <1>3, <1>4
    <3>3. new = [binding[a] EXCEPT !.unlocked = @ \cup exposed, !.revealed = @ \cup named]
      OBVIOUS
    <3> HIDE DEF exposed, named, new
    <3> QED
      BY <3>1, <3>2, <3>3 DEF Binding
  <2> HIDE DEF new, exposed, named
  <2>3. /\ binding'[a] = new
        /\ \A b \in Attackers : b # a => binding'[b] = binding[b]
    BY <1>1, <2>1
  <2>4. binding' \in [Attackers -> Binding]
    BY <1>1, <2>1, <2>2
  <2> QED
    BY <1>1, <1>3, <2>2, <2>3, <2>4
<1> QED
  BY <1>5, <1>6

\* Resolving feedback touches nothing but the status of a row.
LEMMA ResolvedKeepsRows ==
  ASSUME TypeOK, NEW a \in Attackers
  PROVE  /\ Resolved[a] \in Seq(Row)
         /\ DOMAIN Resolved[a] = DOMAIN rows[a]
         /\ \A i \in DOMAIN rows[a] : /\ Resolved[a][i].asset = rows[a][i].asset
                                      /\ Resolved[a][i].batch = rows[a][i].batch
                                      /\ Resolved[a][i].gen = rows[a][i].gen
<1>1. rows[a] \in Seq(Row) /\ DOMAIN rows[a] = 1..Len(rows[a]) /\ Len(rows[a]) \in Nat
  BY DEF TypeOK
<1>2. \A i \in DOMAIN rows[a] : rows[a][i] \in Row
  BY <1>1
<1>3. ASSUME NEW i \in DOMAIN rows[a]
      PROVE  /\ Resolved[a][i] = [rows[a][i] EXCEPT !.status = Outcome(a, rows[a][i])]
             /\ Resolved[a][i] \in Row
             /\ Resolved[a][i].asset = rows[a][i].asset
             /\ Resolved[a][i].batch = rows[a][i].batch
             /\ Resolved[a][i].gen = rows[a][i].gen
  <2>1. Outcome(a, rows[a][i]) \in {"pending", "answered", "ignored"}
    BY <1>2, <1>3 DEF Outcome, Row
  <2> QED
    BY <1>2, <1>3, <2>1 DEF Resolved, Row
<1>4. Resolved[a] = [i \in 1..Len(rows[a]) |-> [rows[a][i] EXCEPT !.status = Outcome(a, rows[a][i])]]
  BY <1>1 DEF Resolved
<1>5. DOMAIN Resolved[a] = DOMAIN rows[a]
  BY <1>1, <1>4
<1>6. Resolved[a] \in [1..Len(rows[a]) -> Row]
  <2> HIDE DEF Resolved
  <2> QED
    BY <1>1, <1>3, <1>4
<1>7. Resolved[a] \in Seq(Row)
  <2>1. Resolved[a] \in UNION {[1..n -> Row] : n \in Nat}
    BY <1>1, <1>6
  <2> QED
    BY <2>1, SeqDef, Zenon
<1> QED
  BY <1>3, <1>5, <1>7

-------------------------------------------------------------------------------
(* Type correctness.                                                         *)

LEMMA InitTyped == Init => TypeOK
<1> SUFFICES ASSUME Init PROVE TypeOK
  OBVIOUS
<1>1. 0 \in 0..MaxClock /\ 0 \in 0..MaxRebinds /\ 1 \in Attackers
  BY DEF Attackers
<1>2. Fresh(0) \in Binding
  BY <1>1 DEF Fresh, Binding
<1>3. NoJob \in Job
  BY <1>1 DEF NoJob, Job
<1>4. binding \in [Attackers -> Binding]
  BY <1>2 DEF Init
<1>5. snap \in [Attackers -> [evidence : Nat, binding : Binding]]
  BY <1>4 DEF Init
<1>6. /\ evidence \in [Attackers -> Seq(Evidence)] /\ rows \in [Attackers -> Seq(Row)]
      /\ touches \in [Attackers -> SUBSET Assets] /\ processed \in [Attackers -> SUBSET Nat]
  BY DEF Init
<1>7. clock \in 0..MaxClock /\ turn \in 1..(N + 1)
  BY <1>1 DEF Init
<1>8. pc \in Places /\ feedbackTorn \in BOOLEAN /\ stateTorn \in BOOLEAN
  BY DEF Init, Places
<1>9. job \in Job /\ late \in SUBSET Job /\ unrecorded \in SUBSET Assets
  BY <1>3 DEF Init
<1> QED
  BY <1>4, <1>5, <1>6, <1>7, <1>8, <1>9 DEF TypeOK

\* What the attackers, their services and the clock do.
LEMMA EnvironmentTyped == TypeOK /\ Environment => TypeOK'
<1> SUFFICES ASSUME TypeOK, Environment PROVE TypeOK'
  OBVIOUS
<1>1. ASSUME NEW a \in Attackers, NEW x \in Assets \cup {None}, NewEvidence(a, x) PROVE TypeOK'
  <2>1. [asset |-> x, ts |-> clock] \in Evidence
    BY <1>1 DEF TypeOK, Evidence
  <2>2. evidence' \in [Attackers -> Seq(Evidence)]
    BY <1>1, <2>1, AppendProperties DEF NewEvidence, TypeOK
  <2> QED
    BY <1>1, <2>2 DEF NewEvidence, TypeOK, files, tick
<1>2. ASSUME NEW a \in Attackers, NEW x \in Assets, HttpTouch(a, x) PROVE TypeOK'
  BY <1>2 DEF HttpTouch, TypeOK, files, tick
<1>3. ASSUME NEW a \in Attackers, Rebind(a) PROVE TypeOK'
  <2>1. Fresh(binding[a].gen + 1) \in Binding
    <3>1. binding[a] \in Binding
      BY DEF TypeOK
    <3>2. binding[a].gen + 1 \in 0..MaxRebinds
      BY <1>3, <3>1 DEF Rebind, Binding
    <3> QED
      BY <3>2 DEF Fresh, Binding
  <2>2. binding' \in [Attackers -> Binding]
    BY <1>3, <2>1 DEF Rebind, TypeOK
  <2> QED
    BY <1>3, <2>2 DEF Rebind, TypeOK, files, tick
<1>4. CASE ClockTick
  BY <1>4, SMTT(30) DEF ClockTick, TypeOK, files, world, tick
<1> QED
  BY <1>1, <1>2, <1>3, <1>4 DEF Environment

\* Marking evidence as processed.
LEMMA MarkTyped ==
  ASSUME TypeOK, turn \in Attackers, MarkProcessed
  PROVE  /\ processed' \in [Attackers -> SUBSET Nat]
         /\ processed'[turn] = processed[turn] \cup CurrentIds
         /\ \A a \in Attackers : a # turn => processed'[a] = processed[a]
         /\ CurrentIds \subseteq 1..snap[turn].evidence
         /\ stateTorn' \in BOOLEAN /\ pc' = "saving"
<1>1. snap[turn].evidence \in Nat
  BY DEF TypeOK
<1>2. CurrentIds \subseteq 1..snap[turn].evidence
  BY <1>1, RecentIsBounded DEF CurrentIds, Snapshot
<1>3. processed \in [Attackers -> SUBSET Nat] /\ CurrentIds \in SUBSET Nat
  <2> HIDE DEF CurrentIds
  <2>1. processed \in [Attackers -> SUBSET Nat]
    BY DEF TypeOK
  <2>2. 1..snap[turn].evidence \subseteq Nat
    BY <1>1
  <2> QED
    BY <1>2, <2>1, <2>2
<1>4. processed' = [processed EXCEPT ![turn] = @ \cup CurrentIds]
  BY DEF MarkProcessed
<1> HIDE DEF CurrentIds
<1>5. stateTorn' \in BOOLEAN /\ pc' = "saving"
  BY DEF MarkProcessed
<1> QED
  BY <1>2, <1>3, <1>4, <1>5

\* One step of a tick.
LEMMA LoopStepTyped == TypeOK /\ InTurn /\ LoopStep => TypeOK'
<1> SUFFICES ASSUME TypeOK, InTurn, LoopStep PROVE TypeOK'
  OBVIOUS
<1> USE DEF files, world, tick
<1>1. CASE StartTick
  <2>1. snap' \in [Attackers -> [evidence : Nat, binding : Binding]]
    BY <1>1 DEF StartTick, TypeOK
  <2> QED
    BY <1>1, <2>1 DEF StartTick, TypeOK, Places
<1>2. CASE ResolveFeedback
  <2>1. Resolved \in [Attackers -> Seq(Row)]
    <3>1. DOMAIN Resolved = Attackers /\ Resolved = [a \in Attackers |-> Resolved[a]]
      BY DEF Resolved
    <3> HIDE DEF Resolved
    <3> QED
      BY <3>1, ResolvedKeepsRows
  <2> HIDE DEF Resolved
  <2>2. rows' \in [Attackers -> Seq(Row)] /\ feedbackTorn' \in BOOLEAN /\ pc' \in Places
    BY <1>2, <2>1 DEF ResolveFeedback, TypeOK, Places
  <2> QED
    BY <1>2, <2>2 DEF ResolveFeedback, TypeOK
<1>3. CASE DumpFeedback
  BY <1>3 DEF DumpFeedback, TypeOK, Places
<1>4. CASE LoadLoopState
  <2>1. processed' \in [Attackers -> SUBSET Nat] /\ turn' \in 1..(N + 1)
    BY <1>4 DEF LoadLoopState, TypeOK
  <2> QED
    BY <1>4, <2>1 DEF LoadLoopState, TypeOK, Places
<1>5. CASE EndTick
  BY <1>5 DEF EndTick, TypeOK, Places
<1>6. CASE SkipAttacker
  BY <1>6, SMTT(30) DEF SkipAttacker, TypeOK
<1>7. CASE BlockByGate
  <2>1. turn \in Attackers /\ MarkProcessed
    BY <1>7 DEF BlockByGate, FinishWithoutApply, TypeOK, Attackers
  <2> QED
    BY <1>7, <2>1, MarkTyped DEF BlockByGate, TypeOK, Places
<1>8. CASE PassGate
  BY <1>8 DEF PassGate, TypeOK, Places
<1>9. CASE AskController
  <2>1. turn \in Attackers
    BY <1>9 DEF AskController, InTurn
  <2>2. CASE MarkProcessed /\ UNCHANGED job
    BY <1>9, <2>1, <2>2, MarkTyped DEF AskController, TypeOK, Places
  <2>3. ASSUME NEW acts \in Plans(Snapshot.binding, RecentAssets(turn, Snapshot.evidence)),
               job' = [attacker |-> turn, gen |-> Snapshot.binding.gen,
                       acts |-> Limit(acts), ids |-> CurrentIds],
               pc' = "applying", UNCHANGED <<processed, stateTorn>>
        PROVE  TypeOK'
    <3>1. Limit(acts) \in Seq(Action)
      BY PlansTyped, LimitTyped
    <3>2. Snapshot.binding.gen \in 0..MaxRebinds /\ Snapshot.evidence \in Nat
      BY <2>1 DEF Snapshot, TypeOK, Binding
    <3>3. CurrentIds \in SUBSET Nat
      BY <3>2, RecentIsBounded DEF CurrentIds
    <3>4. job' \in Job
      BY <2>1, <2>3, <3>1, <3>2, <3>3 DEF Job
    <3> QED
      BY <1>9, <2>3, <3>4 DEF AskController, TypeOK, Places
  <2> QED
    BY <1>9, <2>2, <2>3 DEF AskController, FinishWithoutApply
<1>10. CASE Apply
  <2>1. job \in Job /\ job.acts \in Seq(Action)
    BY DEF TypeOK, Job
  <2>2. binding' \in [Attackers -> Binding]
    BY <1>10, <2>1, PerformOpens DEF Apply, TypeOK
  <2>3. unrecorded' \in SUBSET Assets
    BY <1>10, <2>1, UnlockedTyped DEF Apply
  <2> QED
    BY <1>10, <2>2, <2>3 DEF Apply, TypeOK, Places
<1>11. CASE RecordRow
  <2>1. CASE feedbackTorn
    <3>1. NoJob \in Job
      BY DEF NoJob, Job, Attackers
    <3>2. turn' \in 1..(N + 1)
      BY <1>11, <2>1 DEF RecordRow
    <3> QED
      BY <1>11, <2>1, <3>1, <3>2 DEF RecordRow, TypeOK, Places
  <2>2. ASSUME ~feedbackTorn, NEW x \in unrecorded,
               rows' = [rows EXCEPT ![job.attacker] = Append(@,
                 [asset |-> x, batch |-> UnlockedBy(job.acts), gen |-> job.gen,
                  ts |-> clock, status |-> "pending"])],
               unrecorded' = unrecorded \ {x}, UNCHANGED <<pc, turn, job>>
        PROVE  TypeOK'
    <3>1. [asset |-> x, batch |-> UnlockedBy(job.acts), gen |-> job.gen,
           ts |-> clock, status |-> "pending"] \in Row
      BY UnlockedTyped DEF TypeOK, Job, Row
    <3>2. job.attacker \in Attackers
      BY DEF TypeOK, Job
    <3>3. rows' \in [Attackers -> Seq(Row)]
      <4>1. rows \in [Attackers -> Seq(Row)]
        BY DEF TypeOK
      <4>2. Append(rows[job.attacker],
              [asset |-> x, batch |-> UnlockedBy(job.acts), gen |-> job.gen,
               ts |-> clock, status |-> "pending"]) \in Seq(Row)
        BY <3>1, <3>2, <4>1, AppendProperties
      <4> QED
        BY <2>2, <4>1, <4>2
    <3> QED
      BY <1>11, <2>2, <3>3 DEF RecordRow, TypeOK
  <2> QED
    BY <1>11, <2>1, <2>2 DEF RecordRow
<1>12. CASE MarkApplied
  <2>1. NoJob \in Job
    BY DEF NoJob, Job, Attackers
  <2>2. turn \in Attackers /\ MarkProcessed
    BY <1>12 DEF MarkApplied, InTurn
  <2>3. processed' \in [Attackers -> SUBSET Nat] /\ stateTorn' \in BOOLEAN /\ pc' \in Places
    BY <2>2, MarkTyped DEF Places
  <2> QED
    BY <1>12, <2>1, <2>3 DEF MarkApplied, TypeOK
<1>13. CASE DumpLoopState
  <2>1. turn \in 1..N
    BY <1>13 DEF DumpLoopState, InTurn, Attackers
  <2>2. turn' = turn + 1
    BY <1>13 DEF DumpLoopState
  <2>3. turn' \in 1..(N + 1)
    BY <2>1, <2>2
  <2> QED
    BY <1>13, <2>3 DEF DumpLoopState, TypeOK, Places
<1> QED
  BY <1>1, <1>2, <1>3, <1>4, <1>5, <1>6, <1>7, <1>8, <1>9, <1>10, <1>11, <1>12, <1>13 DEF LoopStep

\* Timeouts, late handlers and crashes.
LEMMA FailureTyped == TypeOK /\ Failure => TypeOK'
<1> SUFFICES ASSUME TypeOK, Failure PROVE TypeOK'
  OBVIOUS
<1> USE DEF files, world, tick
<1>1. NoJob \in Job /\ 1 \in 1..(N + 1)
  BY DEF NoJob, Job, Attackers
<1>2. CASE ControllerFails
  BY <1>1, <1>2 DEF ControllerFails, AbandonTick, TypeOK, Places
<1>3. CASE ApplyTimesOut
  BY <1>1, <1>3 DEF ApplyTimesOut, AbandonTick, TypeOK, Places
<1>4. ASSUME NEW j \in late, LateApply(j) PROVE TypeOK'
  <2>1. j \in Job /\ j.acts \in Seq(Action)
    BY DEF TypeOK, Job
  <2>2. PICK k \in 0..Len(j.acts) : Perform(j, SubSeq(j.acts, 1, k))
    BY <1>4 DEF LateApply
  <2>3. SubSeq(j.acts, 1, k) \in Seq(Action)
    BY <2>1, SubSeqProperties
  <2>4. binding' \in [Attackers -> Binding]
    BY <2>1, <2>2, <2>3, PerformOpens DEF TypeOK
  <2> QED
    BY <1>4, <2>4 DEF LateApply, TypeOK
<1>5. CASE Crash
  BY <1>1, <1>5 DEF Crash, AbandonTick, TypeOK, Places
<1> QED
  BY <1>2, <1>3, <1>4, <1>5 DEF Failure

-------------------------------------------------------------------------------
(* The invariant.                                                            *)

\* No step makes a binding go back to an earlier generation, or closes anything
\* without a new one; evidence is only added.
LEMMA BindingsMoveOn ==
  ASSUME TypeOK, Next
  PROVE  \A a \in Attackers :
           /\ Len(evidence[a]) <= Len(evidence'[a])
           /\ binding[a].gen <= binding'[a].gen
           /\ binding[a].gen = binding'[a].gen =>
                /\ binding[a].unlocked \subseteq binding'[a].unlocked
                /\ binding[a].revealed \subseteq binding'[a].revealed
<1> USE DEF files, world, tick
<1>1. ASSUME NEW a \in Attackers PROVE Len(evidence[a]) \in Nat /\ binding[a].gen \in Int
  <2>1. evidence[a] \in Seq(Evidence)
    BY DEF TypeOK
  <2>2. binding[a] \in Binding
    BY DEF TypeOK
  <2>3. binding[a].gen \in Int
    BY <2>2 DEF Binding
  <2> QED
    BY <2>1, <2>3
<1>2. CASE UNCHANGED <<evidence, binding>>
  BY <1>1, <1>2
<1>3. ASSUME NEW a \in Attackers, NEW x \in Assets \cup {None}, NewEvidence(a, x)
      PROVE  /\ UNCHANGED binding
             /\ \A b \in Attackers : Len(evidence[b]) <= Len(evidence'[b])
  <2>1. [asset |-> x, ts |-> clock] \in Evidence
    BY <1>3 DEF TypeOK, Evidence
  <2>2. evidence' = [evidence EXCEPT ![a] = Append(@, [asset |-> x, ts |-> clock])]
    BY <1>3 DEF NewEvidence
  <2>3. Len(evidence'[a]) = Len(evidence[a]) + 1
    BY <2>1, <2>2, AppendProperties DEF TypeOK
  <2> QED
    BY <1>1, <1>3, <2>2, <2>3 DEF NewEvidence, TypeOK
<1>4. ASSUME NEW a \in Attackers, Rebind(a)
      PROVE  /\ UNCHANGED evidence
             /\ \A b \in Attackers : b # a => binding'[b] = binding[b]
             /\ binding'[a].gen = binding[a].gen + 1
  BY <1>4 DEF Rebind, Fresh, TypeOK
<1>5. ASSUME NEW j \in Job, NEW done \in Seq(Action), Perform(j, done)
      PROVE  \A b \in Attackers : /\ binding'[b].gen = binding[b].gen
                                  /\ binding[b].unlocked \subseteq binding'[b].unlocked
                                  /\ binding[b].revealed \subseteq binding'[b].revealed
  BY <1>5, PerformOpens DEF TypeOK
<1>6. CASE LoopStep
  <2>1. CASE Apply
    <3>1. job \in Job /\ job.acts \in Seq(Action) /\ Perform(job, job.acts) /\ UNCHANGED evidence
      BY <2>1 DEF Apply, TypeOK, Job
    <3> QED
      BY <1>1, <1>5, <3>1
  <2>2. CASE ~Apply
    <3>1. UNCHANGED <<evidence, binding>>
      BY <1>6, <2>2 DEF LoopStep, StartTick, ResolveFeedback, DumpFeedback, LoadLoopState, EndTick,
        SkipAttacker, BlockByGate, PassGate, AskController, RecordRow, MarkApplied, DumpLoopState
    <3> QED
      BY <1>2, <3>1
  <2> QED
    BY <2>1, <2>2
<1>7. CASE Environment
  <2>1. CASE \E a \in Attackers : Rebind(a)
    <3>1. PICK a \in Attackers : Rebind(a)
      BY <2>1
    <3>2. /\ UNCHANGED evidence
          /\ \A b \in Attackers : b # a => binding'[b] = binding[b]
          /\ binding'[a].gen = binding[a].gen + 1
      BY <1>4, <3>1
    <3>3. SUFFICES ASSUME NEW b \in Attackers
                   PROVE  /\ Len(evidence[b]) <= Len(evidence'[b])
                          /\ binding[b].gen <= binding'[b].gen
                          /\ binding[b].gen = binding'[b].gen =>
                               /\ binding[b].unlocked \subseteq binding'[b].unlocked
                               /\ binding[b].revealed \subseteq binding'[b].revealed
      OBVIOUS
    <3>4. Len(evidence[b]) \in Int /\ binding[b].gen \in Int
      BY <1>1
    <3>5. Len(evidence[b]) <= Len(evidence'[b])
      BY <3>2, <3>4
    <3>6. CASE b = a
      BY <3>2, <3>4, <3>5, <3>6
    <3>7. CASE b # a
      BY <3>2, <3>4, <3>5, <3>7
    <3> QED
      BY <3>6, <3>7
  <2>2. CASE \E a \in Attackers, x \in Assets \cup {None} : NewEvidence(a, x)
    BY <1>1, <1>3, <2>2
  <2>3. CASE (\E a \in Attackers, x \in Assets : HttpTouch(a, x)) \/ ClockTick
    BY <1>2, <2>3 DEF HttpTouch, ClockTick
  <2> QED
    BY <1>7, <2>1, <2>2, <2>3 DEF Environment
<1>8. CASE Failure
  <2>1. ASSUME NEW j \in late, LateApply(j)
        PROVE  /\ UNCHANGED evidence
               /\ \A b \in Attackers : /\ binding'[b].gen = binding[b].gen
                                       /\ binding[b].unlocked \subseteq binding'[b].unlocked
                                       /\ binding[b].revealed \subseteq binding'[b].revealed
    <3>1. j \in Job /\ j.acts \in Seq(Action)
      BY DEF TypeOK, Job
    <3>2. PICK k \in 0..Len(j.acts) : Perform(j, SubSeq(j.acts, 1, k))
      BY <2>1 DEF LateApply
    <3>3. SubSeq(j.acts, 1, k) \in Seq(Action)
      BY <3>1, SubSeqProperties
    <3> QED
      BY <1>5, <2>1, <3>1, <3>2, <3>3 DEF LateApply
  <2>2. CASE ControllerFails \/ ApplyTimesOut \/ Crash
    BY <1>2, <2>2 DEF ControllerFails, ApplyTimesOut, Crash
  <2> QED
    BY <1>1, <1>8, <2>1, <2>2 DEF Failure
<1> QED
  BY <1>6, <1>7, <1>8 DEF Next

LEMMA TypeStep == TypeOK /\ InTurn /\ Next => TypeOK'
BY LoopStepTyped, EnvironmentTyped, FailureTyped DEF Next

LEMMA InTurnStep == TypeOK /\ InTurn /\ Next => InTurn'
<1> SUFFICES ASSUME TypeOK, InTurn, Next PROVE InTurn'
  OBVIOUS
<1> USE DEF InTurn, files, world, tick
<1>1. CASE LoopStep
  <2>1. CASE BlockByGate \/ PassGate
    <3>1. turn \in 1..(N + 1) /\ turn <= N /\ UNCHANGED turn
      BY <2>1 DEF BlockByGate, PassGate, TypeOK
    <3> QED
      BY <3>1 DEF Attackers
  <2>2. CASE AskController \/ MarkApplied
    BY <2>2 DEF AskController, FinishWithoutApply, MarkApplied, MarkProcessed
  <2>3. CASE StartTick \/ ResolveFeedback \/ DumpFeedback \/ LoadLoopState \/ EndTick
             \/ SkipAttacker \/ DumpLoopState
    BY <2>3 DEF StartTick, ResolveFeedback, DumpFeedback, LoadLoopState, EndTick, SkipAttacker, DumpLoopState
  <2>4. CASE Apply \/ RecordRow
    BY <2>4 DEF Apply, RecordRow
  <2> QED
    BY <1>1, <2>1, <2>2, <2>3, <2>4 DEF LoopStep
<1>2. CASE Environment
  BY <1>2 DEF Environment, NewEvidence, HttpTouch, Rebind, ClockTick
<1>3. CASE Failure
  BY <1>3 DEF Failure, ControllerFails, ApplyTimesOut, LateApply, Crash, AbandonTick
<1> QED
  BY <1>1, <1>2, <1>3 DEF Next

\* The only ways the processed ids change.
LEMMA ProcessedMoves ==
  ASSUME TypeOK, InTurn, Next
  PROVE  \/ UNCHANGED processed
         \/ processed' = [a \in Attackers |-> {}]
         \/ turn \in Attackers /\ MarkProcessed
<1> USE DEF files, world, tick
<1>1. CASE LoopStep
  <2>1. CASE BlockByGate
    <3>1. turn \in 1..(N + 1) /\ turn <= N /\ MarkProcessed
      BY <2>1 DEF BlockByGate, FinishWithoutApply, TypeOK
    <3> QED
      BY <3>1 DEF Attackers
  <2>2. CASE AskController \/ MarkApplied
    BY <2>2 DEF AskController, FinishWithoutApply, MarkApplied, InTurn
  <2>3. CASE StartTick \/ ResolveFeedback \/ DumpFeedback \/ LoadLoopState \/ EndTick
             \/ SkipAttacker \/ DumpLoopState
    BY <2>3 DEF StartTick, ResolveFeedback, DumpFeedback, LoadLoopState, EndTick, SkipAttacker, DumpLoopState
  <2>4. CASE PassGate \/ Apply \/ RecordRow
    BY <2>4 DEF PassGate, Apply, RecordRow
  <2> QED
    BY <1>1, <2>1, <2>2, <2>3, <2>4 DEF LoopStep
<1>2. CASE Environment
  BY <1>2 DEF Environment, NewEvidence, HttpTouch, Rebind, ClockTick
<1>3. CASE Failure
  BY <1>3 DEF Failure, ControllerFails, ApplyTimesOut, LateApply, Crash
<1> QED
  BY <1>1, <1>2, <1>3 DEF Next

\* Snapshots are taken by StartTick and only fall behind afterwards.
LEMMA SnapshotMoves ==
  ASSUME TypeOK, Next
  PROVE  \/ UNCHANGED snap
         \/ /\ snap' = [a \in Attackers |-> [evidence |-> Len(evidence[a]), binding |-> binding[a]]]
            /\ UNCHANGED processed
<1> USE DEF files, world, tick
<1>1. CASE LoopStep
  <2>1. CASE StartTick
    BY <2>1 DEF StartTick
  <2>2. CASE ~StartTick
    BY <1>1, <2>2 DEF LoopStep, ResolveFeedback, DumpFeedback, LoadLoopState, EndTick,
        SkipAttacker, BlockByGate, PassGate, AskController, Apply, RecordRow, MarkApplied, DumpLoopState
  <2> QED
    BY <2>1, <2>2
<1>2. CASE Environment
  BY <1>2 DEF Environment, NewEvidence, HttpTouch, Rebind, ClockTick
<1>3. CASE Failure
  BY <1>3 DEF Failure, ControllerFails, ApplyTimesOut, LateApply, Crash
<1> QED
  BY <1>1, <1>2, <1>3 DEF Next

LEMMA SnapshotsStep ==
  TypeOK /\ SnapshotsLag /\ UnseenStaysNew /\ InTurn /\ Next => SnapshotsLag' /\ UnseenStaysNew'
<1> SUFFICES ASSUME TypeOK, SnapshotsLag, UnseenStaysNew, InTurn, Next
             PROVE  SnapshotsLag' /\ UnseenStaysNew'
  OBVIOUS
<1>1. ASSUME NEW a \in Attackers
      PROVE  /\ Len(evidence[a]) \in Nat
             /\ snap[a].evidence \in Nat
             /\ snap[a].binding.gen \in Int
             /\ binding[a].gen \in Int
  <2>1. evidence[a] \in Seq(Evidence) /\ binding[a] \in Binding
    BY DEF TypeOK
  <2>2. snap[a].evidence \in Nat /\ snap[a].binding \in Binding
    BY DEF TypeOK
  <2>3. \A b \in Binding : b.gen \in Int
    BY DEF Binding
  <2> QED
    BY <2>1, <2>2, <2>3
<1>2. ASSUME NEW a \in Attackers
      PROVE  Len(evidence'[a]) \in Nat /\ binding'[a].gen \in Int
  <2>1. TypeOK'
    BY TypeStep
  <2>2. evidence' \in [Attackers -> Seq(Evidence)] /\ binding' \in [Attackers -> Binding]
    BY <2>1 DEF TypeOK
  <2>3. evidence'[a] \in Seq(Evidence) /\ binding'[a] \in Binding
    BY <1>2, <2>2
  <2> QED
    BY <2>3 DEF Binding
<1>3. CASE UNCHANGED snap
  <2>1. ASSUME NEW a \in Attackers
        PROVE  /\ snap'[a].evidence <= Len(evidence'[a])
               /\ snap'[a].binding.gen <= binding'[a].gen
    <3>1. Len(evidence[a]) <= Len(evidence'[a]) /\ binding[a].gen <= binding'[a].gen
      BY <2>1, BindingsMoveOn
    <3>2. snap[a].evidence <= Len(evidence[a]) /\ snap[a].binding.gen <= binding[a].gen
      BY <2>1 DEF SnapshotsLag
    <3>3. /\ snap'[a].evidence = snap[a].evidence
          /\ snap'[a].binding.gen = snap[a].binding.gen
      BY <1>3
    <3>4. /\ Len(evidence[a]) \in Int /\ Len(evidence'[a]) \in Int /\ snap[a].evidence \in Int
          /\ snap[a].binding.gen \in Int /\ binding[a].gen \in Int /\ binding'[a].gen \in Int
      BY <1>1, <1>2, <2>1
    <3>5. snap'[a].evidence <= Len(evidence'[a])
      <4>1. \A x, y, z \in Int : x <= y /\ y <= z => x <= z
        OBVIOUS
      <4>2. snap[a].evidence <= Len(evidence'[a])
        BY <3>1, <3>2, <3>4, <4>1, Zenon
      <4> QED
        BY <3>3, <4>2, Zenon
    <3>6. snap'[a].binding.gen <= binding'[a].gen
      <4>1. \A x, y, z \in Int : x <= y /\ y <= z => x <= z
        OBVIOUS
      <4>2. snap[a].binding.gen <= binding'[a].gen
        BY <3>1, <3>2, <3>4, <4>1, Zenon
      <4> QED
        BY <3>3, <4>2, Zenon
    <3> QED
      BY <3>5, <3>6
  <2>2. ASSUME UNCHANGED processed \/ processed' = [a \in Attackers |-> {}]
        PROVE  UnseenStaysNew'
    BY <1>3, <2>2 DEF UnseenStaysNew
  <2>3. ASSUME turn \in Attackers, MarkProcessed, NEW a \in Attackers
        PROVE  processed'[a] \subseteq 1..snap'[a].evidence
    <3>1. processed[a] \subseteq 1..snap[a].evidence
      BY <2>3 DEF UnseenStaysNew
    <3>2. /\ processed'[turn] = processed[turn] \cup CurrentIds
          /\ CurrentIds \subseteq 1..snap[turn].evidence
          /\ a # turn => processed'[a] = processed[a]
      BY <2>3, MarkTyped
    <3> HIDE DEF CurrentIds
    <3> QED
      BY <1>3, <3>1, <3>2
  <2>4. SnapshotsLag'
    BY <2>1 DEF SnapshotsLag
  <2>5. UnseenStaysNew'
    BY <2>2, <2>3, ProcessedMoves DEF UnseenStaysNew
  <2> QED
    BY <2>4, <2>5
<1>4. CASE /\ snap' = [a \in Attackers |-> [evidence |-> Len(evidence[a]), binding |-> binding[a]]]
           /\ UNCHANGED processed
  <2>1. ASSUME NEW a \in Attackers
        PROVE  /\ snap'[a].evidence = Len(evidence[a])
               /\ snap'[a].binding = binding[a]
               /\ processed'[a] = processed[a]
    BY <1>4, <2>1
  <2>2. ASSUME NEW a \in Attackers
        PROVE  /\ snap'[a].evidence <= Len(evidence'[a])
               /\ snap'[a].binding.gen <= binding'[a].gen
    BY <2>1, <2>2, BindingsMoveOn
  <2>3. ASSUME NEW a \in Attackers
        PROVE  processed'[a] \subseteq 1..snap'[a].evidence
    <3>1. /\ processed[a] \subseteq 1..snap[a].evidence
          /\ snap[a].evidence <= Len(evidence[a])
      BY <2>3 DEF SnapshotsLag, UnseenStaysNew
    <3>2. \A m, n \in Int : m <= n => 1..m \subseteq 1..n
      OBVIOUS
    <3>3. 1..snap[a].evidence \subseteq 1..Len(evidence[a])
      <4>1. snap[a].evidence \in Int /\ Len(evidence[a]) \in Int
        BY <1>1, <2>3
      <4> QED
        BY <3>1, <3>2, <4>1, Zenon
    <3> QED
      BY <2>1, <2>3, <3>1, <3>3, Zenon
  <2> QED
    BY <2>2, <2>3 DEF SnapshotsLag, UnseenStaysNew
<1> QED
  BY <1>3, <1>4, SnapshotMoves

\* The row of asset x is appended to its attacker's.
RowOf(x) ==
  [asset |-> x, batch |-> UnlockedBy(job.acts), gen |-> job.gen, ts |-> clock, status |-> "pending"]
RecordsRow(x) ==
  /\ pc = "recording" /\ ~feedbackTorn
  /\ rows' = [rows EXCEPT ![job.attacker] = Append(@, RowOf(x))]
  /\ unrecorded' = unrecorded \ {x}
  /\ UNCHANGED <<binding, evidence, touches, used, lastReveal, pc, job, turn, snap, processed, late>>

\* Rows come from ResolveFeedback, which keeps what they name, and RecordRow.
LEMMA RowsMove ==
  ASSUME TypeOK, Next
  PROVE  \/ UNCHANGED rows
         \/ rows' = Resolved
         \/ \E x \in unrecorded : RecordsRow(x)
<1> USE DEF files, world, tick
<1>1. CASE LoopStep
  <2>1. CASE ResolveFeedback
    BY <2>1 DEF ResolveFeedback
  <2>2. CASE RecordRow
    BY <2>2 DEF RecordRow, RecordsRow, RowOf
  <2>3. CASE ~ResolveFeedback /\ ~RecordRow
    BY <1>1, <2>3 DEF LoopStep, StartTick, DumpFeedback, LoadLoopState, EndTick,
        SkipAttacker, BlockByGate, PassGate, AskController, Apply, MarkApplied, DumpLoopState
  <2> QED
    BY <2>1, <2>2, <2>3
<1>2. CASE Environment
  BY <1>2 DEF Environment, NewEvidence, HttpTouch, Rebind, ClockTick
<1>3. CASE Failure
  BY <1>3 DEF Failure, ControllerFails, ApplyTimesOut, LateApply, Crash
<1> QED
  BY <1>1, <1>2, <1>3 DEF Next

\* Whose rows a row is added to, and where.
LEMMA RowAdded ==
  ASSUME TypeOK, NEW x \in unrecorded, RecordsRow(x), NEW a \in Attackers
  PROVE  /\ a # job.attacker => rows'[a] = rows[a]
         /\ a = job.attacker =>
              /\ DOMAIN rows'[a] = 1..(Len(rows[a]) + 1)
              /\ Len(rows'[a]) = Len(rows[a]) + 1
              /\ \A i \in 1..Len(rows[a]) : rows'[a][i] = rows[a][i]
              /\ rows'[a][Len(rows[a]) + 1] = RowOf(x)
<1>1. RowOf(x) \in Row
  BY UnlockedTyped DEF TypeOK, Job, Row, RowOf
<1>2. rows \in [Attackers -> Seq(Row)]
  BY DEF TypeOK
<1>3. rows' = [rows EXCEPT ![job.attacker] = Append(@, RowOf(x))]
  BY DEF RecordsRow
<1>4. a # job.attacker => rows'[a] = rows[a]
  BY <1>2, <1>3
<1>5. ASSUME a = job.attacker
      PROVE  /\ DOMAIN rows'[a] = 1..(Len(rows[a]) + 1)
             /\ Len(rows'[a]) = Len(rows[a]) + 1
             /\ \A i \in 1..Len(rows[a]) : rows'[a][i] = rows[a][i]
             /\ rows'[a][Len(rows[a]) + 1] = RowOf(x)
  <2>1. rows'[a] = Append(rows[a], RowOf(x))
    BY <1>2, <1>3, <1>5
  <2> QED
    BY <1>1, <1>2, <2>1, AppendProperties
<1> QED
  BY <1>4, <1>5

\* A row that was truthful and of a known generation stays so when bindings move.
LEMMA RowStaysTruthful ==
  ASSUME TypeOK, Next, NEW a \in Attackers, NEW row \in Row, TypeOK',
         row.gen <= binding[a].gen,
         row.gen = binding[a].gen => row.batch \subseteq binding[a].unlocked
  PROVE  /\ row.gen <= binding'[a].gen
         /\ row.gen = binding'[a].gen => row.batch \subseteq binding'[a].unlocked
<1>1. binding \in [Attackers -> Binding] /\ binding' \in [Attackers -> Binding]
  BY DEF TypeOK
<1>2. binding[a].gen \in Int /\ binding'[a].gen \in Int /\ row.gen \in Int
  BY <1>1 DEF Binding, Row
<1>3. /\ binding[a].gen <= binding'[a].gen
      /\ binding[a].gen = binding'[a].gen => binding[a].unlocked \subseteq binding'[a].unlocked
  BY BindingsMoveOn
<1>4. row.gen <= binding'[a].gen
  BY <1>2, <1>3
<1>5. row.gen = binding'[a].gen => row.gen = binding[a].gen
  BY <1>2, <1>3
<1> QED
  BY <1>3, <1>4, <1>5

\* Both invariants about rows.
LEMMA RowsStep ==
  BaseInv /\ Next => /\ RowsNameOpenAssets'
                     /\ \A a \in Attackers : \A i \in DOMAIN rows'[a] : rows'[a][i].gen <= binding'[a].gen
<1> SUFFICES ASSUME BaseInv, Next, NEW a \in Attackers, NEW i \in DOMAIN rows'[a]
             PROVE  /\ rows'[a][i].asset \in rows'[a][i].batch
                    /\ rows'[a][i].gen = binding'[a].gen => rows'[a][i].batch \subseteq binding'[a].unlocked
                    /\ rows'[a][i].gen <= binding'[a].gen
  BY DEF RowsNameOpenAssets
<1>1. TypeOK /\ TypeOK'
  BY TypeStep DEF BaseInv
<1>2. rows[a] \in Seq(Row) /\ DOMAIN rows[a] = 1..Len(rows[a]) /\ Len(rows[a]) \in Nat
  BY <1>1 DEF TypeOK
<1>3. ASSUME NEW k \in DOMAIN rows[a],
             rows'[a][i].asset = rows[a][k].asset,
             rows'[a][i].batch = rows[a][k].batch,
             rows'[a][i].gen = rows[a][k].gen
      PROVE  /\ rows'[a][i].asset \in rows'[a][i].batch
             /\ rows'[a][i].gen = binding'[a].gen => rows'[a][i].batch \subseteq binding'[a].unlocked
             /\ rows'[a][i].gen <= binding'[a].gen
  <2>1. rows[a][k] \in Row
    BY <1>2, <1>3
  <2>2. /\ rows[a][k].asset \in rows[a][k].batch
        /\ rows[a][k].gen = binding[a].gen => rows[a][k].batch \subseteq binding[a].unlocked
        /\ rows[a][k].gen <= binding[a].gen
    BY <1>3 DEF BaseInv, RowsNameOpenAssets, NothingAhead
  <2> QED
    BY <1>1, <1>3, <2>1, <2>2, RowStaysTruthful
<1>4. CASE UNCHANGED rows
  BY <1>3, <1>4
<1>5. CASE rows' = Resolved
  BY <1>1, <1>3, <1>5, ResolvedKeepsRows
<1>6. ASSUME NEW x \in unrecorded, RecordsRow(x)
      PROVE  /\ rows'[a][i].asset \in rows'[a][i].batch
             /\ rows'[a][i].gen = binding'[a].gen => rows'[a][i].batch \subseteq binding'[a].unlocked
             /\ rows'[a][i].gen <= binding'[a].gen
  <2>1. CASE a # job.attacker
    BY <1>1, <1>3, <1>6, <2>1, RowAdded
  <2>2. CASE a = job.attacker
    <3>1. /\ DOMAIN rows'[a] = 1..(Len(rows[a]) + 1)
          /\ \A k \in 1..Len(rows[a]) : rows'[a][k] = rows[a][k]
          /\ rows'[a][Len(rows[a]) + 1] = RowOf(x)
      BY <1>1, <1>6, <2>2, RowAdded
    <3>2. CASE i \in 1..Len(rows[a])
      BY <1>2, <1>3, <3>1, <3>2
    <3>3. i \in 1..Len(rows[a]) \/ i = Len(rows[a]) + 1
      BY <1>2, <3>1
    <3>4. CASE i = Len(rows[a]) + 1
      <4>1. /\ rows'[a][i].asset = x
            /\ rows'[a][i].batch = UnlockedBy(job.acts)
            /\ rows'[a][i].gen = job.gen
        BY <3>1, <3>4 DEF RowOf
      <4>2. pc = "recording" /\ UNCHANGED binding
        BY <1>6 DEF RecordsRow
      <4>3. x \in UnlockedBy(job.acts) /\ job.gen <= binding[a].gen
        BY <2>2, <4>2 DEF BaseInv, JobDone, NothingAhead
      <4>4. job.gen = binding[a].gen => UnlockedBy(job.acts) \subseteq binding[a].unlocked
        BY <2>2, <4>2 DEF BaseInv, JobDone
      <4> QED
        BY <4>1, <4>2, <4>3, <4>4
    <3> QED
      BY <3>2, <3>3, <3>4
  <2> QED
    BY <2>1, <2>2
<1> QED
  BY <1>1, <1>4, <1>5, <1>6, RowsMove

\* Jobs come from AskController, which reads the snapshot; they are handed over or
\* dropped, never changed.
LEMMA JobsMove ==
  ASSUME TypeOK, InTurn, Next, NEW j \in late' \cup {job'}
  PROVE  \/ j \in late \cup {job}
         \/ j = NoJob
         \/ /\ turn \in Attackers /\ UNCHANGED binding
            /\ \E acts \in Plans(Snapshot.binding, RecentAssets(turn, Snapshot.evidence)) :
                 j = [attacker |-> turn, gen |-> Snapshot.binding.gen,
                      acts |-> Limit(acts), ids |-> CurrentIds]
<1> USE DEF files, world, tick
<1>1. CASE LoopStep
  <2>1. CASE AskController
    <3>1. turn \in Attackers
      BY <2>1 DEF AskController, InTurn
    <3> QED
      BY <2>1, <3>1 DEF AskController
  <2>2. CASE MarkApplied \/ RecordRow
    BY <2>2 DEF MarkApplied, RecordRow
  <2>3. CASE ~AskController /\ ~MarkApplied /\ ~RecordRow
    BY <1>1, <2>3 DEF LoopStep, StartTick, ResolveFeedback, DumpFeedback, LoadLoopState, EndTick,
        SkipAttacker, BlockByGate, PassGate, Apply, DumpLoopState
  <2> QED
    BY <2>1, <2>2, <2>3
<1>2. CASE Environment
  BY <1>2 DEF Environment, NewEvidence, HttpTouch, Rebind, ClockTick
<1>3. CASE Failure
  BY <1>3 DEF Failure, ControllerFails, ApplyTimesOut, LateApply, Crash, AbandonTick
<1> QED
  BY <1>1, <1>2, <1>3 DEF Next

LEMMA JobStep ==
  BaseInv /\ Next => \A j \in late' \cup {job'} : j.gen <= binding'[j.attacker].gen
<1> SUFFICES ASSUME BaseInv, Next, NEW j \in late' \cup {job'}
             PROVE  j.gen <= binding'[j.attacker].gen
  OBVIOUS
<1>1. TypeOK /\ TypeOK' /\ InTurn
  BY TypeStep DEF BaseInv
<1>2. ASSUME NEW a \in Attackers PROVE binding[a].gen \in Int /\ binding'[a].gen \in Int
  <2>1. binding[a] \in Binding /\ binding'[a] \in Binding
    BY <1>1, <1>2 DEF TypeOK
  <2> QED
    BY <2>1 DEF Binding
<1>3. ASSUME NEW a \in Attackers, NEW n \in Int, n <= binding[a].gen PROVE n <= binding'[a].gen
  <2>1. binding[a].gen <= binding'[a].gen
    BY <1>1, <1>3, BindingsMoveOn
  <2> QED
    BY <1>2, <1>3, <2>1
<1>4. CASE j \in late \cup {job}
  <2>1. j.attacker \in Attackers /\ j.gen \in Int
    <3>1. j \in Job
      BY <1>1, <1>4 DEF TypeOK
    <3> QED
      BY <3>1 DEF Job
  <2>2. j.gen <= binding[j.attacker].gen
    BY <1>4 DEF BaseInv, NothingAhead
  <2> QED
    BY <1>3, <2>1, <2>2
<1>5. CASE j = NoJob
  <2>1. 1 \in Attackers
    BY DEF Attackers
  <2>2. binding'[1] \in Binding
    BY <1>1, <2>1 DEF TypeOK
  <2> QED
    BY <1>5, <2>2 DEF NoJob, Binding
<1>6. CASE turn \in Attackers /\ j.attacker = turn /\ j.gen = snap[turn].binding.gen
  <2>1. snap[turn].binding.gen <= binding[turn].gen
    BY <1>6 DEF BaseInv, SnapshotsLag
  <2>2. snap[turn].binding \in Binding
    BY <1>1, <1>6 DEF TypeOK
  <2>3. snap[turn].binding.gen \in Int
    BY <2>2 DEF Binding
  <2> QED
    BY <1>3, <1>6, <2>1, <2>3
<1>7. \/ j \in late \cup {job}
      \/ j = NoJob
      \/ turn \in Attackers /\ j.attacker = turn /\ j.gen = snap[turn].binding.gen
  BY <1>1, JobsMove DEF Snapshot
<1> QED
  BY <1>4, <1>5, <1>6, <1>7

\* Rows are written after Apply, for its job.
LEMMA RecordingMoves ==
  ASSUME Next, pc' = "recording"
  PROVE  \/ Apply
         \/ pc = "recording" /\ UNCHANGED job /\ unrecorded' \subseteq unrecorded
<1> USE DEF files, world, tick
<1>1. CASE LoopStep
  <2>1. CASE RecordRow
    BY <2>1 DEF RecordRow
  <2>2. CASE ~Apply /\ ~RecordRow
    BY <1>1, <2>2 DEF LoopStep, StartTick, ResolveFeedback, DumpFeedback, LoadLoopState, EndTick,
        SkipAttacker, BlockByGate, PassGate, AskController, FinishWithoutApply, MarkApplied, MarkProcessed, DumpLoopState
  <2> QED
    BY <2>1, <2>2
<1>2. CASE Environment
  BY <1>2 DEF Environment, NewEvidence, HttpTouch, Rebind, ClockTick
<1>3. CASE Failure
  BY <1>3 DEF Failure, ControllerFails, ApplyTimesOut, LateApply, Crash, AbandonTick
<1> QED
  BY <1>1, <1>2, <1>3 DEF Next

LEMMA JobDoneStep == BaseInv /\ Next => JobDone'
<1> SUFFICES ASSUME BaseInv, Next, pc' = "recording"
             PROVE  /\ unrecorded' \subseteq UnlockedBy(job'.acts)
                    /\ job'.gen = binding'[job'.attacker].gen =>
                         UnlockedBy(job'.acts) \subseteq binding'[job'.attacker].unlocked
  BY DEF JobDone, UnlockedBy, ActionsIn
<1>1. TypeOK /\ TypeOK' /\ InTurn
  BY TypeStep DEF BaseInv
<1>2. job \in Job /\ job.acts \in Seq(Action) /\ job.attacker \in Attackers
  BY <1>1 DEF TypeOK, Job
<1>3. CASE Apply
  <2>1. Perform(job, job.acts) /\ unrecorded' = UnlockedBy(job.acts) /\ UNCHANGED job
    BY <1>3 DEF Apply
  <2>2. /\ binding'[job.attacker].gen = binding[job.attacker].gen
        /\ job.gen = binding[job.attacker].gen =>
             UnlockedBy(job.acts) \subseteq binding'[job.attacker].unlocked
    BY <1>1, <1>2, <2>1, PerformOpens DEF TypeOK
  <2> QED
    BY <2>1, <2>2
<1>4. CASE pc = "recording" /\ UNCHANGED job /\ unrecorded' \subseteq unrecorded
  <2>1. /\ unrecorded \subseteq UnlockedBy(job.acts)
        /\ job.gen <= binding[job.attacker].gen
        /\ job.gen = binding[job.attacker].gen =>
             UnlockedBy(job.acts) \subseteq binding[job.attacker].unlocked
    BY <1>4 DEF BaseInv, JobDone, NothingAhead
  <2>2. /\ binding[job.attacker].gen <= binding'[job.attacker].gen
        /\ binding[job.attacker].gen = binding'[job.attacker].gen =>
             binding[job.attacker].unlocked \subseteq binding'[job.attacker].unlocked
    BY <1>1, <1>2, BindingsMoveOn
  <2>3. binding[job.attacker] \in Binding /\ binding'[job.attacker] \in Binding
    BY <1>1, <1>2 DEF TypeOK
  <2>4. job.gen \in Int /\ binding[job.attacker].gen \in Int /\ binding'[job.attacker].gen \in Int
    BY <1>2, <2>3 DEF Job, Binding
  <2>5. job.gen = binding'[job.attacker].gen => job.gen = binding[job.attacker].gen
    BY <2>1, <2>2, <2>4
  <2> QED
    BY <1>4, <2>1, <2>2, <2>5
<1> QED
  BY <1>3, <1>4, RecordingMoves

\* The base of the invariant holds at the start and is kept by every step.
LEMMA BaseInit == Init => BaseInv
<1> SUFFICES ASSUME Init PROVE BaseInv
  OBVIOUS
<1>1. TypeOK
  BY InitTyped
<1>2. 1 \in Attackers
  BY DEF Attackers
<1>3. SnapshotsLag
  BY DEF Init, SnapshotsLag, Fresh
<1>4. NothingAhead
  BY <1>2 DEF Init, NothingAhead, NoJob, Fresh
<1>5. InTurn /\ JobDone /\ UnseenStaysNew /\ RowsNameOpenAssets
  BY DEF Init, InTurn, JobDone, UnseenStaysNew, RowsNameOpenAssets
<1> QED
  BY <1>1, <1>3, <1>4, <1>5 DEF BaseInv

LEMMA BaseStep == BaseInv /\ [Next]_vars => BaseInv'
<1> SUFFICES ASSUME BaseInv, [Next]_vars PROVE BaseInv'
  OBVIOUS
<1>1. CASE Next
  <2>1. TypeOK' /\ InTurn' /\ SnapshotsLag' /\ UnseenStaysNew'
    BY <1>1, TypeStep, InTurnStep, SnapshotsStep DEF BaseInv
  <2>2. RowsNameOpenAssets' /\ NothingAhead'
    BY <1>1, RowsStep, JobStep DEF NothingAhead
  <2>3. JobDone'
    BY <1>1, JobDoneStep
  <2> QED
    BY <2>1, <2>2, <2>3 DEF BaseInv
<1>2. CASE UNCHANGED vars
  <2>1. UNCHANGED <<clock, evidence, touches, binding, rows, feedbackTorn, processed, stateTorn,
                    pc, snap, turn, job, unrecorded, late>>
    BY <1>2 DEF vars, files, world, tick
  <2>2. TypeOK'
    BY <2>1 DEF BaseInv, TypeOK
  <2>3. InTurn' /\ SnapshotsLag' /\ NothingAhead'
    BY <2>1 DEF BaseInv, InTurn, SnapshotsLag, NothingAhead
  <2>4. JobDone' /\ UnseenStaysNew'
    BY <2>1 DEF BaseInv, JobDone, UnseenStaysNew, UnlockedBy, ActionsIn
  <2>5. RowsNameOpenAssets'
    BY <2>1 DEF BaseInv, RowsNameOpenAssets
  <2> QED
    BY <2>2, <2>3, <2>4, <2>5 DEF BaseInv
<1> QED
  BY <1>1, <1>2


-------------------------------------------------------------------------------
(* Rows and dependencies.                                                    *)

\* Turns go forward within a tick, and snapshots are only taken before it.
LEMMA AheadMoves ==
  ASSUME TypeOK, Next, NEW a \in Attackers, Ahead(a)'
  PROVE  StartTick \/ (Ahead(a) /\ UNCHANGED snap)
<1> USE DEF files, world, tick
<1>1. a \in Int /\ turn \in Int
  BY DEF Attackers, TypeOK
<1>2. CASE LoopStep
  <2>1. CASE LoadLoopState \/ ResolveFeedback \/ DumpFeedback
    BY <2>1 DEF LoadLoopState, ResolveFeedback, DumpFeedback, Ahead
  <2>2. CASE EndTick \/ SkipAttacker
    BY <1>1, <2>2 DEF EndTick, SkipAttacker, Ahead
  <2>3. CASE BlockByGate \/ PassGate
    BY <1>1, <2>3 DEF BlockByGate, PassGate, FinishWithoutApply, MarkProcessed, Ahead
  <2>4. CASE AskController \/ Apply
    BY <1>1, <2>4 DEF AskController, FinishWithoutApply, MarkProcessed, Apply, Ahead
  <2>5. CASE RecordRow
    BY <1>1, <2>5 DEF RecordRow, Ahead
  <2>6. CASE MarkApplied \/ DumpLoopState
    BY <1>1, <2>6 DEF MarkApplied, MarkProcessed, DumpLoopState, Ahead
  <2> QED
    BY <1>2, <2>1, <2>2, <2>3, <2>4, <2>5, <2>6 DEF LoopStep
<1>3. CASE Environment
  BY <1>3 DEF Environment, NewEvidence, HttpTouch, Rebind, ClockTick, Ahead
<1>4. CASE Failure
  BY <1>4 DEF Failure, ControllerFails, ApplyTimesOut, LateApply, Crash, AbandonTick, Ahead
<1> QED
  BY <1>2, <1>3, <1>4 DEF Next

\* What is being applied is what the controller has answered.
LEMMA ApplyingMoves ==
  ASSUME TypeOK, InTurn, Next, pc' = "applying"
  PROVE  /\ UNCHANGED <<turn, snap>>
         /\ \/ pc = "applying" /\ UNCHANGED job
            \/ /\ pc = "asking" /\ turn \in Attackers
               /\ \E acts \in Plans(Snapshot.binding, RecentAssets(turn, Snapshot.evidence)) :
                    job' = [attacker |-> turn, gen |-> Snapshot.binding.gen,
                            acts |-> Limit(acts), ids |-> CurrentIds]
<1> USE DEF files, world, tick
<1>1. CASE LoopStep
  <2>1. CASE AskController
    <3>1. turn \in Attackers
      BY <2>1 DEF AskController, InTurn
    <3> QED
      BY <2>1, <3>1 DEF AskController, FinishWithoutApply, MarkProcessed
  <2>2. CASE ~AskController
    BY <1>1, <2>2 DEF LoopStep, StartTick, ResolveFeedback, DumpFeedback, LoadLoopState, EndTick,
        SkipAttacker, BlockByGate, PassGate, FinishWithoutApply, Apply, RecordRow, MarkApplied,
        MarkProcessed, DumpLoopState
  <2> QED
    BY <2>1, <2>2
<1>2. CASE Environment
  BY <1>2 DEF Environment, NewEvidence, HttpTouch, Rebind, ClockTick
<1>3. CASE Failure
  BY <1>3 DEF Failure, ControllerFails, ApplyTimesOut, LateApply, Crash, AbandonTick
<1> QED
  BY <1>1, <1>2, <1>3 DEF Next

\* Recording belongs to the same turn, and begins with Apply.
LEMMA RecordingKeeps ==
  ASSUME Next, pc' = "recording"
  PROVE  /\ UNCHANGED <<turn, snap, job>>
         /\ \/ pc = "recording"
            \/ /\ pc = "applying" /\ Perform(job, job.acts) /\ UNCHANGED <<rows, late>>
               /\ unrecorded' = UnlockedBy(job.acts)
<1> USE DEF files, world, tick
<1>1. CASE LoopStep
  <2>1. CASE RecordRow
    BY <2>1 DEF RecordRow
  <2>2. CASE Apply
    BY <2>2 DEF Apply
  <2>3. CASE ~Apply /\ ~RecordRow
    BY <1>1, <2>3 DEF LoopStep, StartTick, ResolveFeedback, DumpFeedback, LoadLoopState, EndTick,
        SkipAttacker, BlockByGate, PassGate, AskController, FinishWithoutApply, MarkApplied, MarkProcessed, DumpLoopState
  <2> QED
    BY <2>1, <2>2, <2>3
<1>2. CASE Environment
  BY <1>2 DEF Environment, NewEvidence, HttpTouch, Rebind, ClockTick
<1>3. CASE Failure
  BY <1>3 DEF Failure, ControllerFails, ApplyTimesOut, LateApply, Crash, AbandonTick
<1> QED
  BY <1>1, <1>2, <1>3 DEF Next

LEMMA SnapshotKnowsRowsStep ==
  BaseInv /\ SnapshotKnowsRows /\ JobOfTurn /\ Next => SnapshotKnowsRows'
<1> SUFFICES ASSUME BaseInv, SnapshotKnowsRows, JobOfTurn, Next, NEW a \in Attackers, Ahead(a)',
                    NEW i \in DOMAIN rows'[a], rows'[a][i].gen = snap'[a].binding.gen
             PROVE  rows'[a][i].asset \in snap'[a].binding.unlocked
  BY DEF SnapshotKnowsRows, Ahead
<1>1. TypeOK
  BY DEF BaseInv
<1>2. CASE StartTick
  <2>1. UNCHANGED rows /\ snap'[a].binding = binding[a]
    BY <1>2 DEF StartTick, files
  <2>2. rows[a][i].asset \in rows[a][i].batch /\ rows[a][i].batch \subseteq binding[a].unlocked
    BY <2>1 DEF BaseInv, RowsNameOpenAssets
  <2> QED
    BY <2>1, <2>2
<1>3. CASE Ahead(a) /\ UNCHANGED snap
  <2>1. ASSUME NEW k \in DOMAIN rows[a], rows[a][k].gen = snap[a].binding.gen
        PROVE  rows[a][k].asset \in snap[a].binding.unlocked
    BY <1>3, <2>1 DEF SnapshotKnowsRows
  <2>2. CASE rows'[a] = rows[a]
    BY <1>3, <2>1, <2>2
  <2>3. CASE rows' = Resolved
    BY <1>1, <1>3, <2>1, <2>3, ResolvedKeepsRows
  <2>4. ASSUME NEW x \in unrecorded, RecordsRow(x) PROVE rows'[a] = rows[a]
    <3>1. pc = "recording" /\ turn < a /\ job.attacker = turn
      BY <1>3, <2>4 DEF Ahead, JobOfTurn, RecordsRow
    <3>2. a # job.attacker
      BY <1>1, <3>1 DEF TypeOK, Attackers
    <3> QED
      BY <1>1, <2>4, <3>2, RowAdded
  <2> QED
    BY <1>1, <2>2, <2>3, <2>4, RowsMove
<1> QED
  BY <1>1, <1>2, <1>3, AheadMoves

LEMMA JobOfTurnStep == BaseInv /\ JobOfTurn /\ Next => JobOfTurn'
<1> SUFFICES ASSUME BaseInv, JobOfTurn, Next, pc' \in {"applying", "recording"}
             PROVE  job'.attacker = turn' /\ job'.gen = snap'[turn'].binding.gen
  BY DEF JobOfTurn
<1>1. CASE pc' = "applying"
  BY <1>1, ApplyingMoves DEF BaseInv, JobOfTurn, Snapshot
<1>2. CASE pc' = "recording"
  BY <1>2, RecordingKeeps DEF JobOfTurn
<1> QED
  BY <1>1, <1>2

LEMMA JobOpensNewStep == BaseInv /\ JobOpensNew /\ Next => JobOpensNew'
<1> SUFFICES ASSUME BaseInv, JobOpensNew, Next, pc' = "applying"
             PROVE  UnlockedBy(job'.acts) \cap snap'[turn'].binding.unlocked = {}
  BY DEF JobOpensNew, UnlockedBy, ActionsIn
<1>1. CASE pc = "applying" /\ UNCHANGED <<turn, snap, job>>
  BY <1>1 DEF JobOpensNew
<1>2. ASSUME NEW acts \in Plans(Snapshot.binding, RecentAssets(turn, Snapshot.evidence)),
             job'.acts = Limit(acts), UNCHANGED <<turn, snap>>
      PROVE  UnlockedBy(job'.acts) \cap snap'[turn'].binding.unlocked = {}
  <2>1. \A i \in DOMAIN Limit(acts) :
          Limit(acts)[i].kind = "unlock" => Limit(acts)[i].asset \notin Snapshot.binding.unlocked
    BY JobsInOrder
  <2> QED
    BY <1>2, <2>1 DEF UnlockedBy, ActionsIn, Snapshot
<1> QED
  BY <1>1, <1>2, ApplyingMoves DEF BaseInv

LEMMA RowsToComeStep ==
  BaseInv /\ SnapshotKnowsRows /\ JobOfTurn /\ JobOpensNew /\ RowsToCome /\ Next => RowsToCome'
<1> SUFFICES ASSUME BaseInv, SnapshotKnowsRows, JobOfTurn, JobOpensNew, RowsToCome, Next,
                    pc' = "recording", NEW i \in DOMAIN rows'[job'.attacker],
                    rows'[job'.attacker][i].gen = job'.gen
             PROVE  rows'[job'.attacker][i].asset \notin unrecorded'
  BY DEF RowsToCome
<1> DEFINE a == job.attacker
<1>1. TypeOK /\ InTurn /\ a \in Attackers /\ rows[a] \in Seq(Row)
  BY DEF BaseInv, TypeOK, Job
<1>2. UNCHANGED <<turn, snap, job>>
  BY RecordingKeeps
<1>3. CASE pc = "applying" /\ UNCHANGED rows /\ unrecorded' = UnlockedBy(job.acts)
  <2>1. Ahead(a) /\ job.gen = snap[a].binding.gen /\ a = turn
    BY <1>1, <1>3 DEF Ahead, JobOfTurn, Attackers
  <2>2. rows[a][i].asset \in snap[a].binding.unlocked
    BY <1>1, <1>2, <1>3, <2>1 DEF SnapshotKnowsRows
  <2> QED
    BY <1>2, <1>3, <2>1, <2>2 DEF JobOpensNew
<1>4. CASE pc = "recording" /\ unrecorded' \subseteq unrecorded
  <2>1. ASSUME NEW k \in DOMAIN rows[a], rows[a][k].gen = job.gen
        PROVE  rows[a][k].asset \notin unrecorded
    BY <1>4, <2>1 DEF RowsToCome
  <2>2. CASE UNCHANGED rows
    BY <1>2, <1>4, <2>1, <2>2
  <2>3. CASE rows' = Resolved
    BY <1>1, <1>2, <1>4, <2>1, <2>3, ResolvedKeepsRows
  <2>4. ASSUME NEW x \in unrecorded, RecordsRow(x)
        PROVE  rows'[job'.attacker][i].asset \notin unrecorded'
    <3>0. unrecorded' = unrecorded \ {x}
      BY <2>4 DEF RecordsRow
    <3>1. /\ DOMAIN rows'[a] = 1..(Len(rows[a]) + 1)
          /\ \A k \in 1..Len(rows[a]) : rows'[a][k] = rows[a][k]
          /\ rows'[a][Len(rows[a]) + 1] = RowOf(x)
      BY <1>1, <2>4, RowAdded
    <3>2. RowOf(x).asset = x
      BY DEF RowOf
    <3>3. i \in 1..Len(rows[a]) \/ i = Len(rows[a]) + 1
      <4>1. i \in DOMAIN rows'[a]
        BY <1>2
      <4>2. i \in 1..(Len(rows[a]) + 1) /\ Len(rows[a]) \in Nat
        BY <1>1, <3>1, <4>1
      <4> QED
        BY <4>2
    <3>4. CASE i \in 1..Len(rows[a])
      <4>1. i \in DOMAIN rows[a] /\ rows'[a][i] = rows[a][i]
        BY <1>1, <3>1, <3>4
      <4> QED
        BY <1>2, <2>1, <3>0, <4>1
    <3>5. CASE i = Len(rows[a]) + 1
      BY <1>2, <3>0, <3>1, <3>2, <3>5
    <3> QED
      BY <3>3, <3>4, <3>5
  <2> QED
    BY <1>1, <2>2, <2>3, <2>4, RowsMove
<1> QED
  BY <1>3, <1>4, RecordingKeeps, RecordingMoves DEF Apply

LEMMA OneRowStep == BaseInv /\ RowsToCome /\ OneRowPerAsset /\ Next => OneRowPerAsset'
<1> SUFFICES ASSUME BaseInv, RowsToCome, OneRowPerAsset, Next, NEW a \in Attackers,
                    NEW i \in DOMAIN rows'[a], NEW j \in DOMAIN rows'[a],
                    rows'[a][i].asset = rows'[a][j].asset, rows'[a][i].gen = rows'[a][j].gen
             PROVE  i = j
  BY DEF OneRowPerAsset
<1>1. TypeOK /\ rows[a] \in Seq(Row)
  BY DEF BaseInv, TypeOK
<1>2. ASSUME NEW k \in DOMAIN rows[a], NEW m \in DOMAIN rows[a],
             rows[a][k].asset = rows[a][m].asset, rows[a][k].gen = rows[a][m].gen
      PROVE  k = m
  BY <1>2 DEF OneRowPerAsset
<1>3. CASE rows'[a] = rows[a]
  BY <1>2, <1>3
<1>4. CASE rows' = Resolved
  BY <1>1, <1>2, <1>4, ResolvedKeepsRows
<1>5. ASSUME a = job.attacker, NEW x \in unrecorded, RecordsRow(x)
      PROVE  i = j
  <2>1. /\ DOMAIN rows'[a] = 1..(Len(rows[a]) + 1)
        /\ \A k \in 1..Len(rows[a]) : rows'[a][k] = rows[a][k]
        /\ rows'[a][Len(rows[a]) + 1].asset = x
        /\ rows'[a][Len(rows[a]) + 1].gen = job.gen
    <3>1. RowOf(x).asset = x /\ RowOf(x).gen = job.gen
      BY DEF RowOf
    <3> QED
      BY <1>1, <1>5, <3>1, RowAdded
  <2>2. \A k \in 1..Len(rows[a]) : rows[a][k].gen = job.gen => rows[a][k].asset # x
    <3>1. pc = "recording"
      BY <1>5 DEF RecordsRow
    <3> QED
      BY <1>1, <1>5, <3>1 DEF RowsToCome
  <2>3. i \in 1..Len(rows[a]) \/ i = Len(rows[a]) + 1
    BY <1>1, <2>1
  <2>4. j \in 1..Len(rows[a]) \/ j = Len(rows[a]) + 1
    BY <1>1, <2>1
  <2>5. CASE i \in 1..Len(rows[a]) /\ j \in 1..Len(rows[a])
    <3>1. rows'[a][i] = rows[a][i] /\ rows'[a][j] = rows[a][j]
      BY <2>1, <2>5
    <3>2. i \in DOMAIN rows[a] /\ j \in DOMAIN rows[a]
      BY <1>1, <2>5
    <3> QED
      BY <1>2, <3>1, <3>2
  <2> QED
    BY <2>1, <2>2, <2>3, <2>4, <2>5
<1>6. ASSUME a # job.attacker, NEW x \in unrecorded, RecordsRow(x)
      PROVE  rows'[a] = rows[a]
  BY <1>1, <1>6, RowAdded
<1> QED
  BY <1>1, <1>3, <1>4, <1>5, <1>6, RowsMove

\* The only ways a binding changes: it is replaced, or a job reaches it, whole or
\* in part.
LEMMA BindingMoves ==
  ASSUME TypeOK, Next
  PROVE  \/ UNCHANGED binding
         \/ \E a \in Attackers : Rebind(a)
         \/ \E j \in late \cup {job} : \E k \in 0..Len(j.acts) : Perform(j, SubSeq(j.acts, 1, k))
<1> USE DEF files, world, tick
<1>1. CASE LoopStep
  <2>1. CASE Apply
    <3>1. job.acts \in Seq(Action)
      BY DEF TypeOK, Job
    <3>2. SubSeq(job.acts, 1, Len(job.acts)) = job.acts /\ Len(job.acts) \in 0..Len(job.acts)
      BY <3>1
    <3>3. Perform(job, job.acts)
      BY <2>1 DEF Apply
    <3>4. Perform(job, SubSeq(job.acts, 1, Len(job.acts)))
      BY <3>2, <3>3, Zenon
    <3> QED
      BY <3>2, <3>4
  <2>2. CASE ~Apply
    BY <1>1, <2>2 DEF LoopStep, StartTick, ResolveFeedback, DumpFeedback, LoadLoopState, EndTick,
        SkipAttacker, BlockByGate, PassGate, AskController, RecordRow, MarkApplied, DumpLoopState
  <2> QED
    BY <2>1, <2>2
<1>2. CASE Environment
  <2>1. CASE \E a \in Attackers : Rebind(a)
    BY <2>1
  <2>2. CASE ~\E a \in Attackers : Rebind(a)
    BY <1>2, <2>2 DEF Environment, NewEvidence, HttpTouch, ClockTick
  <2> QED
    BY <2>1, <2>2
<1>3. CASE Failure
  <2>1. ASSUME NEW j \in late, LateApply(j)
        PROVE  \E k \in 0..Len(j.acts) : Perform(j, SubSeq(j.acts, 1, k))
    BY <2>1 DEF LateApply
  <2>2. CASE ControllerFails \/ ApplyTimesOut \/ Crash
    BY <2>2 DEF ControllerFails, ApplyTimesOut, Crash
  <2> QED
    BY <1>3, <2>1, <2>2 DEF Failure
<1> QED
  BY <1>1, <1>2, <1>3 DEF Next

\* What a job does to the binding it is for, when it gets as far as its k-th action.
LEMMA PerformedPrefix ==
  ASSUME TypeOK, NEW j \in Job, NEW k \in 0..Len(j.acts), Perform(j, SubSeq(j.acts, 1, k))
  PROVE  \/ UNCHANGED binding
         \/ /\ j.gen = binding[j.attacker].gen
            /\ \A a \in Attackers : a # j.attacker => binding'[a] = binding[a]
            /\ binding'[j.attacker].gen = binding[j.attacker].gen
            /\ binding'[j.attacker].unlocked =
                 binding[j.attacker].unlocked \cup UNION {ExposedBy(j.acts[i]) : i \in 1..k}
            /\ binding'[j.attacker].revealed =
                 binding[j.attacker].revealed \cup ({j.acts[i].id : i \in 1..k} \ {None})
<1> DEFINE done == SubSeq(j.acts, 1, k)
           a == j.attacker
<1>1. j.acts \in Seq(Action) /\ a \in Attackers
  BY DEF Job
<1>2. ActionsIn(done) = {j.acts[i] : i \in 1..k}
  <2>1. DOMAIN done = 1..k /\ \A i \in 1..k : done[i] = j.acts[i]
    BY <1>1
  <2>2. ActionsIn(done) = {done[i] : i \in DOMAIN done}
    BY DEF ActionsIn
  <2> HIDE DEF done
  <2>3. ASSUME NEW y PROVE y \in {done[i] : i \in DOMAIN done} <=> y \in {j.acts[i] : i \in 1..k}
    BY <2>1
  <2>4. {done[i] : i \in DOMAIN done} = {j.acts[i] : i \in 1..k}
    BY <2>3, Zenon
  <2> QED
    BY <2>2, <2>4, Zenon
<1> HIDE DEF done
<1>3. CASE done = <<>> \/ j.gen # binding[a].gen
  BY <1>3 DEF Perform, done
<1>4. CASE ~(done = <<>> \/ j.gen # binding[a].gen)
  <2> DEFINE exposed == UNION {ExposedBy(x) : x \in ActionsIn(done)}
             named == {x.id : x \in ActionsIn(done)} \ {None}
             new == [binding[a] EXCEPT !.unlocked = @ \cup exposed, !.revealed = @ \cup named]
  <2>1. binding' = [binding EXCEPT ![a] = new]
    BY <1>4 DEF Perform, done
  <2>2. exposed = UNION {ExposedBy(j.acts[i]) : i \in 1..k}
    BY <1>2
  <2>3. named = {j.acts[i].id : i \in 1..k} \ {None}
    BY <1>2
  <2>4. binding \in [Attackers -> Binding] /\ binding[a] \in Binding
    BY <1>1 DEF TypeOK
  <2> HIDE DEF exposed, named
  <2>5. /\ new.gen = binding[a].gen
        /\ new.unlocked = binding[a].unlocked \cup exposed
        /\ new.revealed = binding[a].revealed \cup named
    BY <2>4 DEF Binding
  <2> HIDE DEF new
  <2>6. binding'[a] = new /\ \A b \in Attackers : b # a => binding'[b] = binding[b]
    BY <1>1, <2>1, <2>4
  <2> QED
    BY <1>4, <2>2, <2>3, <2>5, <2>6
<1> QED
  BY <1>3, <1>4

LEMMA SnapshotsBehindStep == BaseInv /\ SnapshotsBehind /\ Next => SnapshotsBehind'
<1> SUFFICES ASSUME BaseInv, SnapshotsBehind, Next, NEW a \in Attackers,
                    snap'[a].binding.gen = binding'[a].gen
             PROVE  snap'[a].binding.unlocked \subseteq binding'[a].unlocked
  BY DEF SnapshotsBehind
<1>1. /\ binding[a].gen <= binding'[a].gen
      /\ binding[a].gen = binding'[a].gen => binding[a].unlocked \subseteq binding'[a].unlocked
  BY BindingsMoveOn DEF BaseInv
<1>2. /\ binding[a].gen \in Int /\ binding'[a].gen \in Int
      /\ snap[a].binding.gen \in Int /\ snap[a].binding.gen <= binding[a].gen
  <2>1. TypeOK /\ TypeOK'
    BY TypeStep DEF BaseInv
  <2>2. binding[a] \in Binding /\ binding'[a] \in Binding /\ snap[a].binding \in Binding
    BY <2>1 DEF TypeOK
  <2> QED
    BY <2>2 DEF Binding, BaseInv, SnapshotsLag
<1>3. CASE UNCHANGED snap
  BY <1>1, <1>2, <1>3 DEF SnapshotsBehind
<1>4. CASE snap'[a].binding = binding[a]
  BY <1>1, <1>4
<1> QED
  BY <1>3, <1>4, SnapshotMoves DEF BaseInv

\* What a job finds in its order: the dependencies of its i-th action.
InOrder(j, i) ==
  \/ j.acts[i].kind = "unlock" /\ Deps[j.acts[i].asset] \subseteq OpenedBefore(j, i)
  \/ \E v \in Variants : j.acts[i] = Configure(v)

LEMMA PlansStandStep == BaseInv /\ SnapshotsBehind /\ PlansStand /\ Next => PlansStand'
<1> SUFFICES ASSUME BaseInv, SnapshotsBehind, PlansStand, Next, NEW j \in late' \cup {job'},
                    j.gen = binding'[j.attacker].gen, NEW i \in DOMAIN j.acts
             PROVE  \/ j.acts[i].kind = "unlock" /\ Deps[j.acts[i].asset] \subseteq OpenedBefore(j, i)'
                    \/ \E v \in Variants : j.acts[i] = Configure(v)
  BY DEF PlansStand, OpenedBefore
<1> DEFINE a == j.attacker
           before == UNION {ExposedBy(j.acts[k]) : k \in 1..(i - 1)}
<1>1. TypeOK /\ TypeOK' /\ InTurn
  BY TypeStep DEF BaseInv
<1>2. OpenedBefore(j, i)' = binding'[a].unlocked \cup before
  BY DEF OpenedBefore
<1>3. CASE j \in late \cup {job}
  <2>1. j \in Job
    BY <1>1, <1>3 DEF TypeOK
  <2>2. a \in Attackers /\ j.gen \in Int
    BY <2>1 DEF Job
  <2>3. /\ binding[a].gen <= binding'[a].gen
        /\ binding[a].gen = binding'[a].gen => binding[a].unlocked \subseteq binding'[a].unlocked
    BY <1>1, <2>2, BindingsMoveOn
  <2>4. j.gen <= binding[a].gen
    BY <1>3 DEF BaseInv, NothingAhead
  <2>5. binding[a] \in Binding /\ binding'[a] \in Binding
    BY <1>1, <2>2 DEF TypeOK
  <2>6. binding[a].gen \in Int /\ binding'[a].gen \in Int
    BY <2>5 DEF Binding
  <2>7. j.gen = binding[a].gen /\ binding[a].unlocked \subseteq binding'[a].unlocked
    BY <2>2, <2>3, <2>4, <2>6
  <2>8. OpenedBefore(j, i) = binding[a].unlocked \cup before
    BY DEF OpenedBefore
  <2>9. InOrder(j, i)
    BY <1>3, <2>7 DEF PlansStand, InOrder
  <2> HIDE DEF before
  <2> QED
    BY <1>2, <2>7, <2>8, <2>9 DEF InOrder
<1>4. CASE j = NoJob
  BY <1>4 DEF NoJob
<1>5. ASSUME turn \in Attackers, UNCHANGED binding,
             NEW acts \in Plans(Snapshot.binding, RecentAssets(turn, Snapshot.evidence)),
             j = [attacker |-> turn, gen |-> Snapshot.binding.gen,
                  acts |-> Limit(acts), ids |-> CurrentIds]
      PROVE  \/ j.acts[i].kind = "unlock" /\ Deps[j.acts[i].asset] \subseteq OpenedBefore(j, i)'
             \/ \E v \in Variants : j.acts[i] = Configure(v)
  <2>1. a = turn /\ j.acts = Limit(acts) /\ j.gen = snap[turn].binding.gen
    BY <1>5 DEF Snapshot
  <2>2. i \in DOMAIN Limit(acts)
    BY <2>1
  <2>3. \/ /\ Limit(acts)[i].kind = "unlock"
           /\ Deps[Limit(acts)[i].asset] \subseteq
                Snapshot.binding.unlocked \cup UNION {ExposedBy(Limit(acts)[k]) : k \in 1..(i - 1)}
        \/ \E v \in Variants : Limit(acts)[i] = Configure(v)
    BY <2>2, JobsInOrder
  <2>4. \/ /\ j.acts[i].kind = "unlock"
           /\ Deps[j.acts[i].asset] \subseteq Snapshot.binding.unlocked \cup before
        \/ \E v \in Variants : j.acts[i] = Configure(v)
    BY <2>1, <2>3
  <2>5. Snapshot.binding.unlocked \subseteq binding'[a].unlocked
    BY <1>5, <2>1 DEF SnapshotsBehind, Snapshot
  <2> HIDE DEF before
  <2> QED
    BY <1>2, <2>4, <2>5
<1> QED
  BY <1>1, <1>3, <1>4, <1>5, JobsMove

LEMMA DependenciesStep == BaseInv /\ DependenciesHold /\ PlansStand /\ Next => DependenciesHold'
<1> SUFFICES ASSUME BaseInv, DependenciesHold, PlansStand, Next,
                    NEW a \in Attackers, NEW x \in binding'[a].unlocked
             PROVE  \/ Deps[x] \subseteq binding'[a].unlocked
                    \/ \E v \in Variants : v.id \in binding'[a].revealed /\ v.target = x
  BY DEF DependenciesHold
<1>1. TypeOK
  BY DEF BaseInv
<1>2. ASSUME x \in binding[a].unlocked, binding[a].unlocked \subseteq binding'[a].unlocked,
             binding[a].revealed \subseteq binding'[a].revealed
      PROVE  \/ Deps[x] \subseteq binding'[a].unlocked
             \/ \E v \in Variants : v.id \in binding'[a].revealed /\ v.target = x
  BY <1>2 DEF DependenciesHold
<1>3. CASE UNCHANGED binding
  BY <1>2, <1>3
<1>4. ASSUME NEW b \in Attackers, Rebind(b)
      PROVE  binding'[a] = binding[a] \/ binding'[a].unlocked = {}
  BY <1>1, <1>4 DEF Rebind, Fresh, TypeOK
<1>5. ASSUME NEW j \in late \cup {job}, NEW k \in 0..Len(j.acts), Perform(j, SubSeq(j.acts, 1, k)),
             binding' # binding
      PROVE  \/ Deps[x] \subseteq binding'[a].unlocked
             \/ \E v \in Variants : v.id \in binding'[a].revealed /\ v.target = x
  <2>1. j \in Job /\ j.acts \in Seq(Action)
    BY <1>1 DEF TypeOK, Job
  <2> DEFINE b == j.attacker
  <2>2. /\ j.gen = binding[b].gen
        /\ \A c \in Attackers : c # b => binding'[c] = binding[c]
        /\ binding'[b].unlocked =
             binding[b].unlocked \cup UNION {ExposedBy(j.acts[i]) : i \in 1..k}
        /\ binding'[b].revealed =
             binding[b].revealed \cup ({j.acts[i].id : i \in 1..k} \ {None})
    BY <1>1, <1>5, <2>1, PerformedPrefix
  <2>3. CASE x \in binding[a].unlocked
    <3>1. /\ binding[a].unlocked \subseteq binding'[a].unlocked
          /\ binding[a].revealed \subseteq binding'[a].revealed
      BY <2>2
    <3> QED
      BY <1>2, <2>3, <3>1
  <2>4. CASE x \notin binding[a].unlocked
    <3>1. a = b
      BY <2>2, <2>4
    <3>2. PICK i \in 1..k : x \in ExposedBy(j.acts[i])
      BY <2>2, <2>4, <3>1
    <3>3. i \in DOMAIN j.acts /\ 1..(i - 1) \subseteq 1..k
      BY <2>1
    <3>4. InOrder(j, i)
      BY <2>2, <3>3 DEF PlansStand, InOrder
    <3>5. OpenedBefore(j, i) \subseteq binding'[a].unlocked
      BY <2>2, <3>1, <3>3 DEF OpenedBefore
    <3>6. CASE j.acts[i].kind = "unlock" /\ Deps[j.acts[i].asset] \subseteq OpenedBefore(j, i)
      BY <3>2, <3>5, <3>6 DEF ExposedBy
    <3>7. ASSUME NEW v \in Variants, j.acts[i] = Configure(v)
          PROVE  v.id \in binding'[a].revealed /\ v.target = x
      <4>1. j.acts[i].kind = "configure" /\ j.acts[i].id = v.id /\ j.acts[i].target = v.target
        BY <3>7 DEF Configure
      <4>2. v.id # None
        BY DEF Configs
      <4> QED
        BY <2>2, <3>1, <3>2, <4>1, <4>2 DEF ExposedBy
    <3> QED
      BY <3>4, <3>6, <3>7 DEF InOrder
  <2> QED
    BY <2>3, <2>4
<1> QED
  BY <1>1, <1>2, <1>3, <1>4, <1>5, BindingMoves

LEMMA RevealStep == BaseInv /\ RevealInv /\ Next => RevealInv'
BY SnapshotKnowsRowsStep, JobOfTurnStep, JobOpensNewStep, RowsToComeStep, OneRowStep,
   SnapshotsBehindStep, PlansStandStep, DependenciesStep DEF RevealInv

LEMMA RevealInit == Init => RevealInv
<1> SUFFICES ASSUME Init PROVE RevealInv
  OBVIOUS
<1>1. OneRowPerAsset /\ SnapshotKnowsRows
  BY DEF Init, OneRowPerAsset, SnapshotKnowsRows
<1>2. JobOfTurn /\ JobOpensNew /\ RowsToCome
  BY DEF Init, JobOfTurn, JobOpensNew, RowsToCome
<1>3. DependenciesHold /\ SnapshotsBehind
  BY DEF Init, DependenciesHold, SnapshotsBehind, Fresh
<1>4. PlansStand
  BY DEF Init, PlansStand, NoJob
<1> QED
  BY <1>1, <1>2, <1>3, <1>4 DEF RevealInv

-------------------------------------------------------------------------------
(* Undisturbed runs.                                                         *)

CalmInv ==
  /\ NothingLeftBehind /\ UsedIsMarked /\ JobIsNew
  /\ TouchesAreKnown /\ SnapshotIsCurrent /\ LastBatchIsLastReveal
  /\ AnswersAreTouches /\ GateWasOpen

\* Faults are counted, so an undisturbed state has an undisturbed past, and was
\* reached by the loop and its surroundings alone.
LEMMA CalmSteps ==
  ASSUME HistoryOK, Next, Undisturbed', Undisturbed => NothingLeftBehind
  PROVE  Undisturbed /\ (LoopStep \/ Environment)
<1> USE DEF files, world, tick
<1>1. CASE LoopStep
  <2>1. UNCHANGED faults
    BY <1>1 DEF LoopStep, StartTick, ResolveFeedback, DumpFeedback, LoadLoopState, EndTick,
        SkipAttacker, BlockByGate, PassGate, AskController, Apply, RecordRow, MarkApplied, DumpLoopState
  <2> QED
    BY <1>1, <2>1 DEF Undisturbed
<1>2. CASE Environment
  <2>1. UNCHANGED faults
    BY <1>2 DEF Environment, NewEvidence, HttpTouch, Rebind, ClockTick
  <2> QED
    BY <1>2, <2>1 DEF Undisturbed
<1>3. CASE Failure
  <2>1. faults.timeouts \in Nat /\ faults.crashes \in Nat
    BY DEF HistoryOK
  <2>2. CASE ControllerFails \/ ApplyTimesOut
    <3>1. faults'.timeouts = faults.timeouts + 1
      BY <2>2 DEF ControllerFails, ApplyTimesOut, HistoryOK
    <3> QED
      BY <2>1, <3>1 DEF Undisturbed
  <2>3. CASE Crash
    <3>1. faults'.crashes = faults.crashes + 1
      BY <2>3 DEF Crash, HistoryOK
    <3> QED
      BY <2>1, <3>1 DEF Undisturbed
  <2>4. CASE \E j \in late : LateApply(j)
    BY <2>4 DEF LateApply, Undisturbed, NothingLeftBehind
  <2> QED
    BY <1>3, <2>2, <2>3, <2>4 DEF Failure
<1> QED
  BY <1>1, <1>2, <1>3 DEF Next

\* What applying actions leaves in the history.
LEMMA PerformRecorded ==
  ASSUME HistoryOK, NEW j \in Job, NEW done \in Seq(Action), Perform(j, done)
  PROVE  /\ used' \in [Attackers -> SUBSET Nat]
         /\ lastReveal' \in [Attackers -> [unlocked : SUBSET Assets, touched : SUBSET Assets]]
         /\ \A a \in Attackers : a # j.attacker =>
              used'[a] = used[a] /\ lastReveal'[a] = lastReveal[a]
         /\ \/ /\ done = <<>> \/ j.gen # binding[j.attacker].gen
               /\ UNCHANGED <<binding, used, lastReveal>>
            \/ /\ j.gen = binding[j.attacker].gen
               /\ used'[j.attacker] = used[j.attacker] \cup j.ids
               /\ lastReveal'[j.attacker] = [unlocked |-> UnlockedBy(done), touched |-> {}]
<1> DEFINE a == j.attacker
           reveal == [unlocked |-> UnlockedBy(done), touched |-> {}]
<1>1. a \in Attackers /\ j.ids \in SUBSET Nat
  BY DEF Job
<1>2. reveal \in [unlocked : SUBSET Assets, touched : SUBSET Assets]
  BY UnlockedTyped
<1>3. CASE done = <<>> \/ j.gen # binding[a].gen
  BY <1>3 DEF Perform, HistoryOK
<1>4. CASE ~(done = <<>> \/ j.gen # binding[a].gen)
  <2>1. /\ used' = [used EXCEPT ![a] = @ \cup j.ids]
        /\ lastReveal' = [lastReveal EXCEPT ![a] = reveal]
    BY <1>4 DEF Perform
  <2>2. used' \in [Attackers -> SUBSET Nat]
    BY <1>1, <2>1 DEF HistoryOK
  <2> HIDE DEF reveal
  <2>3. lastReveal' \in [Attackers -> [unlocked : SUBSET Assets, touched : SUBSET Assets]]
    BY <1>1, <1>2, <2>1 DEF HistoryOK
  <2>4. /\ used'[a] = used[a] \cup j.ids /\ lastReveal'[a] = reveal
        /\ \A b \in Attackers : b # a => used'[b] = used[b] /\ lastReveal'[b] = lastReveal[b]
    BY <1>1, <2>1 DEF HistoryOK
  <2> QED
    BY <1>4, <2>2, <2>3, <2>4 DEF reveal
<1> QED
  BY <1>3, <1>4

\* A touch, of an asset or of nothing known, is noted for its attacker.
LEMMA TouchNoted ==
  ASSUME HistoryOK, NEW a \in Attackers, NEW x \in Assets \cup {None}, NoteTouch(a, x)
  PROVE  /\ lastReveal' \in [Attackers -> [unlocked : SUBSET Assets, touched : SUBSET Assets]]
         /\ \A b \in Attackers : lastReveal'[b].unlocked = lastReveal[b].unlocked
         /\ \A b \in Attackers : b # a => lastReveal'[b] = lastReveal[b]
         /\ lastReveal'[a].touched = lastReveal[a].touched \cup ({x} \ {None})
<1>1. lastReveal[a] \in [unlocked : SUBSET Assets, touched : SUBSET Assets]
  BY DEF HistoryOK
<1> DEFINE new == [lastReveal[a] EXCEPT !.touched = @ \cup ({x} \ {None})]
<1>2. /\ new \in [unlocked : SUBSET Assets, touched : SUBSET Assets]
      /\ new.unlocked = lastReveal[a].unlocked
      /\ new.touched = lastReveal[a].touched \cup ({x} \ {None})
  BY <1>1
<1>3. lastReveal' = [lastReveal EXCEPT ![a] = new]
  BY DEF NoteTouch
<1> HIDE DEF new
<1> QED
  BY <1>2, <1>3 DEF HistoryOK

LEMMA HistoryStep == TypeOK /\ HistoryOK /\ Next => HistoryOK'
<1> SUFFICES ASSUME TypeOK, HistoryOK, Next PROVE HistoryOK'
  OBVIOUS
<1> USE DEF files, world, tick
<1>1. CASE LoopStep
  <2>1. CASE Apply
    <3>1. job \in Job /\ job.acts \in Seq(Action) /\ Perform(job, job.acts) /\ UNCHANGED faults
      BY <2>1 DEF Apply, TypeOK, Job
    <3> QED
      BY <3>1, PerformRecorded DEF HistoryOK
  <2>2. CASE ~Apply
    <3>1. UNCHANGED <<faults, used, lastReveal>>
      BY <1>1, <2>2 DEF LoopStep, StartTick, ResolveFeedback, DumpFeedback, LoadLoopState, EndTick,
        SkipAttacker, BlockByGate, PassGate, AskController, RecordRow, MarkApplied, DumpLoopState
    <3> QED
      BY <3>1 DEF HistoryOK
  <2> QED
    BY <2>1, <2>2
<1>2. CASE Environment
  <2>1. ASSUME NEW a \in Attackers, NEW x \in Assets \cup {None}, NewEvidence(a, x) PROVE HistoryOK'
    BY <2>1, TouchNoted DEF NewEvidence, HistoryOK
  <2>2. ASSUME NEW a \in Attackers, NEW x \in Assets, HttpTouch(a, x) PROVE HistoryOK'
    BY <2>2, TouchNoted DEF HttpTouch, HistoryOK
  <2>3. ASSUME NEW a \in Attackers, Rebind(a) PROVE HistoryOK'
    <3>1. NothingRevealed \in [unlocked : SUBSET Assets, touched : SUBSET Assets]
      BY DEF NothingRevealed
    <3> QED
      BY <2>3, <3>1 DEF Rebind, HistoryOK
  <2>4. CASE ClockTick
    BY <2>4 DEF ClockTick, HistoryOK
  <2> QED
    BY <1>2, <2>1, <2>2, <2>3, <2>4 DEF Environment
<1>3. CASE Failure
  <2>1. CASE ControllerFails \/ ApplyTimesOut
    <3>1. /\ UNCHANGED <<used, lastReveal>> /\ faults.timeouts < MaxTimeouts
          /\ faults' = [faults EXCEPT !.timeouts = @ + 1]
      BY <2>1 DEF ControllerFails, ApplyTimesOut
    <3> QED
      BY <3>1 DEF HistoryOK
  <2>2. CASE Crash
    <3>1. /\ UNCHANGED <<used, lastReveal>> /\ faults.crashes < MaxCrashes
          /\ faults' = [faults EXCEPT !.crashes = @ + 1]
      BY <2>2 DEF Crash
    <3> QED
      BY <3>1 DEF HistoryOK
  <2>3. ASSUME NEW j \in late, LateApply(j) PROVE HistoryOK'
    <3>1. j \in Job /\ j.acts \in Seq(Action)
      BY DEF TypeOK, Job
    <3>2. PICK k \in 0..Len(j.acts) : Perform(j, SubSeq(j.acts, 1, k))
      BY <2>3 DEF LateApply
    <3>3. SubSeq(j.acts, 1, k) \in Seq(Action)
      BY <3>1, SubSeqProperties
    <3> QED
      BY <2>3, <3>1, <3>2, <3>3, PerformRecorded DEF LateApply, HistoryOK
  <2> QED
    BY <1>3, <2>1, <2>2, <2>3 DEF Failure
<1> QED
  BY <1>1, <1>2, <1>3 DEF Next

\* What a calm step may do to rows and history.
Quiet == UNCHANGED <<evidence, touches, binding, rows, used, lastReveal, late>>
LEMMA CalmCases ==
  ASSUME TypeOK, NothingLeftBehind, LoopStep \/ Environment
  PROVE  \/ /\ Quiet
            /\ \/ UNCHANGED <<pc, job, unrecorded, turn, snap>>
               \/ pc # "recording" /\ pc' # "recording"
               \/ pc = "recording" /\ unrecorded = {} /\ pc' = "saving"
         \/ /\ rows' = Resolved /\ pc = "feedback" /\ pc' = "dump"
            /\ UNCHANGED <<evidence, touches, binding, used, lastReveal, late>>
         \/ \E x \in unrecorded : RecordsRow(x)
         \/ Apply
         \/ \E a \in Attackers :
              \/ \E x \in Assets \cup {None} : NewEvidence(a, x)
              \/ \E x \in Assets : HttpTouch(a, x)
              \/ Rebind(a)
<1> USE DEF files, world, tick
<1>1. CASE StartTick \/ DumpFeedback \/ LoadLoopState \/ EndTick \/ SkipAttacker
  BY <1>1 DEF StartTick, DumpFeedback, LoadLoopState, EndTick, SkipAttacker, Quiet
<1>2. CASE BlockByGate \/ PassGate \/ AskController \/ DumpLoopState
  BY <1>2 DEF BlockByGate, PassGate, AskController, DumpLoopState, FinishWithoutApply, MarkProcessed, Quiet
<1>3. CASE ResolveFeedback
  BY <1>3 DEF ResolveFeedback, Quiet
<1>4. CASE RecordRow
  BY <1>4 DEF RecordRow, RecordsRow, RowOf, NothingLeftBehind
<1>5. CASE MarkApplied
  BY <1>5 DEF MarkApplied, MarkProcessed, Quiet
<1>6. CASE Environment
  BY <1>6 DEF Environment, ClockTick, Quiet
<1> QED
  BY <1>1, <1>2, <1>3, <1>4, <1>5, <1>6 DEF LoopStep

LEMMA NothingLeftStep == NothingLeftBehind /\ (LoopStep \/ Environment) => NothingLeftBehind'
<1> SUFFICES ASSUME NothingLeftBehind, LoopStep \/ Environment PROVE NothingLeftBehind'
  OBVIOUS
<1> USE DEF files, world, tick, NothingLeftBehind
<1>1. CASE StartTick \/ ResolveFeedback \/ DumpFeedback \/ LoadLoopState \/ EndTick \/ SkipAttacker
  BY <1>1 DEF StartTick, ResolveFeedback, DumpFeedback, LoadLoopState, EndTick, SkipAttacker
<1>2. CASE BlockByGate \/ PassGate \/ AskController
  BY <1>2 DEF BlockByGate, PassGate, AskController, FinishWithoutApply, MarkProcessed
<1>3. CASE Apply
  BY <1>3 DEF Apply
<1>4. CASE RecordRow
  BY <1>4 DEF RecordRow
<1>5. CASE MarkApplied \/ DumpLoopState
  BY <1>5 DEF MarkApplied, MarkProcessed, DumpLoopState
<1>6. CASE Environment
  <2>1. late' = late /\ pc' = pc /\ stateTorn' = stateTorn /\ feedbackTorn' = feedbackTorn
    BY <1>6 DEF Environment, NewEvidence, HttpTouch, Rebind, ClockTick
  <2> QED
    BY <2>1
<1> QED
  BY <1>1, <1>2, <1>3, <1>4, <1>5, <1>6 DEF LoopStep


\* The history of reveals and the marks: nothing is marked less, nothing more is
\* used but by Apply.
LEMMA MarksMove ==
  ASSUME TypeOK, InTurn, NothingLeftBehind, LoopStep \/ Environment
  PROVE  \/ UNCHANGED <<processed, turn, pc, job, used>>
         \/ pc # "recording" /\ pc' # "recording" /\ UNCHANGED <<processed, used>>
         \/ pc # "recording" /\ pc' # "recording" /\ MarkProcessed /\ turn \in Attackers /\ UNCHANGED used
         \/ pc = "recording" /\ MarkProcessed /\ UNCHANGED used
         \/ pc = "applying" /\ pc' = "recording" /\ Perform(job, job.acts) /\ UNCHANGED <<processed, job, turn>>
<1> USE DEF files, world, tick
<1>1. CASE StartTick \/ ResolveFeedback \/ DumpFeedback \/ EndTick \/ SkipAttacker \/ PassGate
  BY <1>1 DEF StartTick, ResolveFeedback, DumpFeedback, EndTick, SkipAttacker, PassGate
<1>2. CASE LoadLoopState
  BY <1>2 DEF LoadLoopState, NothingLeftBehind
<1>3. CASE BlockByGate
  <2>1. turn \in Attackers
    BY <1>3 DEF BlockByGate, TypeOK, Attackers
  <2> QED
    BY <1>3, <2>1 DEF BlockByGate, FinishWithoutApply, MarkProcessed
<1>4. CASE AskController
  <2>1. turn \in Attackers
    BY <1>4 DEF AskController, InTurn
  <2> QED
    BY <1>4, <2>1 DEF AskController, FinishWithoutApply, MarkProcessed
<1>5. CASE Apply
  BY <1>5 DEF Apply
<1>6. CASE RecordRow
  BY <1>6 DEF RecordRow, NothingLeftBehind
<1>7. CASE MarkApplied \/ DumpLoopState
  BY <1>7 DEF MarkApplied, DumpLoopState
<1>8. CASE Environment
  BY <1>8 DEF Environment, NewEvidence, HttpTouch, Rebind, ClockTick
<1> QED
  BY <1>1, <1>2, <1>3, <1>4, <1>5, <1>6, <1>7, <1>8 DEF LoopStep

LEMMA UsedIsMarkedStep ==
  BaseInv /\ JobOfTurn /\ HistoryOK /\ CalmInv /\ (LoopStep \/ Environment) => UsedIsMarked'
<1> SUFFICES ASSUME BaseInv, JobOfTurn, HistoryOK, CalmInv, LoopStep \/ Environment, NEW a \in Attackers
             PROVE  used'[a] \subseteq
                      processed'[a] \cup (IF pc' = "recording" /\ a = turn' THEN job'.ids ELSE {})
  BY DEF UsedIsMarked
<1>1. TypeOK /\ InTurn /\ NothingLeftBehind
  BY DEF BaseInv, CalmInv
<1>2. used[a] \subseteq processed[a] \cup (IF pc = "recording" /\ a = turn THEN job.ids ELSE {})
  BY DEF CalmInv, UsedIsMarked
<1>3. CASE UNCHANGED <<processed, turn, pc, job, used>>
  BY <1>2, <1>3
<1>4. CASE pc # "recording" /\ UNCHANGED <<processed, used>>
  BY <1>2, <1>4
<1>5. ASSUME turn \in Attackers, MarkProcessed, UNCHANGED used,
             pc = "recording" => job.ids = CurrentIds
      PROVE  used'[a] \subseteq processed'[a]
  <2>1. /\ processed'[turn] = processed[turn] \cup CurrentIds
        /\ a # turn => processed'[a] = processed[a]
    BY <1>1, <1>5, MarkTyped
  <2> HIDE DEF CurrentIds
  <2> QED
    BY <1>2, <1>5, <2>1
<1>6. CASE pc = "recording" /\ MarkProcessed /\ UNCHANGED used
  <2>1. turn \in Attackers /\ job.ids = CurrentIds
    BY <1>6 DEF BaseInv, InTurn, CalmInv, JobIsNew
  <2> QED
    BY <1>5, <1>6, <2>1
<1>7. CASE pc = "applying" /\ pc' = "recording" /\ Perform(job, job.acts) /\ UNCHANGED <<processed, job, turn>>
  <2>1. job \in Job /\ job.acts \in Seq(Action) /\ job.attacker = turn
    BY <1>1, <1>7 DEF TypeOK, Job, JobOfTurn
  <2>2. /\ a # turn => used'[a] = used[a]
        /\ a = turn => used'[a] \subseteq used[a] \cup job.ids
    BY <1>7, <2>1, PerformRecorded
  <2> QED
    BY <1>2, <1>7, <2>2
<1> QED
  BY <1>1, <1>3, <1>4, <1>5, <1>6, <1>7, MarksMove

\* Evidence is only added, so what a profile said of its first n records stays true.
LEMMA EvidenceStays ==
  ASSUME TypeOK, Next, NEW a \in Attackers, NEW n \in 0..Len(evidence[a])
  PROVE  RecentEvidence(a, n)' = RecentEvidence(a, n)
<1>1. ASSUME NEW i \in 1..n PROVE evidence'[a][i] = evidence[a][i] /\ evidence'[a][n] = evidence[a][n]
  <2>1. CASE UNCHANGED evidence
    BY <2>1
  <2>2. ASSUME NEW b \in Attackers, NEW x \in Assets \cup {None}, NewEvidence(b, x)
        PROVE  evidence'[a][i] = evidence[a][i] /\ evidence'[a][n] = evidence[a][n]
    <3>1. [asset |-> x, ts |-> clock] \in Evidence
      BY DEF TypeOK, Evidence
    <3>2. evidence' = [evidence EXCEPT ![b] = Append(@, [asset |-> x, ts |-> clock])]
      BY <2>2 DEF NewEvidence
    <3>3. evidence \in [Attackers -> Seq(Evidence)]
      BY DEF TypeOK
    <3>4. CASE a = b
      <4>1. evidence'[a] = Append(evidence[a], [asset |-> x, ts |-> clock])
        BY <3>2, <3>3, <3>4
      <4>2. evidence[a] \in Seq(Evidence) /\ i \in 1..Len(evidence[a]) /\ n \in 1..Len(evidence[a])
        BY <3>3
      <4> QED
        BY <3>1, <4>1, <4>2, AppendProperties
    <3>5. CASE a # b
      BY <3>2, <3>3, <3>5
    <3> QED
      BY <3>4, <3>5
  <2>3. CASE LoopStep
    <3> USE DEF files, world, tick
    <3>1. UNCHANGED evidence
      BY <2>3 DEF LoopStep, StartTick, ResolveFeedback, DumpFeedback, LoadLoopState, EndTick,
        SkipAttacker, BlockByGate, PassGate, AskController, Apply, RecordRow, MarkApplied, DumpLoopState
    <3> QED
      BY <2>1, <3>1
  <2>4. CASE Environment
    BY <2>1, <2>2, <2>4 DEF Environment, HttpTouch, Rebind, ClockTick, world
  <2>5. CASE Failure
    BY <2>1, <2>5 DEF Failure, ControllerFails, ApplyTimesOut, LateApply, Crash, world
  <2> QED
    BY <2>3, <2>4, <2>5 DEF Next
<1> QED
  BY <1>1 DEF RecentEvidence, InWindow

\* What a turn is about stays what it is about.
LEMMA TurnStays ==
  ASSUME BaseInv, Next, turn \in Attackers, UNCHANGED <<turn, snap>>
  PROVE  CurrentIds' = CurrentIds
<1>1. TypeOK /\ snap[turn].evidence <= Len(evidence[turn])
  BY DEF BaseInv, SnapshotsLag
<1>2. snap[turn].evidence \in 0..Len(evidence[turn])
  BY <1>1 DEF TypeOK
<1> DEFINE n == snap[turn].evidence
<1>3. \A a \in Attackers : \A m \in 0..Len(evidence[a]) : RecentEvidence(a, m)' = RecentEvidence(a, m)
  BY <1>1, EvidenceStays
<1>4. \A a \in Attackers : \A m \in 0..Len(evidence[a]) :
        {i \in {k \in 1..m : evidence'[a][k].ts >= evidence'[a][m].ts - ChainWindow} : i > m - RecentIds}
          = RecentEvidence(a, m)
  BY <1>3 DEF RecentEvidence, InWindow
<1>5. CurrentIds' = {i \in {k \in 1..n : evidence'[turn][k].ts >= evidence'[turn][n].ts - ChainWindow} :
                     i > n - RecentIds}
  BY DEF CurrentIds, RecentEvidence, InWindow, Snapshot
<1> QED
  BY <1>2, <1>4, <1>5 DEF CurrentIds, Snapshot

\* A step of the loop or its surroundings, from an undisturbed state.
Calm == BaseInv /\ RevealInv /\ HistoryOK /\ CalmInv /\ (LoopStep \/ Environment)

\* When the controller is asked, the turn has just begun to be about something.
LEMMA AskingMoves ==
  ASSUME TypeOK, LoopStep \/ Environment, pc' = "asking"
  PROVE  UNCHANGED <<turn, snap, processed>> /\ (pc = "asking" \/ PassGate)
<1> USE DEF files, world, tick
<1>1. CASE PassGate
  BY <1>1 DEF PassGate
<1>2. CASE StartTick \/ ResolveFeedback \/ DumpFeedback \/ LoadLoopState \/ EndTick \/ SkipAttacker
  BY <1>2 DEF StartTick, ResolveFeedback, DumpFeedback, LoadLoopState, EndTick, SkipAttacker
<1>3. CASE BlockByGate \/ AskController \/ Apply
  BY <1>3 DEF BlockByGate, AskController, FinishWithoutApply, MarkProcessed, Apply
<1>4. CASE RecordRow
  BY <1>4 DEF RecordRow
<1>5. CASE MarkApplied \/ DumpLoopState
  BY <1>5 DEF MarkApplied, MarkProcessed, DumpLoopState
<1>6. CASE Environment
  BY <1>6 DEF Environment, NewEvidence, HttpTouch, Rebind, ClockTick
<1> QED
  BY <1>1, <1>2, <1>3, <1>4, <1>5, <1>6 DEF LoopStep

LEMMA JobIsNewStep == Calm => JobIsNew'
<1> SUFFICES ASSUME Calm PROVE JobIsNew'
  OBVIOUS
<1>1. TypeOK /\ InTurn /\ TypeOK' /\ InTurn' /\ Next
  BY TypeStep, InTurnStep DEF Calm, BaseInv, Next
<1>2. ASSUME turn' \in Attackers, UNCHANGED <<turn, snap>> PROVE CurrentIds' = CurrentIds
  BY <1>1, <1>2, TurnStays DEF Calm
<1>3. /\ pc = "asking" => CurrentIds \ processed[turn] # {}
      /\ pc \in {"applying", "recording"} => job.ids = CurrentIds
      /\ pc = "applying" => CurrentIds \ processed[turn] # {}
  BY DEF Calm, CalmInv, JobIsNew, HasNewEvidence, CurrentIds
<1>4. PassGate => CurrentIds \ processed[turn] # {}
  BY DEF PassGate, HasNewEvidence, CurrentIds
<1>5. ASSUME pc' \in {"asking", "applying", "recording"} PROVE turn' \in Attackers
  BY <1>1, <1>5 DEF InTurn
<1>6. ASSUME pc' = "asking" PROVE CurrentIds' \ processed'[turn'] # {}
  <2>1. UNCHANGED <<turn, snap, processed>> /\ CurrentIds \ processed[turn] # {}
    BY <1>1, <1>3, <1>4, <1>6, AskingMoves DEF Calm
  <2>2. CurrentIds' = CurrentIds
    BY <1>2, <1>5, <1>6, <2>1
  <2> QED
    BY <2>1, <2>2, Zenon
<1>7. ASSUME pc' = "applying"
      PROVE  job'.ids = CurrentIds' /\ CurrentIds' \ processed'[turn'] # {}
  <2>1. /\ UNCHANGED <<turn, snap>>
        /\ \/ pc = "applying" /\ UNCHANGED job
           \/ pc = "asking" /\ job'.ids = CurrentIds
    BY <1>1, <1>7, ApplyingMoves
  <2>2. CurrentIds' = CurrentIds
    BY <1>2, <1>5, <1>7, <2>1
  <2>3. UNCHANGED processed
    <3>1. pc = "applying" => UNCHANGED processed
      BY <1>1, <1>7, <2>1, MarksMove DEF Calm, CalmInv, MarkProcessed
    <3>2. pc = "asking" => UNCHANGED processed
      BY <1>1, <1>7, <2>1, MarksMove DEF Calm, CalmInv, MarkProcessed
    <3> QED
      BY <2>1, <3>1, <3>2
  <2>4. job'.ids = CurrentIds /\ CurrentIds \ processed[turn] # {}
    BY <1>3, <2>1
  <2> QED
    BY <2>1, <2>2, <2>3, <2>4, Zenon
<1>8. ASSUME pc' = "recording" PROVE job'.ids = CurrentIds'
  <2>1. UNCHANGED <<turn, snap, job>> /\ pc \in {"applying", "recording"}
    BY <1>1, <1>8, RecordingKeeps
  <2>2. CurrentIds' = CurrentIds
    BY <1>2, <1>5, <1>8, <2>1
  <2> QED
    BY <1>3, <2>1, <2>2, Zenon
<1>9. (HasNewEvidence(turn, Snapshot.evidence) <=> CurrentIds \ processed[turn] # {})'
  BY DEF HasNewEvidence, CurrentIds
<1> QED
  BY <1>6, <1>7, <1>8, <1>9 DEF JobIsNew

\* A binding that is the first after a step was so before it.
LEMMA FirstStays ==
  ASSUME TypeOK, Next, NEW a \in Attackers, FirstBinding(a)'
  PROVE  FirstBinding(a) /\ ~Rebind(a)
<1>1. binding \in [Attackers -> Binding] /\ binding[a].gen \in Nat
  <2>1. binding \in [Attackers -> Binding]
    BY DEF TypeOK
  <2>2. \A b \in Binding : b.gen \in Nat
    BY DEF Binding
  <2> QED
    BY <2>1, <2>2
<1>2. binding[a].gen <= binding'[a].gen
  BY BindingsMoveOn
<1>3. binding'[a].gen = 0
  BY DEF FirstBinding
<1>4. ASSUME Rebind(a) PROVE FALSE
  <2>1. binding'[a] = Fresh(binding[a].gen + 1)
    BY <1>1, <1>4 DEF Rebind
  <2> QED
    BY <1>1, <1>3, <2>1 DEF Fresh
<1> QED
  BY <1>1, <1>2, <1>3, <1>4 DEF FirstBinding

LEMMA SnapshotIsCurrentStep == Calm => SnapshotIsCurrent'
<1> SUFFICES ASSUME Calm, NEW a \in Attackers, Ahead(a)', snap'[a].binding.gen = binding'[a].gen
             PROVE  snap'[a].binding = binding'[a]
  BY DEF SnapshotIsCurrent
<1>1. TypeOK /\ Next /\ SnapshotsLag /\ JobOfTurn /\ NothingLeftBehind
  BY DEF Calm, BaseInv, RevealInv, CalmInv, Next
<1>2. CASE StartTick
  BY <1>2 DEF StartTick, world
<1>3. CASE Ahead(a) /\ UNCHANGED snap
  <2>1. CASE UNCHANGED binding
    BY <1>3, <2>1 DEF Calm, CalmInv, SnapshotIsCurrent
  <2>2. CASE Apply
    <3>1. pc = "applying" /\ pc' = "recording" /\ turn' = turn /\ Perform(job, job.acts)
      BY <2>2 DEF Apply
    <3>2. a # turn
      BY <1>1, <3>1 DEF Ahead, Attackers, TypeOK
    <3>3. job \in Job /\ job.acts \in Seq(Action) /\ job.attacker = turn
      BY <1>1, <3>1 DEF TypeOK, Job, JobOfTurn
    <3>4. binding'[a] = binding[a]
      BY <1>1, <3>1, <3>2, <3>3, PerformOpens DEF TypeOK
    <3> QED
      BY <1>3, <3>4 DEF Calm, CalmInv, SnapshotIsCurrent
  <2>3. ASSUME NEW b \in Attackers, Rebind(b) PROVE snap'[a].binding = binding'[a]
    <3>1. binding \in [Attackers -> Binding] /\ binding[a].gen \in Nat /\ snap[a].binding.gen \in Nat
      <4>1. binding \in [Attackers -> Binding] /\ snap[a].binding \in Binding
        BY <1>1 DEF TypeOK
      <4>2. binding[a] \in Binding
        BY <4>1
      <4>3. \A d \in Binding : d.gen \in Nat
        BY DEF Binding
      <4> QED
        BY <4>1, <4>2, <4>3
    <3>2. binding' = [binding EXCEPT ![b] = Fresh(binding[b].gen + 1)]
      BY <2>3 DEF Rebind
    <3>3. CASE a = b
      <4>1. binding'[a].gen = binding[a].gen + 1
        BY <3>1, <3>2, <3>3 DEF Fresh
      <4>2. snap[a].binding.gen <= binding[a].gen
        BY <1>1 DEF SnapshotsLag
      <4> QED
        BY <1>3, <3>1, <4>1, <4>2
    <3>4. CASE a # b
      <4>1. binding'[a] = binding[a]
        BY <3>1, <3>2, <3>4
      <4> QED
        BY <1>3, <4>1 DEF Calm, CalmInv, SnapshotIsCurrent
    <3> QED
      BY <3>3, <3>4
  <2> QED
    BY <1>1, <2>1, <2>2, <2>3, CalmCases DEF Calm, Quiet, RecordsRow, NewEvidence, HttpTouch
<1> QED
  BY <1>1, <1>2, <1>3, AheadMoves

\* An asset touched is an asset known to be touched.
LEMMA TouchAdds ==
  ASSUME TypeOK, NEW b \in Attackers, NEW x \in Assets \cup {None}, NewEvidence(b, x) \/ HttpTouch(b, x)
  PROVE  /\ x \in binding[b].unlocked \cup {None} /\ NoteTouch(b, x)
         /\ TouchedAssets(b)' = TouchedAssets(b) \cup {x}
         /\ \A a \in Attackers : a # b => TouchedAssets(a)' = TouchedAssets(a)
         /\ UNCHANGED <<binding, rows, late, pc, job, unrecorded, snap, turn>>
<1> USE DEF files, tick
<1>1. touches \in [Attackers -> SUBSET Assets] /\ evidence \in [Attackers -> Seq(Evidence)]
  BY DEF TypeOK
<1>2. CASE HttpTouch(b, x)
  <2>1. /\ touches' = [touches EXCEPT ![b] = @ \cup {x}] /\ UNCHANGED evidence
    BY <1>2 DEF HttpTouch
  <2>2. touches'[b] = touches[b] \cup {x} /\ \A a \in Attackers : a # b => touches'[a] = touches[a]
    BY <1>1, <2>1
  <2>3. TouchedAssets(b)' = TouchedAssets(b) \cup {x}
    BY <2>1, <2>2 DEF TouchedAssets
  <2>4. \A a \in Attackers : a # b => TouchedAssets(a)' = TouchedAssets(a)
    BY <2>1, <2>2 DEF TouchedAssets
  <2> QED
    BY <1>2, <2>3, <2>4 DEF HttpTouch
<1>3. CASE NewEvidence(b, x)
  <2> DEFINE e == [asset |-> x, ts |-> clock]
  <2>1. e \in Evidence /\ e.asset = x
    BY DEF TypeOK, Evidence
  <2>2. evidence' = [evidence EXCEPT ![b] = Append(@, e)] /\ UNCHANGED touches
    BY <1>3 DEF NewEvidence
  <2> HIDE DEF e
  <2>3. evidence'[b] = Append(evidence[b], e) /\ \A a \in Attackers : a # b => evidence'[a] = evidence[a]
    BY <1>1, <2>2
  <2>4. /\ DOMAIN evidence[b] = 1..Len(evidence[b]) /\ Len(evidence[b]) \in Nat
        /\ DOMAIN evidence'[b] = 1..(Len(evidence[b]) + 1)
        /\ \A i \in 1..Len(evidence[b]) : evidence'[b][i] = evidence[b][i]
        /\ evidence'[b][Len(evidence[b]) + 1] = e
    BY <1>1, <2>1, <2>3, AppendProperties
  <2>5. {evidence'[b][i].asset : i \in DOMAIN evidence'[b]} =
          {evidence[b][i].asset : i \in DOMAIN evidence[b]} \cup {x}
    <3>1. \A i : i \in DOMAIN evidence'[b] <=> i \in DOMAIN evidence[b] \/ i = Len(evidence[b]) + 1
      BY <2>4
    <3>2. ASSUME NEW y
          PROVE  y \in {evidence'[b][i].asset : i \in DOMAIN evidence'[b]} <=>
                   y \in {evidence[b][i].asset : i \in DOMAIN evidence[b]} \cup {x}
      <4>1. ASSUME NEW i \in DOMAIN evidence'[b]
            PROVE  evidence'[b][i].asset \in {evidence[b][k].asset : k \in DOMAIN evidence[b]} \cup {x}
        BY <2>1, <2>4, <3>1
      <4>2. ASSUME NEW i \in DOMAIN evidence[b]
            PROVE  evidence[b][i].asset \in {evidence'[b][k].asset : k \in DOMAIN evidence'[b]}
        BY <2>4, <3>1
      <4>3. x \in {evidence'[b][k].asset : k \in DOMAIN evidence'[b]}
        BY <2>1, <2>4, <3>1
      <4> QED
        BY <4>1, <4>2, <4>3
    <3> QED
      BY <3>2, Zenon
  <2>6. TouchedAssets(b)' = TouchedAssets(b) \cup {x}
    BY <2>2, <2>5 DEF TouchedAssets
  <2>7. \A a \in Attackers : a # b => TouchedAssets(a)' = TouchedAssets(a)
    BY <2>2, <2>3 DEF TouchedAssets
  <2> QED
    BY <1>3, <2>6, <2>7 DEF NewEvidence
<1> QED
  BY <1>2, <1>3

\* Of what a job opens, nothing has been touched or has a row yet.
LEMMA JobIsUntouched ==
  ASSUME BaseInv, RevealInv, CalmInv, pc = "applying", FirstBinding(job.attacker)
  PROVE  /\ job.attacker = turn /\ turn \in Attackers
         /\ job.gen = binding[turn].gen
         /\ UnlockedBy(job.acts) \subseteq Assets
         /\ UnlockedBy(job.acts) \cap TouchedAssets(turn) = {}
         /\ \A i \in DOMAIN rows[turn] : rows[turn][i].batch # UnlockedBy(job.acts)
<1>1. job \in Job /\ job.acts \in Seq(Action) /\ job.attacker = turn /\ turn \in Attackers
  BY DEF BaseInv, TypeOK, Job, RevealInv, JobOfTurn, InTurn
<1>2. /\ job.gen = snap[turn].binding.gen /\ job.gen \in Nat /\ job.gen <= 0
      /\ binding[turn].gen = 0
  <2>1. job.gen <= binding[turn].gen /\ job.gen = snap[turn].binding.gen
    BY <1>1 DEF BaseInv, NothingAhead, RevealInv, JobOfTurn
  <2> QED
    BY <1>1, <2>1 DEF Job, FirstBinding
<1>3. job.gen = 0 /\ snap[turn].binding.gen = 0
  BY <1>2
<1>4. Ahead(turn)
  BY <1>1 DEF Ahead, Attackers
<1>5. snap[turn].binding = binding[turn]
  BY <1>1, <1>2, <1>3, <1>4 DEF CalmInv, SnapshotIsCurrent
<1>6. UnlockedBy(job.acts) \subseteq Assets
  BY <1>1, UnlockedTyped
<1>7. UnlockedBy(job.acts) \cap binding[turn].unlocked = {}
  BY <1>5 DEF RevealInv, JobOpensNew
<1>8. UnlockedBy(job.acts) \cap TouchedAssets(turn) = {}
  <2>1. TouchedAssets(turn) \subseteq binding[turn].unlocked \cup {None}
    BY <1>1 DEF CalmInv, TouchesAreKnown
  <2>2. None \notin Assets
    BY LoopAssumption
  <2> QED
    BY <1>6, <1>7, <2>1, <2>2
<1>9. ASSUME NEW i \in DOMAIN rows[turn] PROVE rows[turn][i].batch # UnlockedBy(job.acts)
  <2>1. rows[turn][i] \in Row /\ rows[turn][i].gen <= 0
    BY <1>1, <1>2 DEF BaseInv, TypeOK, NothingAhead
  <2>2. rows[turn][i].gen = snap[turn].binding.gen
    BY <1>3, <2>1 DEF Row
  <2>3. rows[turn][i].asset \in binding[turn].unlocked /\ rows[turn][i].asset \in rows[turn][i].batch
    BY <1>1, <1>4, <1>5, <2>2 DEF BaseInv, RowsNameOpenAssets, RevealInv, SnapshotKnowsRows
  <2> QED
    BY <1>7, <2>3
<1> QED
  BY <1>1, <1>2, <1>3, <1>6, <1>8, <1>9

\* What a step does to what was revealed last, for an attacker who keeps the first
\* binding: the attacker touches something, the loop reveals something, or nothing.
LEMMA RevealMoves ==
  ASSUME Calm, NEW a \in Attackers, FirstBinding(a)'
  PROVE  /\ FirstBinding(a)
         /\ \/ /\ UNCHANGED <<lastReveal, binding>> /\ TouchedAssets(a)' = TouchedAssets(a)
            \/ /\ Apply /\ a = job.attacker /\ lastReveal'[a] # lastReveal[a]
               /\ lastReveal'[a] = [unlocked |-> UnlockedBy(job.acts), touched |-> {}]
               /\ TouchedAssets(a)' = TouchedAssets(a)
               /\ binding[a].unlocked \subseteq binding'[a].unlocked
            \/ /\ Apply \/ UNCHANGED <<rows, pc, job, unrecorded>>
               /\ lastReveal'[a] = lastReveal[a] /\ TouchedAssets(a)' = TouchedAssets(a)
               /\ binding[a].unlocked \subseteq binding'[a].unlocked
            \/ /\ UNCHANGED <<rows, pc, job, unrecorded, binding>>
               /\ \E x \in binding[a].unlocked \cup {None} :
                    /\ TouchedAssets(a)' = TouchedAssets(a) \cup {x}
                    /\ lastReveal'[a].unlocked = lastReveal[a].unlocked
                    /\ lastReveal'[a].touched = lastReveal[a].touched \cup ({x} \ {None})
<1>1. TypeOK /\ Next /\ HistoryOK /\ NothingLeftBehind
  BY DEF Calm, BaseInv, CalmInv, Next
<1>2. FirstBinding(a) /\ ~Rebind(a)
  BY <1>1, FirstStays
<1>3. CASE UNCHANGED <<evidence, touches, binding, lastReveal>>
  BY <1>2, <1>3 DEF TouchedAssets
<1>4. CASE Apply
  <2>1. Perform(job, job.acts) /\ UNCHANGED <<evidence, touches>>
    BY <1>4 DEF Apply
  <2>2. job \in Job /\ job.acts \in Seq(Action)
    BY <1>1 DEF TypeOK, Job
  <2>3. binding[a].unlocked \subseteq binding'[a].unlocked
    BY <1>1, <2>1, <2>2, PerformOpens DEF TypeOK
  <2>4. \/ lastReveal'[a] = lastReveal[a]
        \/ /\ a = job.attacker
           /\ lastReveal'[a] = [unlocked |-> UnlockedBy(job.acts), touched |-> {}]
    BY <1>1, <2>1, <2>2, PerformRecorded
  <2>5. TouchedAssets(a)' = TouchedAssets(a)
    BY <2>1 DEF TouchedAssets
  <2> QED
    BY <1>2, <1>4, <2>3, <2>4, <2>5
<1>5. ASSUME NEW b \in Attackers, NEW x \in Assets \cup {None}, NewEvidence(b, x) \/ HttpTouch(b, x)
      PROVE  \/ /\ UNCHANGED <<rows, pc, job, unrecorded, binding>>
                /\ lastReveal'[a] = lastReveal[a] /\ TouchedAssets(a)' = TouchedAssets(a)
             \/ /\ UNCHANGED <<rows, pc, job, unrecorded, binding>>
                /\ \E y \in binding[a].unlocked \cup {None} :
                     /\ TouchedAssets(a)' = TouchedAssets(a) \cup {y}
                     /\ lastReveal'[a].unlocked = lastReveal[a].unlocked
                     /\ lastReveal'[a].touched = lastReveal[a].touched \cup ({y} \ {None})
  <2>1. /\ x \in binding[b].unlocked \cup {None} /\ NoteTouch(b, x)
        /\ TouchedAssets(b)' = TouchedAssets(b) \cup {x}
        /\ a # b => TouchedAssets(a)' = TouchedAssets(a)
        /\ UNCHANGED <<rows, pc, job, unrecorded, binding>>
    BY <1>1, <1>5, TouchAdds
  <2>2. /\ lastReveal'[b].unlocked = lastReveal[b].unlocked
        /\ lastReveal'[b].touched = lastReveal[b].touched \cup ({x} \ {None})
        /\ a # b => lastReveal'[a] = lastReveal[a]
    BY <1>1, <2>1, TouchNoted
  <2> QED
    BY <2>1, <2>2
<1>6. ASSUME NEW b \in Attackers, Rebind(b)
      PROVE  /\ UNCHANGED <<rows, pc, job, unrecorded>>
             /\ lastReveal'[a] = lastReveal[a] /\ TouchedAssets(a)' = TouchedAssets(a)
             /\ binding'[a] = binding[a]
  <2>1. a # b
    BY <1>2, <1>6
  <2>2. /\ UNCHANGED <<rows, pc, job, unrecorded, evidence, touches>>
        /\ lastReveal' = [lastReveal EXCEPT ![b] = NothingRevealed]
        /\ binding' = [binding EXCEPT ![b] = Fresh(binding[b].gen + 1)]
    BY <1>6 DEF Rebind, files, tick
  <2>3. TouchedAssets(a)' = TouchedAssets(a)
    BY <2>2 DEF TouchedAssets
  <2>4. lastReveal'[a] = lastReveal[a]
    BY <1>1, <2>1, <2>2 DEF HistoryOK
  <2>5. binding'[a] = binding[a]
    <3>1. binding \in [Attackers -> Binding]
      BY <1>1 DEF TypeOK
    <3> QED
      BY <2>1, <2>2, <3>1
  <2> QED
    BY <2>2, <2>3, <2>4, <2>5
<1>7. \/ UNCHANGED <<evidence, touches, binding, lastReveal>>
      \/ Apply
      \/ \E b \in Attackers : \/ \E x \in Assets \cup {None} : NewEvidence(b, x) \/ HttpTouch(b, x)
                              \/ Rebind(b)
  BY <1>1, CalmCases DEF Calm, Quiet, RecordsRow
<1>8. CASE \E b \in Attackers : \E x \in Assets \cup {None} : NewEvidence(b, x) \/ HttpTouch(b, x)
  BY <1>2, <1>5, <1>8
<1>9. CASE \E b \in Attackers : Rebind(b)
  BY <1>2, <1>6, <1>9
<1> QED
  BY <1>3, <1>4, <1>7, <1>8, <1>9

LEMMA TouchesAreKnownStep == Calm => TouchesAreKnown'
<1> SUFFICES ASSUME Calm, NEW a \in Attackers, FirstBinding(a)'
             PROVE  /\ TouchedAssets(a)' \subseteq binding'[a].unlocked \cup {None}
                    /\ lastReveal'[a].unlocked \cap TouchedAssets(a)' \subseteq lastReveal'[a].touched
  BY DEF TouchesAreKnown
<1>1. /\ FirstBinding(a)
      /\ TouchedAssets(a) \subseteq binding[a].unlocked \cup {None}
      /\ lastReveal[a].unlocked \cap TouchedAssets(a) \subseteq lastReveal[a].touched
  BY RevealMoves DEF Calm, CalmInv, TouchesAreKnown
<1>2. CASE /\ lastReveal'[a] = lastReveal[a] /\ TouchedAssets(a)' = TouchedAssets(a)
           /\ binding[a].unlocked \subseteq binding'[a].unlocked
  BY <1>1, <1>2
<1>3. CASE /\ Apply /\ a = job.attacker /\ TouchedAssets(a)' = TouchedAssets(a)
           /\ lastReveal'[a] = [unlocked |-> UnlockedBy(job.acts), touched |-> {}]
           /\ binding[a].unlocked \subseteq binding'[a].unlocked
  <2>1. pc = "applying"
    BY <1>3 DEF Apply
  <2>2. UnlockedBy(job.acts) \cap TouchedAssets(a) = {}
    BY <1>1, <1>3, <2>1, JobIsUntouched DEF Calm
  <2> QED
    BY <1>1, <1>3, <2>2
<1>4. ASSUME NEW x \in binding[a].unlocked \cup {None}, UNCHANGED binding,
             TouchedAssets(a)' = TouchedAssets(a) \cup {x},
             lastReveal'[a].unlocked = lastReveal[a].unlocked,
             lastReveal'[a].touched = lastReveal[a].touched \cup ({x} \ {None})
      PROVE  /\ TouchedAssets(a)' \subseteq binding'[a].unlocked \cup {None}
             /\ lastReveal'[a].unlocked \cap TouchedAssets(a)' \subseteq lastReveal'[a].touched
  <2>1. lastReveal[a].unlocked \subseteq Assets /\ None \notin Assets
    BY LoopAssumption DEF Calm, HistoryOK
  <2>2. TouchedAssets(a)' \subseteq binding'[a].unlocked \cup {None}
    BY <1>1, <1>4
  <2>3. lastReveal'[a].unlocked \cap TouchedAssets(a)' \subseteq lastReveal'[a].touched
    BY <1>1, <1>4, <2>1
  <2> QED
    BY <2>2, <2>3
<1> QED
  BY <1>2, <1>3, <1>4, RevealMoves

LEMMA AnswersAreTouchesStep == Calm => AnswersAreTouches'
<1> SUFFICES ASSUME Calm, NEW a \in Attackers, FirstBinding(a)', NEW i \in DOMAIN rows'[a],
                    rows'[a][i].status = "answered", rows'[a][i].batch = lastReveal'[a].unlocked
             PROVE  lastReveal'[a].unlocked \cap lastReveal'[a].touched # {}
  BY DEF AnswersAreTouches, Answered
<1>1. TypeOK /\ Next /\ FirstBinding(a)
  BY RevealMoves DEF Calm, BaseInv, Next
<1>2. ASSUME NEW k \in DOMAIN rows[a], rows[a][k].status = "answered",
             rows[a][k].batch = lastReveal[a].unlocked
      PROVE  lastReveal[a].unlocked \cap lastReveal[a].touched # {}
  BY <1>1, <1>2 DEF Calm, CalmInv, AnswersAreTouches, Answered
<1>3. CASE UNCHANGED rows
  <2>1. CASE lastReveal'[a] = lastReveal[a]
    BY <1>2, <1>3, <2>1
  <2>2. CASE Apply /\ a = job.attacker /\ lastReveal'[a].unlocked = UnlockedBy(job.acts)
    <3>1. pc = "applying"
      BY <2>2 DEF Apply
    <3>2. \A k \in DOMAIN rows[a] : rows[a][k].batch # UnlockedBy(job.acts)
      BY <1>1, <2>2, <3>1, JobIsUntouched DEF Calm
    <3> QED
      BY <1>3, <2>2, <3>2
  <2>3. CASE /\ lastReveal'[a].unlocked = lastReveal[a].unlocked
             /\ lastReveal[a].touched \subseteq lastReveal'[a].touched
    BY <1>2, <1>3, <2>3
  <2> QED
    BY <2>1, <2>2, <2>3, RevealMoves
<1>4. CASE rows' = Resolved /\ UNCHANGED lastReveal
  <2>1. i \in DOMAIN rows[a] /\ rows'[a][i].batch = rows[a][i].batch
    BY <1>1, <1>4, ResolvedKeepsRows
  <2>2. rows'[a][i].status = Outcome(a, rows[a][i])
    <3>1. rows[a][i] \in Row
      BY <1>1, <2>1 DEF TypeOK
    <3>2. Resolved[a][i] = [rows[a][i] EXCEPT !.status = Outcome(a, rows[a][i])]
      BY <2>1 DEF Resolved
    <3> QED
      BY <1>4, <3>1, <3>2 DEF Row
  <2>3. CASE rows[a][i].status = "answered"
    BY <1>2, <1>4, <2>1, <2>3
  <2>4. CASE Touched(a, rows[a][i])
    <3>1. rows[a][i].asset \in TouchedAssets(a)
      BY <2>4 DEF Touched, TouchedAssets
    <3>2. rows[a][i].asset \in lastReveal[a].unlocked
      BY <1>4, <2>1 DEF Calm, BaseInv, RowsNameOpenAssets
    <3>3. lastReveal[a].unlocked \cap TouchedAssets(a) \subseteq lastReveal[a].touched
      BY <1>1 DEF Calm, CalmInv, TouchesAreKnown
    <3> QED
      BY <1>4, <3>1, <3>2, <3>3
  <2> QED
    BY <2>2, <2>3, <2>4 DEF Outcome
<1>5. ASSUME NEW x \in unrecorded, RecordsRow(x)
      PROVE  lastReveal'[a].unlocked \cap lastReveal'[a].touched # {}
  <2>1. UNCHANGED lastReveal
    BY <1>5 DEF RecordsRow
  <2>2. CASE a # job.attacker
    BY <1>1, <1>2, <1>5, <2>1, <2>2, RowAdded
  <2>3. CASE a = job.attacker
    <3>1. /\ DOMAIN rows'[a] = 1..(Len(rows[a]) + 1)
          /\ \A k \in 1..Len(rows[a]) : rows'[a][k] = rows[a][k]
          /\ rows'[a][Len(rows[a]) + 1] = RowOf(x)
      BY <1>1, <1>5, <2>3, RowAdded
    <3>2. rows[a] \in Seq(Row)
      BY <1>1 DEF TypeOK
    <3>3. i \in 1..Len(rows[a]) \/ i = Len(rows[a]) + 1
      BY <3>1, <3>2
    <3>4. i # Len(rows[a]) + 1
      BY <3>1 DEF RowOf
    <3>5. i \in DOMAIN rows[a] /\ rows'[a][i] = rows[a][i]
      BY <3>1, <3>2, <3>3, <3>4
    <3> QED
      BY <1>2, <2>1, <3>5
  <2> QED
    BY <2>2, <2>3
<1> QED
  BY <1>1, <1>3, <1>4, <1>5, CalmCases DEF Calm, CalmInv, Quiet, Apply, NewEvidence, HttpTouch, Rebind, files

LEMMA LastBatchStep == Calm => LastBatchIsLastReveal'
<1> DEFINE LastBatch(a) ==
             \/ lastReveal[a].unlocked = {}
             \/ rows[a] # <<>> /\ rows[a][Len(rows[a])].batch = lastReveal[a].unlocked
             \/ RowsWaiting(a)
<1> SUFFICES ASSUME Calm, NEW a \in Attackers, FirstBinding(a)'
             PROVE  /\ LastBatch(a)'
                    /\ RowsWaiting(a)' => UnlockedBy(job'.acts) = lastReveal'[a].unlocked
  BY DEF LastBatchIsLastReveal, UnlockedBy, ActionsIn
<1>1. TypeOK /\ HistoryOK /\ NothingLeftBehind /\ Next /\ FirstBinding(a)
  BY RevealMoves DEF Calm, CalmInv, BaseInv, Next
<1>2. LastBatch(a) /\ (RowsWaiting(a) => UnlockedBy(job.acts) = lastReveal[a].unlocked)
  BY <1>1 DEF Calm, CalmInv, LastBatchIsLastReveal
<1>3. rows[a] \in Seq(Row) /\ Len(rows[a]) \in Nat /\ DOMAIN rows[a] = 1..Len(rows[a])
  BY <1>1 DEF TypeOK
<1>4. CASE lastReveal'[a].unlocked = lastReveal[a].unlocked /\ UNCHANGED <<rows, pc, job, unrecorded>>
  BY <1>2, <1>4 DEF RowsWaiting
<1>5. CASE Quiet /\ ~(pc = "recording" /\ unrecorded # {}) /\ pc' # "recording"
  BY <1>2, <1>5 DEF Quiet, RowsWaiting
<1>6. CASE rows' = Resolved /\ pc = "feedback" /\ pc' = "dump" /\ UNCHANGED lastReveal
  <2>1. DOMAIN rows'[a] = DOMAIN rows[a] /\ rows'[a] \in Seq(Row)
    BY <1>1, <1>6, ResolvedKeepsRows
  <2>2. Len(rows'[a]) = Len(rows[a])
    BY <1>3, <2>1
  <2>3. ~RowsWaiting(a) /\ ~RowsWaiting(a)'
    BY <1>6 DEF RowsWaiting
  <2>4. ASSUME rows[a] # <<>>
        PROVE  /\ rows'[a] # <<>>
               /\ rows'[a][Len(rows'[a])].batch = rows[a][Len(rows[a])].batch
    <3>1. Len(rows[a]) \in DOMAIN rows[a]
      BY <1>3, <2>4
    <3>2. Resolved[a][Len(rows[a])].batch = rows[a][Len(rows[a])].batch
      BY <1>1, <3>1, ResolvedKeepsRows
    <3>3. rows'[a] # <<>>
      BY <2>1, <3>1
    <3> QED
      BY <1>6, <2>2, <3>2, <3>3
  <2> QED
    BY <1>2, <1>6, <2>3, <2>4
<1>7. ASSUME NEW x \in unrecorded, RecordsRow(x)
      PROVE  /\ LastBatch(a)'
             /\ RowsWaiting(a)' => UnlockedBy(job'.acts) = lastReveal'[a].unlocked
  <2>1. /\ pc = "recording" /\ UNCHANGED <<lastReveal, pc, job>> /\ unrecorded' = unrecorded \ {x}
    BY <1>7 DEF RecordsRow
  <2>2. CASE a # job.attacker
    <3>1. rows'[a] = rows[a]
      BY <1>1, <1>7, <2>2, RowAdded
    <3>2. ~RowsWaiting(a) /\ ~RowsWaiting(a)'
      BY <2>1, <2>2 DEF RowsWaiting
    <3> QED
      BY <1>2, <2>1, <3>1, <3>2
  <2>3. CASE a = job.attacker
    <3>1. RowsWaiting(a)
      BY <2>1, <2>3 DEF RowsWaiting
    <3>2. UnlockedBy(job.acts) = lastReveal[a].unlocked
      BY <1>2, <3>1
    <3>3. /\ Len(rows'[a]) = Len(rows[a]) + 1
          /\ Len(rows[a]) + 1 \in DOMAIN rows'[a]
          /\ rows'[a][Len(rows[a]) + 1].batch = UnlockedBy(job.acts)
      <4>1. /\ Len(rows'[a]) = Len(rows[a]) + 1 /\ DOMAIN rows'[a] = 1..(Len(rows[a]) + 1)
            /\ rows'[a][Len(rows[a]) + 1] = RowOf(x)
        BY <1>1, <1>7, <2>3, RowAdded
      <4>2. RowOf(x).batch = UnlockedBy(job.acts)
        BY DEF RowOf
      <4> QED
        BY <1>3, <4>1, <4>2
    <3>4. rows'[a] # <<>>
      BY <3>3
    <3>5. LastBatch(a)'
      BY <2>1, <3>2, <3>3, <3>4
    <3>6. UnlockedBy(job'.acts) = lastReveal'[a].unlocked
      BY <2>1, <3>2
    <3> QED
      BY <3>5, <3>6
  <2> QED
    BY <2>2, <2>3
<1>8. CASE Apply
  <2>1. /\ pc = "applying" /\ pc' = "recording" /\ Perform(job, job.acts)
        /\ unrecorded' = UnlockedBy(job.acts) /\ UNCHANGED <<rows, job>>
    BY <1>8 DEF Apply, files
  <2>2. ~RowsWaiting(a)
    BY <2>1 DEF RowsWaiting
  <2>3. job \in Job /\ job.acts \in Seq(Action)
    BY <1>1 DEF TypeOK, Job
  <2>4. CASE a # job.attacker
    <3>1. lastReveal'[a] = lastReveal[a]
      BY <1>1, <2>1, <2>3, <2>4, PerformRecorded
    <3>2. ~RowsWaiting(a)'
      BY <2>1, <2>4 DEF RowsWaiting
    <3> QED
      BY <1>2, <2>1, <2>2, <3>1, <3>2
  <2>5. CASE a = job.attacker
    <3>1. job.gen = binding[a].gen
      BY <1>1, <2>1, <2>5, JobIsUntouched DEF Calm
    <3>2. CASE job.acts = <<>>
      <4>1. UnlockedBy(job.acts) = {}
        BY <3>2 DEF UnlockedBy, ActionsIn
      <4>2. ~RowsWaiting(a)'
        BY <2>1, <4>1 DEF RowsWaiting
      <4>3. UNCHANGED lastReveal
        BY <2>1, <3>2 DEF Perform
      <4> QED
        BY <1>2, <2>1, <2>2, <4>2, <4>3
    <3>3. CASE job.acts # <<>>
      <4>1. lastReveal'[a].unlocked = UnlockedBy(job.acts)
        <5>1. lastReveal'[a] = [unlocked |-> UnlockedBy(job.acts), touched |-> {}]
          BY <1>1, <2>1, <2>3, <2>5, <3>1, <3>3, PerformRecorded DEF Perform, HistoryOK
        <5> QED
          BY <5>1
      <4>2. RowsWaiting(a)' \/ UnlockedBy(job.acts) = {}
        BY <2>1, <2>5 DEF RowsWaiting
      <4> QED
        BY <2>1, <4>1, <4>2
    <3> QED
      BY <3>2, <3>3
  <2> QED
    BY <2>4, <2>5
<1>9. CASE \E b \in Attackers : \/ \E x \in Assets \cup {None} : NewEvidence(b, x)
                                \/ \E x \in Assets : HttpTouch(b, x)
                                \/ Rebind(b)
  <2>1. ~Apply /\ UNCHANGED <<rows, pc, job, unrecorded>>
    BY <1>9 DEF NewEvidence, HttpTouch, Rebind, files, tick, Apply
  <2>2. lastReveal'[a].unlocked = lastReveal[a].unlocked
    BY <2>1, RevealMoves
  <2> QED
    BY <1>4, <2>1, <2>2
<1> QED
  BY <1>1, <1>4, <1>5, <1>6, <1>7, <1>8, <1>9, CalmCases DEF Calm, Quiet

\* An open gate means that the last reveal is answered.
LEMMA GateMeans ==
  ASSUME BaseInv, HistoryOK, CalmInv, pc = "scan", turn \in Attackers, FirstBinding(turn), CurrentGateOpen
  PROVE  lastReveal[turn].unlocked = {} \/ Answered(turn)
<1>1. TypeOK /\ ~feedbackTorn /\ ~RowsWaiting(turn)
  BY DEF BaseInv, CalmInv, NothingLeftBehind, RowsWaiting
<1>2. rows[turn] \in Seq(Row) /\ Len(rows[turn]) \in Nat /\ DOMAIN rows[turn] = 1..Len(rows[turn])
  BY <1>1 DEF TypeOK
<1>3. snap[turn].binding.gen = 0
  <2>1. snap[turn].binding.gen <= 0
    BY DEF BaseInv, SnapshotsLag, FirstBinding
  <2>2. snap[turn].binding \in Binding
    BY <1>1 DEF TypeOK
  <2> QED
    BY <2>1, <2>2 DEF Binding
<1>4. ASSUME NEW i \in DOMAIN rows[turn] PROVE rows[turn][i].gen = 0
  <2>1. rows[turn][i] \in Row /\ rows[turn][i].gen <= 0
    BY <1>2 DEF BaseInv, NothingAhead, FirstBinding
  <2> QED
    BY <2>1 DEF Row
<1>5. ReadRows(turn, Snapshot.binding.gen) = DOMAIN rows[turn]
  BY <1>1, <1>3, <1>4 DEF ReadRows, Snapshot
<1>6. \/ lastReveal[turn].unlocked = {}
      \/ rows[turn] # <<>> /\ rows[turn][Len(rows[turn])].batch = lastReveal[turn].unlocked
  BY <1>1 DEF CalmInv, LastBatchIsLastReveal
<1>7. ASSUME rows[turn] # <<>>, rows[turn][Len(rows[turn])].batch = lastReveal[turn].unlocked
      PROVE  Answered(turn)
  <2>1. Len(rows[turn]) \in DOMAIN rows[turn]
    BY <1>2, <1>7
  <2>2. GateOpen(turn, DOMAIN rows[turn], RecentAssets(turn, Snapshot.evidence))
    BY <1>5 DEF CurrentGateOpen
  <2>3. PICK i \in LatestBatch(turn, DOMAIN rows[turn]) :
          \/ rows[turn][i].status = "answered"
          \/ rows[turn][i].batch \cap RecentAssets(turn, Snapshot.evidence) # {}
    BY <2>1, <2>2 DEF GateOpen
  <2>4. i \in DOMAIN rows[turn] /\ rows[turn][i].batch = lastReveal[turn].unlocked
    <3>1. PICK last \in DOMAIN rows[turn] :
            (\A k \in DOMAIN rows[turn] : k <= last) /\ rows[turn][i].batch = rows[turn][last].batch
      BY <2>3 DEF LatestBatch
    <3>2. last = Len(rows[turn])
      <4>1. last \in 1..Len(rows[turn]) /\ Len(rows[turn]) <= last
        BY <1>2, <2>1, <3>1, Zenon
      <4>2. Len(rows[turn]) \in Nat
        BY <1>2
      <4> QED
        BY <4>1, <4>2
    <3> QED
      BY <1>7, <2>3, <3>1, <3>2 DEF LatestBatch
  <2>5. CASE rows[turn][i].status = "answered"
    BY <2>4, <2>5 DEF CalmInv, AnswersAreTouches
  <2>6. CASE rows[turn][i].batch \cap RecentAssets(turn, Snapshot.evidence) # {}
    <3>1. RecentAssets(turn, Snapshot.evidence) \subseteq TouchedAssets(turn)
      <4>1. /\ evidence[turn] \in Seq(Evidence) /\ snap[turn].evidence \in Nat
            /\ snap[turn].evidence <= Len(evidence[turn])
        BY <1>1 DEF TypeOK, BaseInv, SnapshotsLag
      <4>2. 1..snap[turn].evidence \subseteq DOMAIN evidence[turn]
        BY <4>1
      <4> QED
        BY <4>2 DEF RecentAssets, InWindow, Snapshot, TouchedAssets
    <3>2. lastReveal[turn].unlocked \cap TouchedAssets(turn) \subseteq lastReveal[turn].touched
      BY DEF CalmInv, TouchesAreKnown
    <3> QED
      BY <2>4, <2>6, <3>1, <3>2 DEF Answered
  <2> QED
    BY <2>3, <2>5, <2>6
<1> QED
  BY <1>6, <1>7

LEMMA GateWasOpenStep == Calm => GateWasOpen'
<1> SUFFICES ASSUME Calm, pc' \in {"asking", "applying"}, binding'[turn'].gen = 0
             PROVE  lastReveal'[turn'].unlocked = {} \/
                    lastReveal'[turn'].unlocked \cap lastReveal'[turn'].touched # {}
  BY DEF GateWasOpen, FirstBinding, Answered
<1>1. TypeOK /\ InTurn /\ InTurn' /\ Next
  BY InTurnStep DEF Calm, BaseInv, Next
<1>2. UNCHANGED turn /\ (pc \in {"asking", "applying"} \/ PassGate)
  BY <1>1, AskingMoves, ApplyingMoves DEF Calm
<1>3. turn \in Attackers
  BY <1>1, <1>2 DEF InTurn
<1>4. PICK a \in Attackers : a = turn
  BY <1>3
<1>5. FirstBinding(a)'
  BY <1>2, <1>4 DEF FirstBinding
<1>6. FirstBinding(a)
  BY <1>5, RevealMoves
<1>7. lastReveal[a].unlocked = {} \/ lastReveal[a].unlocked \cap lastReveal[a].touched # {}
  <2>1. CASE pc \in {"asking", "applying"}
    BY <1>4, <1>6, <2>1 DEF Calm, CalmInv, GateWasOpen, Answered
  <2>2. CASE PassGate
    <3>1. pc = "scan" /\ CurrentGateOpen /\ FirstBinding(turn)
      BY <1>4, <1>6, <2>2 DEF PassGate
    <3> QED
      BY <1>3, <1>4, <3>1, GateMeans DEF Calm, Answered
  <2> QED
    BY <1>2, <2>1, <2>2
<1>8. ~Apply
  BY DEF Apply
<1>9. /\ lastReveal'[a].unlocked = lastReveal[a].unlocked
      /\ lastReveal[a].touched \subseteq lastReveal'[a].touched
  BY <1>5, <1>8, RevealMoves
<1> QED
  BY <1>2, <1>4, <1>7, <1>9

LEMMA UndisturbedStep == BaseInv /\ RevealInv /\ UndisturbedInv /\ Next => UndisturbedInv'
<1> SUFFICES ASSUME BaseInv, RevealInv, UndisturbedInv, Next PROVE UndisturbedInv'
  OBVIOUS
<1>1. HistoryOK /\ HistoryOK' /\ (Undisturbed => CalmInv)
  BY HistoryStep DEF BaseInv, UndisturbedInv, CalmInv
<1>2. ASSUME Undisturbed' PROVE CalmInv'
  <2>1. Undisturbed /\ (LoopStep \/ Environment)
    BY <1>1, <1>2, CalmSteps DEF CalmInv
  <2>2. CalmInv /\ Calm
    BY <1>1, <2>1 DEF Calm
  <2>3. NothingLeftBehind' /\ UsedIsMarked' /\ JobIsNew'
    BY <1>1, <2>1, <2>2, NothingLeftStep, UsedIsMarkedStep, JobIsNewStep DEF CalmInv, RevealInv
  <2>4. TouchesAreKnown' /\ SnapshotIsCurrent' /\ LastBatchIsLastReveal'
    BY <2>2, TouchesAreKnownStep, SnapshotIsCurrentStep, LastBatchStep
  <2>5. AnswersAreTouches' /\ GateWasOpen'
    BY <2>2, AnswersAreTouchesStep, GateWasOpenStep
  <2> QED
    BY <2>3, <2>4, <2>5 DEF CalmInv
<1> QED
  BY <1>1, <1>2 DEF UndisturbedInv, CalmInv

LEMMA UndisturbedInit == Init => UndisturbedInv
<1> SUFFICES ASSUME Init PROVE UndisturbedInv
  OBVIOUS
<1>1. HistoryOK
  <2>1. faults \in [timeouts : 0..MaxTimeouts, crashes : 0..MaxCrashes]
    BY LoopAssumption DEF Init
  <2>2. NothingRevealed \in [unlocked : SUBSET Assets, touched : SUBSET Assets]
    BY DEF NothingRevealed
  <2> QED
    BY <2>1, <2>2 DEF Init, HistoryOK
<1>2. NothingLeftBehind /\ UsedIsMarked /\ JobIsNew
  BY DEF Init, NothingLeftBehind, UsedIsMarked, JobIsNew
<1>3. TouchesAreKnown /\ SnapshotIsCurrent
  <2>1. ASSUME NEW a \in Attackers PROVE TouchedAssets(a) = {}
    BY <2>1 DEF Init, TouchedAssets
  <2>2. TouchesAreKnown
    BY <2>1 DEF TouchesAreKnown
  <2>3. SnapshotIsCurrent
    BY DEF Init, SnapshotIsCurrent
  <2> QED
    BY <2>2, <2>3
<1>4. LastBatchIsLastReveal
  BY DEF Init, LastBatchIsLastReveal, RowsWaiting, NothingRevealed
<1>5. AnswersAreTouches /\ GateWasOpen
  BY DEF Init, AnswersAreTouches, GateWasOpen
<1> QED
  BY <1>1, <1>2, <1>3, <1>4, <1>5 DEF UndisturbedInv

-------------------------------------------------------------------------------
(* The theorems.                                                             *)

LEMMA LoopInit == Init => LoopInv
BY BaseInit, RevealInit, UndisturbedInit DEF LoopInv

LEMMA LoopNext == LoopInv /\ [Next]_vars => LoopInv'
<1> SUFFICES ASSUME LoopInv, [Next]_vars PROVE LoopInv'
  OBVIOUS
<1>1. CASE Next
  BY <1>1, BaseStep, RevealStep, UndisturbedStep DEF LoopInv
<1>2. CASE UNCHANGED vars
  <2>1. BaseInv'
    BY <1>2, BaseStep DEF LoopInv
  <2>2. UNCHANGED <<clock, evidence, touches, binding, rows, feedbackTorn, processed, stateTorn,
                    pc, snap, turn, job, unrecorded, late, faults, used, lastReveal>>
    BY <1>2 DEF vars, files, world, tick
  <2>3. OneRowPerAsset' /\ SnapshotKnowsRows' /\ JobOfTurn'
    BY <2>2 DEF LoopInv, RevealInv, OneRowPerAsset, SnapshotKnowsRows, Ahead, JobOfTurn
  <2>4. JobOpensNew' /\ RowsToCome'
    BY <2>2 DEF LoopInv, RevealInv, JobOpensNew, UnlockedBy, ActionsIn, RowsToCome
  <2>5. DependenciesHold' /\ SnapshotsBehind'
    BY <2>2 DEF LoopInv, RevealInv, DependenciesHold, SnapshotsBehind
  <2>6. PlansStand'
    BY <2>2 DEF LoopInv, RevealInv, PlansStand, OpenedBefore, ExposedBy, Configure
  <2>7. HistoryOK' /\ (Undisturbed' => Undisturbed)
    BY <2>2 DEF LoopInv, UndisturbedInv, HistoryOK, Undisturbed
  <2>8. ASSUME CalmInv PROVE CalmInv'
    <3>1. NothingLeftBehind' /\ UsedIsMarked'
      BY <2>2, <2>8 DEF CalmInv, NothingLeftBehind, UsedIsMarked
    <3>2. JobIsNew'
      BY <2>2, <2>8 DEF CalmInv, JobIsNew, HasNewEvidence, CurrentIds, RecentEvidence, InWindow, Snapshot
    <3>3. TouchesAreKnown' /\ SnapshotIsCurrent'
      BY <2>2, <2>8 DEF CalmInv, TouchesAreKnown, TouchedAssets, FirstBinding, SnapshotIsCurrent, Ahead
    <3>4. LastBatchIsLastReveal'
      BY <2>2, <2>8 DEF CalmInv, LastBatchIsLastReveal, RowsWaiting, FirstBinding, UnlockedBy, ActionsIn
    <3>5. AnswersAreTouches' /\ GateWasOpen'
      BY <2>2, <2>8 DEF CalmInv, AnswersAreTouches, GateWasOpen, Answered, FirstBinding
    <3> QED
      BY <3>1, <3>2, <3>3, <3>4, <3>5 DEF CalmInv
  <2> QED
    BY <2>1, <2>3, <2>4, <2>5, <2>6, <2>7, <2>8 DEF LoopInv, RevealInv, UndisturbedInv, CalmInv
<1> QED
  BY <1>1, <1>2

\* The inductive invariant holds for any catalog, number of attackers, bound on
\* the world, timeouts, crashes and rebinds.
THEOREM LoopInvariant == Spec => []LoopInv
BY LoopInit, LoopNext, PTL DEF Spec

\* The state of the loop (tick_once and its files) is always well-formed.
THEOREM LoopTypeCorrect == Spec => []TypeOK
<1>1. LoopInv => TypeOK
  BY DEF LoopInv, BaseInv
<1> QED
  BY <1>1, LoopInvariant, PTL

\* A feedback row names only assets that are unlocked in the binding it is about,
\* through timeouts, crashes and rebinds; not that their runtimes have started.
THEOREM RowsNameOpenAssetsTheorem == Spec => []RowsNameOpenAssets
<1>1. LoopInv => RowsNameOpenAssets
  BY DEF LoopInv, BaseInv
<1> QED
  BY <1>1, LoopInvariant, PTL

\* Evidence that arrives during a tick is never marked as processed by it.
THEOREM UnseenStaysNewTheorem == Spec => []UnseenStaysNew
<1>1. LoopInv => UnseenStaysNew
  BY DEF LoopInv, BaseInv
<1> QED
  BY <1>1, LoopInvariant, PTL

\* An asset is revealed and its outcome counted once per binding, whatever times
\* out or crashes.
THEOREM OneRowPerAssetTheorem == Spec => []OneRowPerAsset
<1>1. LoopInv => OneRowPerAsset
  BY DEF LoopInv, RevealInv
<1> QED
  BY <1>1, LoopInvariant, PTL

\* What is open had its dependencies open, unless a configuration variant opened
\* it: also after half a plan, or a plan from an old snapshot.
THEOREM DependenciesHoldTheorem == Spec => []DependenciesHold
<1>1. LoopInv => DependenciesHold
  BY DEF LoopInv, RevealInv
<1> QED
  BY <1>1, LoopInvariant, PTL

\* In an undisturbed run a reveal is an answer to the job of the turn, for the
\* binding the job was planned for.
LEMMA RevealIsApply ==
  ASSUME LoopInv, Next, Undisturbed, NEW a \in Attackers, Reveals(a)
  PROVE  /\ CalmInv /\ Apply /\ a = job.attacker /\ a = turn
         /\ used'[a] = used[a] \cup job.ids
<1>1. TypeOK /\ HistoryOK /\ NothingLeftBehind /\ CalmInv /\ JobOfTurn
  BY DEF LoopInv, BaseInv, RevealInv, UndisturbedInv, CalmInv
<1>2. binding \in [Attackers -> Binding] /\ job \in Job /\ job.acts \in Seq(Action)
  BY <1>1 DEF TypeOK, Job
<1>3. CASE Apply
  <2>1. Perform(job, job.acts) /\ pc = "applying"
    BY <1>3 DEF Apply
  <2>2. a = job.attacker
    BY <1>2, <2>1, PerformOpens DEF Reveals
  <2>3. binding' # binding
    BY DEF Reveals
  <2>4. used'[a] = used[a] \cup job.ids
    BY <1>1, <1>2, <2>1, <2>2, <2>3, PerformRecorded
  <2> QED
    BY <1>1, <1>3, <2>1, <2>2, <2>4 DEF JobOfTurn
<1>4. ASSUME ~Apply PROVE FALSE
  <2>1. CASE UNCHANGED binding
    BY <2>1 DEF Reveals
  <2>2. ASSUME NEW b \in Attackers, Rebind(b) PROVE FALSE
    <3>1. binding' = [binding EXCEPT ![b] = Fresh(binding[b].gen + 1)]
      BY <2>2 DEF Rebind
    <3>2. a = b
      BY <1>2, <3>1 DEF Reveals
    <3>3. binding'[a].gen = binding[a].gen + 1
      BY <1>2, <3>1, <3>2 DEF Fresh
    <3>4. binding[a].gen \in Nat
      <4>1. binding[a] \in Binding
        BY <1>2
      <4> QED
        BY <4>1 DEF Binding
    <3> QED
      BY <3>3, <3>4 DEF Reveals
  <2> USE DEF files, world, tick
  <2>3. CASE LoopStep
    BY <1>4, <2>1, <2>3 DEF LoopStep, StartTick, ResolveFeedback, DumpFeedback, LoadLoopState, EndTick,
        SkipAttacker, BlockByGate, PassGate, AskController, RecordRow, MarkApplied, DumpLoopState
  <2>4. CASE Environment
    BY <2>1, <2>2, <2>4 DEF Environment, NewEvidence, HttpTouch, ClockTick
  <2>5. CASE Failure
    BY <1>1, <2>1, <2>5 DEF NothingLeftBehind, Failure, ControllerFails, ApplyTimesOut, LateApply, Crash
  <2> QED
    BY <2>3, <2>4, <2>5 DEF Next
<1> QED
  BY <1>3, <1>4

\* As long as nothing has failed, a reveal rests on evidence no earlier reveal
\* rested on (load_loop_state).
THEOREM EvidenceServesOnceTheorem == Spec => EvidenceServesOnce
<1>1. ASSUME LoopInv, Next, NEW a \in Attackers, Reveals(a), Undisturbed PROVE used'[a] # used[a]
  <2>1. CalmInv /\ pc = "applying" /\ a = turn /\ used'[a] = used[a] \cup job.ids
    BY <1>1, RevealIsApply DEF Apply
  <2>2. job.ids = CurrentIds /\ CurrentIds \ processed[turn] # {}
    BY <2>1 DEF CalmInv, JobIsNew, HasNewEvidence, CurrentIds
  <2>3. used[a] \subseteq processed[a]
    BY <1>1, <2>1 DEF CalmInv, UsedIsMarked
  <2> HIDE DEF CurrentIds
  <2> QED
    BY <2>1, <2>2, <2>3
<1>2. LoopInv /\ [Next]_vars => [\A a \in Attackers : Reveals(a) /\ Undisturbed => used'[a] # used[a]]_vars
  BY <1>1
<1> QED
  BY <1>2, LoopInvariant, PTL DEF Spec, EvidenceServesOnce

\* As long as nothing has failed, no reveal for an attacker with the first binding
\* while the batch that was unlocked last is untouched (response_gate_decision).
THEOREM GateHoldsUndisturbedTheorem == Spec => GateHoldsUndisturbed
<1>1. ASSUME LoopInv, Next, NEW a \in Attackers, Reveals(a), Undisturbed, binding[a].gen = 0
      PROVE  \/ lastReveal[a].unlocked = {}
             \/ lastReveal[a].unlocked \cap lastReveal[a].touched # {}
  <2>1. CalmInv /\ pc = "applying" /\ a = turn
    BY <1>1, RevealIsApply DEF Apply
  <2> QED
    BY <1>1, <2>1 DEF CalmInv, GateWasOpen, FirstBinding, Answered
<1>2. LoopInv /\ [Next]_vars =>
        [\A a \in Attackers : Reveals(a) /\ Undisturbed /\ binding[a].gen = 0 =>
           \/ lastReveal[a].unlocked = {}
           \/ lastReveal[a].unlocked \cap lastReveal[a].touched # {}]_vars
  BY <1>1
<1> QED
  BY <1>2, LoopInvariant, PTL DEF Spec, GateHoldsUndisturbed
===============================================================================
