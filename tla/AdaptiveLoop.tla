------------------------------ MODULE AdaptiveLoop ------------------------------
(***************************************************************************)
(* The live control loop of scripts/runtime/adaptive_controller_loop.py.   *)
(*                                                                         *)
(* One single-threaded process polls bindings.json and profiles.json,      *)
(* resolves pending reveal feedback, and, attacker by attacker, asks the   *)
(* controller for reveals and posts them to the orchestrator.  Three of    *)
(* its memories live in files: reveal_feedback.json (rows), which closes   *)
(* the response gate, and adaptive_loop_state.json (processed), which      *)
(* keeps evidence from triggering twice; bindings.json is written by the   *)
(* orchestrator.  The two files the loop writes itself are rewritten in    *)
(* place, so a crash in the middle leaves them unreadable ("torn"), and an *)
(* unreadable file is read as the empty default.                           *)
(*                                                                         *)
(* Attackers act at any time.  A POST may time out while its handler goes  *)
(* on (late), and the loop may crash and restart at any step.              *)
(***************************************************************************)
EXTENDS Integers, Sequences, FiniteSets

CONSTANTS
  N,               \* attackers with a binding, scanned in key order
  Assets,          \* the internal assets of the catalog
  HttpAssets,      \* those behind an HTTP port, whose requests are logged raw
  Deps,            \* asset -> the assets that must be unlocked before it
  Variants,        \* configuration variants: [id, source, target]
  None,            \* "no asset": unmapped traffic, a variant without target
  UnlockCap,       \* RuntimeConfig.unlock_cap
  MaxActions,      \* --max-actions-per-trigger
  RecentIds,       \* how many evidence ids a profile keeps (5 in the code)
  ChainWindow,     \* RuntimeConfig.chain_window_seconds, in clock units
  FeedbackWindow,  \* --feedback-window-seconds, in clock units
  BatchSpan,       \* rows this close in time are one batch (5 s in the code)
  MaxClock,        \* bound: the clock
  MaxEvidence,     \* bound: evidence records per attacker
  MaxRebinds,      \* bound: new bindings per attacker
  MaxTimeouts,     \* bound: POSTs that fail or time out
  MaxCrashes       \* bound: crashes of the loop

Attackers == 1..N
Configs == {v.id : v \in Variants}

ASSUME LoopAssumption ==
  /\ N \in Nat \ {0}
  /\ None \notin Assets \cup Configs
  /\ HttpAssets \subseteq Assets
  /\ Deps \in [Assets -> SUBSET Assets]
  /\ \A v \in Variants : v.source \in Assets /\ v.target \in Assets \cup {None}
  /\ {UnlockCap, MaxActions, ChainWindow, FeedbackWindow, BatchSpan} \subseteq Nat
  /\ RecentIds \in Nat \ {0}
  /\ {MaxClock, MaxEvidence, MaxRebinds, MaxTimeouts, MaxCrashes} \subseteq Nat

VARIABLES
  clock,
  evidence,      \* attacker -> its evidence records, oldest first
  touches,       \* attacker -> assets named in internal_http_events.jsonl
  binding,       \* attacker -> its latest record in bindings.json
  rows,          \* attacker -> its rows in reveal_feedback.json
  feedbackTorn,  \* reveal_feedback.json is truncated
  processed,     \* attacker -> evidence ids in the loop state
  stateTorn,     \* adaptive_loop_state.json is truncated
  pc,            \* where the loop is
  snap,          \* bindings and profiles as read at the start of the tick
  turn,          \* the attacker the tick is looking at; N + 1 after the last
  job,           \* the reveals being applied for that attacker
  unrecorded,    \* its unlocked assets that have no feedback row yet
  late,          \* posted jobs the loop no longer waits for
  faults,        \* how many timeouts and crashes have happened
  used,          \* history: evidence ids that reveals have been based on
  lastReveal     \* history: what was revealed last, and touched since

files == <<rows, feedbackTorn, processed, stateTorn>>
world == <<evidence, touches, binding, late, used, lastReveal>>
tick  == <<snap, turn, job, unrecorded>>
vars  == <<clock, files, world, tick, pc, faults>>

-------------------------------------------------------------------------------
(* What a profile says once the attacker has n evidence records.             *)

InWindow(a, n) ==
  {i \in 1..n : evidence[a][i].ts >= evidence[a][n].ts - ChainWindow}

RecentEvidence(a, n) == {i \in InWindow(a, n) : i > n - RecentIds}
RecentAssets(a, n) == {evidence[a][i].asset : i \in InWindow(a, n)} \ {None}

HasNewEvidence(a, n) == RecentEvidence(a, n) \ processed[a] # {}

(* What the loop has read of the attacker whose turn it is.                  *)
Snapshot == snap[turn]
CurrentIds == RecentEvidence(turn, Snapshot.evidence)

-------------------------------------------------------------------------------
(* Reveals the controller may choose.  Which of the eligible ones it prefers *)
(* is scoring, and left open.                                                *)

Unlock(x) == [kind |-> "unlock", asset |-> x, id |-> None, target |-> None]
Configure(v) ==
  [kind |-> "configure", asset |-> v.source, id |-> v.id, target |-> v.target]

\* Mutant: a variant without a target "exposes" its missing target.
ExposedWithNone(act) == IF act.kind = "unlock" THEN {act.asset} ELSE {act.target}
ExposedBy(act) ==
  IF act.kind = "unlock" THEN {act.asset} ELSE {act.target} \ {None}

\* planned: the assets open once the actions chosen so far are applied;
\* count: the length of the list the code keeps them in.  Mutants: an asset
\* that is open is offered again; dependencies are not looked at.
EligibleAgain(x, planned, count) == count < UnlockCap /\ Deps[x] \subseteq planned
EligibleIgnoringDeps(x, planned, count) == x \notin planned /\ count < UnlockCap
Eligible(x, planned, count) ==
  x \notin planned /\ count < UnlockCap /\ Deps[x] \subseteq planned

ConfigurationOptions(b, active, planned) ==
  {v \in Variants :
     /\ v.source \in b.unlocked \cap active
     /\ v.id \notin b.revealed
     /\ v.target = v.source \/ v.target \notin planned}

Options(b, active, planned, count) ==
  {Unlock(x) : x \in {y \in Assets : Eligible(y, planned, count)}}
    \cup {Configure(v) : v \in ConfigurationOptions(b, active, planned)}

FirstChoices(b, active) == Options(b, active, b.unlocked, Cardinality(b.unlocked))
SecondChoices(b, active, act) ==
  Options(b, active, b.unlocked \cup ExposedBy(act),
          Cardinality(b.unlocked) + Cardinality(ExposedBy(act))) \ {act}

\* At most a main ("exploit") and an "explore" reveal, or none.
Plans(b, active) ==
  {<<>>} \cup UNION {{<<x>>} \cup {<<x, y>> : y \in SecondChoices(b, active, x)} :
                       x \in FirstChoices(b, active)}

Limit(acts) == IF Len(acts) <= MaxActions THEN acts ELSE SubSeq(acts, 1, MaxActions)

ActionsIn(acts) == {acts[i] : i \in DOMAIN acts}
UnlockedBy(acts) == {x.asset : x \in {y \in ActionsIn(acts) : y.kind = "unlock"}}

-------------------------------------------------------------------------------
(* Reveal feedback and the response gate.                                    *)

\* The rows of the binding the attacker had when the tick started, by their places.
ReadRows(a, gen) ==
  IF feedbackTorn THEN {} ELSE {i \in DOMAIN rows[a] : rows[a][i].gen = gen}

\* Evidence must not be older than the row.  The gateway's raw events carry no
\* time, so any of them matches; neither has to belong to the row's binding.
Touched(a, row) ==
  \/ \E i \in DOMAIN evidence[a] : evidence[a][i].asset = row.asset /\ evidence[a][i].ts >= row.ts
  \/ row.asset \in touches[a]

Expired(row) == clock - row.ts > FeedbackWindow

\* "answered" stands for both "useful" and "shallow".  The mutant looks at the
\* window before it looks for a touch.
OutcomeExpiryFirst(a, row) ==
  IF row.status # "pending" THEN row.status
  ELSE IF Expired(row) THEN "ignored"
  ELSE IF Touched(a, row) THEN "answered" ELSE "pending"
Outcome(a, row) ==
  IF row.status # "pending" THEN row.status
  ELSE IF Touched(a, row) THEN "answered"
  ELSE IF Expired(row) THEN "ignored" ELSE "pending"

Resolved ==
  [a \in Attackers |-> [i \in DOMAIN rows[a] |->
     [rows[a][i] EXCEPT !.status = Outcome(a, rows[a][i])]]]

\* Rows are appended in clock order, so the newest row is the last one.
LatestBatch(a, read) ==
  {i \in read : \E last \in read :
     /\ \A k \in read : k <= last
     /\ rows[a][i].batch = rows[a][last].batch
     /\ rows[a][last].ts - rows[a][i].ts <= BatchSpan}

\* Mutant: an ignored reveal no longer blocks.
GateOpenOnceResolved(a, read, recent) ==
  \/ read = {}
  \/ \E i \in LatestBatch(a, read) :
       rows[a][i].status # "pending" \/ rows[a][i].batch \cap recent # {}
GateOpen(a, read, recent) ==
  \/ read = {}
  \/ \E i \in LatestBatch(a, read) :
       rows[a][i].status = "answered" \/ rows[a][i].batch \cap recent # {}

-------------------------------------------------------------------------------
NoJob == [attacker |-> 1, gen |-> 0, acts |-> <<>>, ids |-> {}]
Fresh(gen) == [gen |-> gen, unlocked |-> {}, revealed |-> {}]
NothingRevealed == [unlocked |-> {}, touched |-> {}]

Init ==
  /\ clock = 0
  /\ evidence = [a \in Attackers |-> <<>>]
  /\ touches = [a \in Attackers |-> {}]
  /\ binding = [a \in Attackers |-> Fresh(0)]
  /\ rows = [a \in Attackers |-> <<>>]
  /\ processed = [a \in Attackers |-> {}]
  /\ feedbackTorn = FALSE /\ stateTorn = FALSE
  /\ pc = "idle"
  /\ snap = [a \in Attackers |-> [evidence |-> 0, binding |-> binding[a]]]
  /\ turn = 1 /\ job = NoJob /\ unrecorded = {} /\ late = {}
  /\ faults = [timeouts |-> 0, crashes |-> 0]
  /\ used = [a \in Attackers |-> {}]
  /\ lastReveal = [a \in Attackers |-> NothingRevealed]

(* The attackers, their profiles and the clock.                              *)

NoteTouch(a, x) == lastReveal' = [lastReveal EXCEPT ![a].touched = @ \cup ({x} \ {None})]

\* The profiler stores evidence, mapped to an open asset or to none, and
\* rebuilds the attacker's profile.  An HTTP request is in the raw log before
\* the forwarder posts it.
NewEvidence(a, x) ==
  /\ Len(evidence[a]) < MaxEvidence
  /\ x \in binding[a].unlocked \cup {None}
  /\ x \in HttpAssets => x \in touches[a]
  /\ evidence' = [evidence EXCEPT ![a] = Append(@, [asset |-> x, ts |-> clock])]
  /\ NoteTouch(a, x)
  /\ UNCHANGED <<clock, files, tick, pc, faults, touches, binding, late, used>>

\* A request to an open HTTP asset, whether or not some rule will map it.
HttpTouch(a, x) ==
  /\ x \in binding[a].unlocked \cap HttpAssets
  /\ touches' = [touches EXCEPT ![a] = @ \cup {x}]
  /\ NoteTouch(a, x)
  /\ UNCHANGED <<clock, files, tick, pc, faults, evidence, binding, late, used>>

\* The binding has expired and resolve creates a new one; evidence, profile
\* and raw events are kept per attacker key.
Rebind(a) ==
  /\ binding[a].gen < MaxRebinds
  /\ binding' = [binding EXCEPT ![a] = Fresh(@.gen + 1)]
  /\ lastReveal' = [lastReveal EXCEPT ![a] = NothingRevealed]
  /\ UNCHANGED <<clock, files, tick, pc, faults, evidence, touches, late, used>>

ClockTick ==
  /\ clock < MaxClock
  /\ clock' = clock + 1
  /\ UNCHANGED <<files, world, tick, pc, faults>>

-------------------------------------------------------------------------------
(* One tick of the loop.                                                     *)

StartTick ==
  /\ pc = "idle"
  /\ snap' = [a \in Attackers |-> [evidence |-> Len(evidence[a]), binding |-> binding[a]]]
  /\ pc' = "feedback"
  /\ UNCHANGED <<clock, files, world, turn, job, unrecorded, faults>>

\* update_reveal_feedback_from_evidence, up to opening the file for writing.
ResolveFeedback ==
  /\ pc = "feedback"
  /\ IF feedbackTorn \/ Resolved = rows
       THEN pc' = "load" /\ UNCHANGED <<rows, feedbackTorn>>
       ELSE pc' = "dump" /\ rows' = Resolved /\ feedbackTorn' = TRUE
  /\ UNCHANGED <<clock, processed, stateTorn, world, tick, faults>>

DumpFeedback ==
  /\ pc = "dump"
  /\ feedbackTorn' = FALSE
  /\ pc' = "load"
  /\ UNCHANGED <<clock, rows, processed, stateTorn, world, tick, faults>>

LoadLoopState ==
  /\ pc = "load"
  /\ IF stateTorn THEN processed' = [a \in Attackers |-> {}] ELSE UNCHANGED processed
  /\ turn' = 1
  /\ pc' = "scan"
  /\ UNCHANGED <<clock, rows, feedbackTorn, stateTorn, world, snap, job, unrecorded, faults>>

EndTick ==
  /\ pc = "scan" /\ turn > N
  /\ pc' = "idle"
  /\ turn' = 1
  /\ UNCHANGED <<clock, files, world, snap, job, unrecorded, faults>>

SkipAttacker ==
  /\ pc = "scan" /\ turn <= N
  /\ ~HasNewEvidence(turn, Snapshot.evidence)
  /\ turn' = turn + 1
  /\ UNCHANGED <<clock, files, world, pc, snap, job, unrecorded, faults>>

CurrentGateOpen ==
  GateOpen(turn, ReadRows(turn, Snapshot.binding.gen), RecentAssets(turn, Snapshot.evidence))

\* _mark_evidence_processed, then save_loop_state up to opening the file.
\* Mutants: the save is called, the mark is forgotten; the profile is read
\* again for the mark.
SaveWithoutMark == stateTorn' = TRUE /\ pc' = "saving" /\ UNCHANGED processed
MarkReread ==
  /\ processed' = [processed EXCEPT ![turn] =
                     @ \cup RecentEvidence(turn, Len(evidence[turn]))]
  /\ stateTorn' = TRUE
  /\ pc' = "saving"
MarkProcessed ==
  /\ processed' = [processed EXCEPT ![turn] = @ \cup CurrentIds]
  /\ stateTorn' = TRUE
  /\ pc' = "saving"

\* _finish_without_apply: besides the mark there is only a trace record.
FinishWithoutApply == MarkProcessed

\* The gate is closed: a no-reveal trace, and the evidence counts as processed.
\* Mutant: the loop moves on without processing it.
SkipWhenBlocked ==
  /\ pc = "scan" /\ turn <= N
  /\ HasNewEvidence(turn, Snapshot.evidence) /\ ~CurrentGateOpen
  /\ turn' = turn + 1
  /\ UNCHANGED <<clock, files, world, pc, snap, job, unrecorded, faults>>
BlockByGate ==
  /\ pc = "scan" /\ turn <= N
  /\ HasNewEvidence(turn, Snapshot.evidence) /\ ~CurrentGateOpen
  /\ FinishWithoutApply
  /\ UNCHANGED <<clock, rows, feedbackTorn, world, tick, faults>>

PassGate ==
  /\ pc = "scan" /\ turn <= N
  /\ HasNewEvidence(turn, Snapshot.evidence) /\ CurrentGateOpen
  /\ pc' = "asking"
  /\ UNCHANGED <<clock, files, world, tick, faults>>

AskController ==
  /\ pc = "asking"
  /\ \E acts \in Plans(Snapshot.binding, RecentAssets(turn, Snapshot.evidence)) :
       IF acts = <<>>
         THEN FinishWithoutApply /\ UNCHANGED job
         ELSE /\ job' = [attacker |-> turn, gen |-> Snapshot.binding.gen,
                          acts |-> Limit(acts), ids |-> CurrentIds]
              /\ pc' = "applying"
              /\ UNCHANGED <<processed, stateTorn>>
  /\ UNCHANGED <<clock, rows, feedbackTorn, world, snap, turn, unrecorded, faults>>

\* OrchestratorService.apply as the loop sees it: the actions done are in the
\* binding the job names, which is of no more use once there is a newer one.
Perform(j, done) ==
  LET a == j.attacker
      acts == ActionsIn(done)
      new == [binding[a] EXCEPT
                !.unlocked = @ \cup UNION {ExposedBy(x) : x \in acts},
                !.revealed = @ \cup ({x.id : x \in acts} \ {None})]
  IN IF done = <<>> \/ j.gen # binding[a].gen
       THEN UNCHANGED <<binding, used, lastReveal>>
       ELSE /\ binding' = [binding EXCEPT ![a] = new]
            /\ used' = [used EXCEPT ![a] = @ \cup j.ids]
            /\ lastReveal' = [lastReveal EXCEPT ![a] =
                 [unlocked |-> UnlockedBy(done), touched |-> {}]]

\* Mutant: an answer although only some of the actions were performed.
ApplyHalf ==
  /\ pc = "applying"
  /\ \E k \in 0..Len(job.acts) : Perform(job, SubSeq(job.acts, 1, k))
  /\ unrecorded' = UnlockedBy(job.acts)
  /\ pc' = "recording"
  /\ UNCHANGED <<clock, files, evidence, touches, late, snap, turn, job, faults>>
Apply ==
  /\ pc = "applying"
  /\ Perform(job, job.acts)
  /\ unrecorded' = UnlockedBy(job.acts)
  /\ pc' = "recording"
  /\ UNCHANGED <<clock, files, evidence, touches, late, snap, turn, job, faults>>

\* record_reveal_feedback writes one row per unlocked asset, each with its own
\* time; an unreadable file raises and ends the tick.
RecordRow ==
  /\ pc = "recording" /\ unrecorded # {}
  /\ IF feedbackTorn
       THEN pc' = "idle" /\ unrecorded' = {} /\ turn' = 1 /\ job' = NoJob /\ UNCHANGED rows
       ELSE \E x \in unrecorded :
              /\ rows' = [rows EXCEPT ![job.attacker] = Append(@,
                   [asset |-> x, batch |-> UnlockedBy(job.acts), gen |-> job.gen,
                    ts |-> clock, status |-> "pending"])]
              /\ unrecorded' = unrecorded \ {x}
              /\ UNCHANGED <<pc, turn, job>>
  /\ UNCHANGED <<clock, feedbackTorn, processed, stateTorn, world, snap, faults>>

MarkApplied ==
  /\ pc = "recording" /\ unrecorded = {}
  /\ MarkProcessed
  /\ job' = NoJob
  /\ UNCHANGED <<clock, rows, feedbackTorn, world, snap, turn, unrecorded, faults>>

DumpLoopState ==
  /\ pc = "saving"
  /\ stateTorn' = FALSE
  /\ turn' = turn + 1
  /\ pc' = "scan"
  /\ UNCHANGED <<clock, rows, feedbackTorn, processed, world, snap, job, unrecorded, faults>>

-------------------------------------------------------------------------------
(* Failures.  An exception ends the tick: the attackers still to do wait for *)
(* the next one.                                                             *)

AbandonTick == pc' = "idle" /\ turn' = 1 /\ job' = NoJob /\ unrecorded' = {}

ControllerFails ==
  /\ pc = "asking"
  /\ faults.timeouts < MaxTimeouts
  /\ faults' = [faults EXCEPT !.timeouts = @ + 1]
  /\ AbandonTick
  /\ UNCHANGED <<clock, files, world, snap>>

\* The orchestrator does not answer in time; its handler is still running.
\* Mutant: the loop takes the silence for success.
ApplyAssumed ==
  /\ pc = "applying"
  /\ faults.timeouts < MaxTimeouts
  /\ faults' = [faults EXCEPT !.timeouts = @ + 1]
  /\ late' = late \cup {job}
  /\ unrecorded' = UnlockedBy(job.acts)
  /\ pc' = "recording"
  /\ UNCHANGED <<clock, files, evidence, touches, binding, used, lastReveal, snap, turn, job>>
ApplyTimesOut ==
  /\ pc = "applying"
  /\ faults.timeouts < MaxTimeouts
  /\ faults' = [faults EXCEPT !.timeouts = @ + 1]
  /\ late' = late \cup {job}
  /\ AbandonTick
  /\ UNCHANGED <<clock, files, evidence, touches, binding, used, lastReveal, snap>>

\* An abandoned handler finishes, or fails after some of its actions.
LateApply(j) ==
  /\ late' = late \ {j}
  /\ \E k \in 0..Len(j.acts) : Perform(j, SubSeq(j.acts, 1, k))
  /\ UNCHANGED <<clock, files, evidence, touches, tick, pc, faults>>

Crash ==
  /\ pc # "idle"
  /\ faults.crashes < MaxCrashes
  /\ faults' = [faults EXCEPT !.crashes = @ + 1]
  /\ late' = IF pc = "applying" THEN late \cup {job} ELSE late
  /\ AbandonTick
  /\ UNCHANGED <<clock, files, evidence, touches, binding, used, lastReveal, snap>>

-------------------------------------------------------------------------------
LoopStep ==
  \/ StartTick \/ ResolveFeedback \/ DumpFeedback \/ LoadLoopState \/ EndTick
  \/ SkipAttacker \/ BlockByGate \/ PassGate \/ AskController \/ Apply
  \/ RecordRow \/ MarkApplied \/ DumpLoopState

Environment ==
  \/ \E a \in Attackers, x \in Assets \cup {None} : NewEvidence(a, x)
  \/ \E a \in Attackers, x \in Assets : HttpTouch(a, x)
  \/ \E a \in Attackers : Rebind(a)
  \/ ClockTick

Failure ==
  \/ ControllerFails
  \/ ApplyTimesOut
  \/ \E j \in late : LateApply(j)
  \/ Crash

Next == LoopStep \/ Environment \/ Failure

Spec == Init /\ [][Next]_vars

\* main() never stops polling; nobody makes an attacker act or the clock pass.
FairSpec == Spec /\ WF_vars(LoopStep)

-------------------------------------------------------------------------------
(* Properties.                                                               *)

Places == {"idle", "feedback", "dump", "load", "scan", "asking", "applying", "recording", "saving"}
Evidence == [asset : Assets \cup {None}, ts : 0..MaxClock]
Binding == [gen : 0..MaxRebinds, unlocked : SUBSET Assets, revealed : SUBSET Configs]
Action == [kind : {"unlock", "configure"}, asset : Assets,
           id : Configs \cup {None}, target : Assets \cup {None}]
Job == [attacker : Attackers, gen : 0..MaxRebinds, acts : Seq(Action), ids : SUBSET Nat]
Row == [asset : Assets, batch : SUBSET Assets, gen : 0..MaxRebinds, ts : 0..MaxClock,
        status : {"pending", "answered", "ignored"}]

\* The history variables are left out.
TypeOK ==
  /\ clock \in 0..MaxClock
  /\ evidence \in [Attackers -> Seq(Evidence)]
  /\ touches \in [Attackers -> SUBSET Assets]
  /\ binding \in [Attackers -> Binding]
  /\ rows \in [Attackers -> Seq(Row)]
  /\ processed \in [Attackers -> SUBSET Nat]
  /\ feedbackTorn \in BOOLEAN /\ stateTorn \in BOOLEAN
  /\ pc \in Places /\ turn \in 1..(N + 1)
  /\ snap \in [Attackers -> [evidence : Nat, binding : Binding]]
  /\ job \in Job /\ late \in SUBSET Job
  /\ unrecorded \in SUBSET Assets

\* a's binding gets a reveal.
Reveals(a) == binding'[a] # binding[a] /\ binding'[a].gen = binding[a].gen

\* load_loop_state: "so the same evidence does not reopen more assets".  Every
\* reveal rests on an evidence record that no earlier reveal rested on.
EvidenceUsedOnce == [][\A a \in Attackers : Reveals(a) => used'[a] # used[a]]_vars

\* As long as no POST has failed and no step was cut short.
Undisturbed == faults = [timeouts |-> 0, crashes |-> 0]

\* The response gate (response_gate_decision): no reveal while the batch of assets
\* that was unlocked last is untouched, for an attacker who never had another
\* binding (the raw events do not say which binding a touch was made under).
GateHoldsUndisturbed ==
  [][\A a \in Attackers : Reveals(a) /\ Undisturbed /\ binding[a].gen = 0 =>
       \/ lastReveal[a].unlocked = {}
       \/ lastReveal[a].unlocked \cap lastReveal[a].touched # {}]_vars

\* And no reveal rests on evidence only that an earlier one rested on.
EvidenceServesOnce ==
  [][\A a \in Attackers : Reveals(a) /\ Undisturbed => used'[a] # used[a]]_vars

\* record_reveal_feedback runs after the orchestrator's answer: a row, and so
\* the closed gate, names only assets unlocked in the binding the row is for, be
\* that answer late or never given.  Whether they can be reached is another matter:
\* a start that failed is answered like any other.
RowsNameOpenAssets ==
  \A a \in Attackers : \A i \in DOMAIN rows[a] :
    /\ rows[a][i].asset \in rows[a][i].batch
    /\ rows[a][i].gen = binding[a].gen => rows[a][i].batch \subseteq binding[a].unlocked

\* What the loop has marked as processed it has decided on: evidence that
\* arrives during a tick is never swallowed by it.
UnseenStaysNew == \A a \in Attackers : processed[a] \subseteq 1..snap[a].evidence

\* Why the two hold.  Inside an attacker's turn there is an attacker; what the
\* loop has read is behind what has happened; a generation no binding has had
\* yet has no rows and no jobs; while rows are being written, the reveals they
\* name are in the binding the job was for.
InTurn == pc \in {"asking", "applying", "recording", "saving"} => turn \in Attackers
SnapshotsLag ==
  \A a \in Attackers : /\ snap[a].evidence <= Len(evidence[a])
                       /\ snap[a].binding.gen <= binding[a].gen
NothingAhead ==
  /\ \A j \in late \cup {job} : j.gen <= binding[j.attacker].gen
  /\ \A a \in Attackers : \A i \in DOMAIN rows[a] : rows[a][i].gen <= binding[a].gen
JobDone ==
  pc = "recording" =>
    /\ unrecorded \subseteq UnlockedBy(job.acts)
    /\ job.gen = binding[job.attacker].gen =>
         UnlockedBy(job.acts) \subseteq binding[job.attacker].unlocked

\* An asset is revealed, and its outcome counted, at most once: timeouts,
\* crashes and stale snapshots never produce a second row.
OneRowPerAsset ==
  \A a \in Attackers : \A i, j \in DOMAIN rows[a] :
    rows[a][i].asset = rows[a][j].asset /\ rows[a][i].gen = rows[a][j].gen => i = j

\* Why it holds.  Ahead: the attacker's turn in this tick is still to come, or its
\* reveals are not applied yet.  Until then the snapshot knows every asset with a
\* row, the job opens assets the snapshot does not have, and so the rows that are
\* still to be written have no counterpart.
Ahead(a) ==
  \/ pc \in {"feedback", "dump", "load"}
  \/ pc \in {"scan", "asking", "applying"} /\ turn <= a
  \/ pc \in {"recording", "saving"} /\ turn < a
SnapshotKnowsRows ==
  \A a \in Attackers : Ahead(a) =>
    \A i \in DOMAIN rows[a] :
      rows[a][i].gen = snap[a].binding.gen => rows[a][i].asset \in snap[a].binding.unlocked
JobOfTurn ==
  pc \in {"applying", "recording"} =>
    job.attacker = turn /\ job.gen = snap[turn].binding.gen
JobOpensNew == pc = "applying" => UnlockedBy(job.acts) \cap snap[turn].binding.unlocked = {}
RowsToCome ==
  pc = "recording" =>
    \A i \in DOMAIN rows[job.attacker] :
      rows[job.attacker][i].gen = job.gen => rows[job.attacker][i].asset \notin unrecorded

\* Catalog dependencies survive stale snapshots, truncated plans and handlers
\* that stop half-way: what is open had its dependencies open, unless a
\* configuration variant opened it.
DependenciesHold ==
  \A a \in Attackers : \A x \in binding[a].unlocked :
    \/ Deps[x] \subseteq binding[a].unlocked
    \/ \E v \in Variants : v.id \in binding[a].revealed /\ v.target = x

\* Why it holds.  The snapshot of a binding that is still the latest has nothing
\* the binding lacks; and an action of a job that is of use finds its dependencies
\* in the binding or among what the actions before it open.
SnapshotsBehind ==
  \A a \in Attackers :
    snap[a].binding.gen = binding[a].gen => snap[a].binding.unlocked \subseteq binding[a].unlocked
OpenedBefore(j, i) ==
  binding[j.attacker].unlocked \cup UNION {ExposedBy(j.acts[k]) : k \in 1..(i - 1)}
PlansStand ==
  \A j \in late \cup {job} : j.gen = binding[j.attacker].gen =>
    \A i \in DOMAIN j.acts :
      \/ j.acts[i].kind = "unlock" /\ Deps[j.acts[i].asset] \subseteq OpenedBefore(j, i)
      \/ \E v \in Variants : j.acts[i] = Configure(v)

\* The history variables are what their names say.
HistoryOK ==
  /\ faults \in [timeouts : 0..MaxTimeouts, crashes : 0..MaxCrashes]
  /\ used \in [Attackers -> SUBSET Nat]
  /\ lastReveal \in [Attackers -> [unlocked : SUBSET Assets, touched : SUBSET Assets]]

\* Why evidence serves once.  Undisturbed, no handler is left behind and no file
\* torn but by the step that is writing it; what reveals have been based on is
\* marked before the turn ends; and a job rests on ids that are not marked.
NothingLeftBehind == late = {} /\ (stateTorn => pc = "saving") /\ (feedbackTorn => pc = "dump")
UsedIsMarked ==
  \A a \in Attackers :
    used[a] \subseteq processed[a] \cup (IF pc = "recording" /\ a = turn THEN job.ids ELSE {})
JobIsNew ==
  /\ pc = "asking" => HasNewEvidence(turn, Snapshot.evidence)
  /\ pc \in {"applying", "recording"} => job.ids = CurrentIds
  /\ pc = "applying" => HasNewEvidence(turn, Snapshot.evidence)

\* Why the gate holds, for an attacker with the first binding.  Only open assets
\* are touched; the snapshot of an attacker who is ahead is the binding; a touch of
\* the assets revealed last is known as one; they are the last row's batch once
\* their rows are written; a row of that batch is answered by such a touch; and
\* once the controller is asked the gate is open.
FirstBinding(a) == binding[a].gen = 0
Answered(a) == lastReveal[a].unlocked \cap lastReveal[a].touched # {}
TouchedAssets(a) == touches[a] \cup {evidence[a][i].asset : i \in DOMAIN evidence[a]}
TouchesAreKnown ==
  \A a \in Attackers : FirstBinding(a) =>
    /\ TouchedAssets(a) \subseteq binding[a].unlocked \cup {None}
    /\ lastReveal[a].unlocked \cap TouchedAssets(a) \subseteq lastReveal[a].touched
SnapshotIsCurrent ==
  \A a \in Attackers :
    Ahead(a) /\ snap[a].binding.gen = binding[a].gen => snap[a].binding = binding[a]
RowsWaiting(a) == pc = "recording" /\ job.attacker = a /\ unrecorded # {}
LastBatchIsLastReveal ==
  \A a \in Attackers : FirstBinding(a) =>
    /\ \/ lastReveal[a].unlocked = {}
       \/ rows[a] # <<>> /\ rows[a][Len(rows[a])].batch = lastReveal[a].unlocked
       \/ RowsWaiting(a)
    /\ RowsWaiting(a) => UnlockedBy(job.acts) = lastReveal[a].unlocked
AnswersAreTouches ==
  \A a \in Attackers : FirstBinding(a) =>
    \A i \in DOMAIN rows[a] :
      rows[a][i].status = "answered" /\ rows[a][i].batch = lastReveal[a].unlocked => Answered(a)
GateWasOpen ==
  pc \in {"asking", "applying"} /\ FirstBinding(turn) =>
    lastReveal[turn].unlocked = {} \/ Answered(turn)

\* The inductive invariant of the proofs: what all of it needs, what the rows and
\* the dependencies need, and what the two properties of undisturbed runs need.
BaseInv ==
  /\ TypeOK /\ InTurn /\ SnapshotsLag /\ NothingAhead /\ JobDone
  /\ UnseenStaysNew /\ RowsNameOpenAssets
RevealInv ==
  /\ OneRowPerAsset /\ SnapshotKnowsRows /\ JobOfTurn /\ JobOpensNew /\ RowsToCome
  /\ DependenciesHold /\ SnapshotsBehind /\ PlansStand
UndisturbedInv ==
  /\ HistoryOK
  /\ Undisturbed =>
       /\ NothingLeftBehind /\ UsedIsMarked /\ JobIsNew
       /\ TouchesAreKnown /\ SnapshotIsCurrent /\ LastBatchIsLastReveal
       /\ AnswersAreTouches /\ GateWasOpen
LoopInv == BaseInv /\ RevealInv /\ UndisturbedInv

\* New evidence is eventually looked at, whatever the gate says and although a
\* failing POST for one attacker ends the tick for the others.
EvidenceServed ==
  \A a \in Attackers :
    HasNewEvidence(a, Len(evidence[a])) ~> ~HasNewEvidence(a, Len(evidence[a]))

\* A touch that comes after the row was written reopens the gate, however late
\* the loop gets to see it.
LastRowTouched(a) ==
  LET row == rows[a][Len(rows[a])] IN rows[a] # <<>> /\ row.status = "pending" /\ Touched(a, row)
TouchReopensGate ==
  \A a \in Attackers :
    LastRowTouched(a) ~> ~feedbackTorn /\ GateOpen(a, ReadRows(a, binding[a].gen), {})
===============================================================================
