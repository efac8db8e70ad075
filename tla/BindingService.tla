--------------------------- MODULE BindingService ---------------------------
(***************************************************************************)
(* The sticky-binding lifecycle (services/binding_service): resolve,       *)
(* heartbeat, recycle, unlock_assets and reveal_configurations over one    *)
(* bindings.json.                                                          *)
(*                                                                         *)
(* Every adapter, the orchestrator and the binding API hold a              *)
(* BindingService of their own on that file, and the API runs its handlers *)
(* on a thread pool, so a Worker is one call in progress anywhere.  A call *)
(* reads the file without a lock, computes the whole new record from what  *)
(* it read, and upserts it in one locked cycle (JsonFileStore shows that   *)
(* the cycle is atomic); between the two, other calls go on.               *)
(*                                                                         *)
(* A binding_id is the position at which its record is appended: uuid4     *)
(* gives a fresh name that nobody sees before the upsert.                  *)
(***************************************************************************)
EXTENDS Naturals, Sequences

CONSTANTS
  Workers,      \* calls that can be in progress at once
  Attackers,    \* attacker keys
  Assets,       \* asset ids
  Configs,      \* (asset id, config id) pairs a configuration reveal names
  TTL,          \* binding_ttl_seconds, in clock ticks
  MaxLag,       \* how old a heartbeat's own timestamp can be on arrival
  MaxClock,     \* bound: the clock stops here
  MaxBindings   \* bound: records in bindings.json

ASSUME TimeAssumption == TTL \in Nat /\ MaxLag \in Nat /\ MaxClock \in Nat
ASSUME BoundAssumption == MaxBindings \in Nat

VARIABLES
  clock,      \* utcnow(), one clock for all processes
  records,    \* the "records" list of bindings.json
  call,       \* the call each worker is executing
  \* what has been asked and promised, for the properties only
  asked,      \* asked[i]: the assets unlock_assets calls named for binding i
  recycled,   \* the bindings some recycle call has been made on
  promise,    \* promise[i]: until when resolve will answer i, as callers were told
  answered    \* answered[a]: the newest binding resolve has answered for a

vars == <<clock, records, call, asked, recycled, promise, answered>>
ghosts == <<asked, recycled, promise, answered>>

BindingIds == 1 .. MaxBindings
Times == 0 .. MaxClock + TTL
Status == {"active", "recycled", "recovered"}

\* BindingRecord, without the fields nothing is decided on.
Record == [attacker : Attackers, status : Status, ttl : Times,
           unlocked : SUBSET Assets, revealed : SUBSET Configs]

NoBinding == 0

\* A call in progress.  "begun": resolve has taken its time and read nothing;
\* "read": the new record of binding id (NoBinding: a fresh one) is computed.
Idle == [phase |-> "idle"]
Begun == [phase : {"begun"}, attacker : Attackers, now : 0 .. MaxClock,
          floor : 0 .. MaxBindings, promised : SUBSET BindingIds]
Resolving == [phase : {"read"}, op : {"resolve"}, id : 0 .. MaxBindings, rec : Record,
              attacker : Attackers, now : 0 .. MaxClock,
              floor : 0 .. MaxBindings, promised : SUBSET BindingIds]
Updating == [phase : {"read"}, op : {"heartbeat", "idle", "hard", "unlock", "reveal"},
             id : BindingIds, rec : Record, now : 0 .. MaxClock]

TypeOK ==
  /\ clock \in 0 .. MaxClock
  /\ records \in Seq(Record) /\ Len(records) <= MaxBindings
  /\ call \in [Workers -> {Idle} \cup Begun \cup Resolving \cup Updating]
  /\ asked \in [BindingIds -> SUBSET Assets]
  /\ recycled \in SUBSET BindingIds
  /\ promise \in [BindingIds -> {0} \cup {t + 1 : t \in Times}]
  /\ answered \in [Attackers -> 0 .. MaxBindings]

Init ==
  /\ clock = 0
  /\ records = <<>>
  /\ call = [w \in Workers |-> Idle]
  /\ asked = [i \in BindingIds |-> {}]
  /\ recycled = {}
  /\ promise = [i \in BindingIds |-> 0]
  /\ answered = [a \in Attackers |-> NoBinding]

-----------------------------------------------------------------------------
Known == 1 .. Len(records)
IdsOf(a) == {i \in Known : records[i].attacker = a}

\* Mutant of IsNewest: the first record of the attacker wins, not the last.
IsOldest(a, i) ==
  IF IdsOf(a) = {} THEN i = NoBinding
  ELSE i \in IdsOf(a) /\ \A j \in IdsOf(a) : i <= j

\* get_by_attacker: the dict comprehension keeps the last record of the list.
IsNewest(a, i) ==
  IF IdsOf(a) = {} THEN i = NoBinding
  ELSE i \in IdsOf(a) /\ \A j \in IdsOf(a) : j <= i

\* Mutant of Fresh: the record is built on another attacker's state.
FreshShared(a, now) ==
  [attacker |-> a, status |-> "active", ttl |-> now + TTL,
   unlocked |-> IF records = <<>> THEN {} ELSE records[1].unlocked, revealed |-> {}]

\* The record of a new attacker, or of one whose binding has expired.
Fresh(a, now) ==
  [attacker |-> a, status |-> "active", ttl |-> now + TTL,
   unlocked |-> {}, revealed |-> {}]

\* A recycled binding comes back as recovered; resolve always renews the TTL.
Resumed(rec, now) ==
  [rec EXCEPT !.status = IF rec.status = "recycled" THEN "recovered" ELSE "active",
              !.ttl = now + TTL]

Tick ==
  /\ clock < MaxClock
  /\ clock' = clock + 1
  /\ UNCHANGED <<records, call, asked, recycled, promise, answered>>

\* resolve: now = utcnow(), before the file is read.  The caller may hold
\* answers of earlier resolves: floor and promised remember them.
BeginResolve(w, a) ==
  /\ call[w].phase = "idle"
  /\ call' = [call EXCEPT ![w] =
       [phase |-> "begun", attacker |-> a, now |-> clock, floor |-> answered[a],
        promised |-> {i \in IdsOf(a) : promise[i] > clock}]]
  /\ UNCHANGED <<clock, records, asked, recycled, promise, answered>>

\* Mutant of StillValid: a TTL that ends now has ended.
StillValidStrictly(rec, now) == rec.ttl > now

\* existing.ttl_expires_at >= now
StillValid(rec, now) == rec.ttl >= now

\* resolve: get_by_attacker found i; the record to upsert.
ReadResolve(w, i) ==
  LET c == call[w]
      keep == i # NoBinding /\ StillValid(records[i], c.now)
  IN /\ c.phase = "begun"
     /\ IsNewest(c.attacker, i)
     /\ call' = [call EXCEPT ![w] =
          [phase |-> "read", op |-> "resolve",
           id |-> IF keep THEN i ELSE NoBinding,
           rec |-> IF keep THEN Resumed(records[i], c.now) ELSE Fresh(c.attacker, c.now),
           attacker |-> c.attacker, now |-> c.now,
           floor |-> c.floor, promised |-> c.promised]]
     /\ UNCHANGED <<clock, records, asked, recycled, promise, answered>>

\* What the other operations read and compute: get_by_binding and model_copy.
\* (An unknown binding_id raises BindingNotFoundError: nothing changes.)
ReadUpdate(w, i, op, rec) ==
  /\ call[w].phase = "idle"
  /\ call' = [call EXCEPT ![w] =
       [phase |-> "read", op |-> op, id |-> i, rec |-> rec, now |-> clock]]

\* heartbeat: the request's own timestamp decides the new TTL.
Heartbeat(w, i, ts) ==
  /\ ReadUpdate(w, i, "heartbeat", [records[i] EXCEPT !.status = "active", !.ttl = ts + TTL])
  /\ UNCHANGED <<clock, records, asked, recycled, promise, answered>>

\* recycle: utcnow() is taken after the read, so Upsert fills in the TTL.
Recycle(w, i, mode) ==
  /\ ReadUpdate(w, i, mode, [records[i] EXCEPT !.status = "recycled"])
  /\ recycled' = recycled \cup {i}
  /\ UNCHANGED <<clock, records, asked, promise, answered>>

\* Mutant of UnlockAssets: the request replaces the list.
UnlockAssetsOverwrites(w, i, new) ==
  /\ ReadUpdate(w, i, "unlock", [records[i] EXCEPT !.status = "active", !.unlocked = new])
  /\ asked' = [asked EXCEPT ![i] = @ \cup new]
  /\ UNCHANGED <<clock, records, recycled, promise, answered>>

\* unlock_assets: neither the status nor the TTL of the record is looked at.
UnlockAssets(w, i, new) ==
  /\ ReadUpdate(w, i, "unlock", [records[i] EXCEPT !.status = "active", !.unlocked = @ \cup new])
  /\ asked' = [asked EXCEPT ![i] = @ \cup new]
  /\ UNCHANGED <<clock, records, recycled, promise, answered>>

\* reveal_configurations: the same for the configuration buckets.
RevealConfigurations(w, i, new) ==
  /\ ReadUpdate(w, i, "reveal", [records[i] EXCEPT !.status = "active", !.revealed = @ \cup new])
  /\ UNCHANGED <<clock, records, asked, recycled, promise, answered>>

-----------------------------------------------------------------------------
\* upsert_list_item on "binding_id": replaced in place, appended when absent.
Stored(i, rec) ==
  IF i = NoBinding THEN Append(records, rec) ELSE [records EXCEPT ![i] = rec]

\* The TTL of the record a call writes.
WrittenTtl(c, now) ==
  CASE c.op = "hard" -> now
    [] c.op = "idle" -> now + TTL
    [] OTHER -> c.rec.ttl

Later(s, t) == IF s >= t THEN s ELSE t

\* The call's locked upsert, and its answer.  Recycle took its utcnow() between
\* the read and now; the other operations have theirs.
Upsert(w, now) ==
  LET c == call[w]
      rec == [c.rec EXCEPT !.ttl = WrittenTtl(c, now)]
      i == IF c.id = NoBinding THEN Len(records) + 1 ELSE c.id
  IN /\ c.phase = "read"
     /\ i <= MaxBindings
     /\ records' = Stored(c.id, rec)
     /\ call' = [call EXCEPT ![w] = Idle]
     /\ promise' = [promise EXCEPT ![i] =
          CASE c.op = "resolve" -> Later(@, rec.ttl + 1)
            [] c.op = "hard" -> 0
            [] c.op \in {"heartbeat", "idle"} -> IF @ > clock THEN Later(@, rec.ttl + 1) ELSE @
            [] OTHER -> @]
     /\ IF c.op = "resolve"
        THEN answered' = [answered EXCEPT ![c.attacker] = Later(@, i)]
        ELSE UNCHANGED answered
     /\ UNCHANGED <<clock, asked, recycled>>

\* The process dies between its read and its upsert.
Crash(w) ==
  /\ call[w].phase # "idle"
  /\ call' = [call EXCEPT ![w] = Idle]
  /\ UNCHANGED <<clock, records, asked, recycled, promise, answered>>

Next ==
  \/ Tick
  \/ \E w \in Workers :
       \/ \E a \in Attackers : BeginResolve(w, a)
       \/ \E i \in Known \cup {NoBinding} : ReadResolve(w, i)
       \/ \E now \in 0 .. clock :
            call[w].phase = "read" /\ call[w].now <= now /\ Upsert(w, now)
       \/ Crash(w)
       \/ \E i \in Known :
            \/ \E ts \in 0 .. clock : clock <= ts + MaxLag /\ Heartbeat(w, i, ts)
            \/ \E mode \in {"idle", "hard"} : Recycle(w, i, mode)
            \/ \E new \in SUBSET Assets : UnlockAssets(w, i, new)
            \/ \E new \in SUBSET Configs : RevealConfigurations(w, i, new)

Spec == Init /\ [][Next]_vars

-----------------------------------------------------------------------------
(***************************************************************************)
(* What holds however the calls interleave.                                *)
(***************************************************************************)

\* resolve answers a binding of the attacker who asked, and never one older than
\* a binding it had answered for that attacker before the call began: a session
\* that moved on to a new binding does not fall back to the one it left, even
\* when a late heartbeat or an idle recycle gives the old record a new TTL.
SessionNeverRegresses ==
  \A w \in Workers :
    LET c == call[w] IN
    c.phase = "read" /\ c.op = "resolve" /\ c.id # NoBinding =>
      /\ c.id >= c.floor
      /\ records[c.id].attacker = c.attacker

\* Whatever snapshots are written back, a binding holds no asset that nobody
\* unlocked for this very binding: one attacker's exposure never becomes
\* another's, nor an old binding's the new one's.
NoForeignUnlock ==
  \A i \in Known : records[i].unlocked \subseteq asked[i]

\* A binding is only called recovered after a recycle call was made on it.
RecoveredOnlyIfRecycled ==
  \A i \in Known : records[i].status = "recovered" => i \in recycled

\* Why: a call in progress carries a record of its own binding, no matter how
\* old its snapshot is; and records are never removed, so what was answered is
\* still there to be found.
SnapshotsAreOwn ==
  \A w \in Workers :
    LET c == call[w] IN
    /\ c.phase = "begun" /\ c.floor # NoBinding => c.floor \in IdsOf(c.attacker)
    /\ c.phase = "read" =>
         IF c.id = NoBinding
         THEN c.rec.attacker = c.attacker /\ c.rec.unlocked = {} /\ c.rec.status = "active"
         ELSE /\ c.id \in Known
              /\ c.rec.attacker = records[c.id].attacker
              /\ c.rec.unlocked \subseteq asked[c.id]
              /\ c.rec.status # "active" => c.id \in recycled
AnswersExist ==
  \A a \in Attackers : answered[a] # NoBinding => answered[a] \in IdsOf(a)
RecycledWasAsked ==
  \A i \in Known : records[i].status # "active" => i \in recycled

\* The inductive invariant of the proofs.
BindingInv ==
  /\ TypeOK
  /\ SnapshotsAreOwn
  /\ AnswersExist
  /\ RecycledWasAsked
  /\ NoForeignUnlock
  /\ SessionNeverRegresses

(***************************************************************************)
(* What holds while calls do not overlap, and is lost when they do.        *)
(***************************************************************************)

\* "same attacker_key should resolve to the same active binding": a resolve
\* answers the binding earlier resolves answered for this attacker, while the
\* TTL they and later heartbeats and idle recycles announced has not run out
\* and no hard recycle has withdrawn it.
Sticky ==
  \A w \in Workers :
    LET c == call[w] IN
    c.phase = "read" /\ c.op = "resolve" =>
      \A i \in c.promised : promise[i] > c.now => c.id = i

\* "Append one or more unlocked assets": what a binding has unlocked or revealed
\* stays unlocked or revealed, through TTL refreshes, recycles and recoveries.
KeepReveals ==
  \A i \in Known :
    /\ records[i].unlocked \subseteq records'[i].unlocked
    /\ records[i].revealed \subseteq records'[i].revealed
RevealsAreKept == [][KeepReveals]_vars
=============
