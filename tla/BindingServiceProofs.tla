----------------------- MODULE BindingServiceProofs -----------------------
(***************************************************************************)
(* What the binding service guarantees however its calls interleave, for   *)
(* any number of concurrent calls, attackers, assets and records; and what  *)
(* it guarantees as long as no two calls have been in progress at once.     *)
(***************************************************************************)
EXTENDS BindingOverlap, SequenceTheorems, TLAPS

USE TimeAssumption, BoundAssumption

\* An empty bindings.json and no call in progress.
LEMMA InitInv == Init => BindingInv
<1> SUFFICES ASSUME Init PROVE BindingInv
  OBVIOUS
<1>1. TypeOK
  BY DEF Init, TypeOK, Idle, BindingIds, NoBinding
<1>2. SnapshotsAreOwn /\ SessionNeverRegresses
  BY DEF Init, SnapshotsAreOwn, SessionNeverRegresses, Idle
<1>3. AnswersExist /\ RecycledWasAsked /\ NoForeignUnlock
  BY DEF Init, AnswersExist, RecycledWasAsked, NoForeignUnlock, Known
<1> QED
  BY <1>1, <1>2, <1>3 DEF BindingInv

\* Upserting leaves every other record, and the attacker of every record, alone.
LEMMA StoredKeepsOthers ==
  ASSUME records \in Seq(Record), NEW rec \in Record,
         NEW i \in Known \cup {NoBinding},
         i # NoBinding => rec.attacker = records[i].attacker,
         NEW j, j = IF i = NoBinding THEN Len(records) + 1 ELSE i
  PROVE  /\ Stored(i, rec) \in Seq(Record)
         /\ Len(Stored(i, rec)) = IF i = NoBinding THEN Len(records) + 1 ELSE Len(records)
         /\ j \in 1 .. Len(Stored(i, rec))
         /\ Stored(i, rec)[j] = rec
         /\ \A k \in Known : k # j => Stored(i, rec)[k] = records[k]
         /\ \A k \in Known : Stored(i, rec)[k].attacker = records[k].attacker
<1>1. CASE i = NoBinding
  <2>1. Stored(i, rec) = Append(records, rec)
    BY <1>1 DEF Stored
  <2> QED
    BY <1>1, <2>1, AppendProperties DEF Known, NoBinding
<1>2. CASE i # NoBinding
  <2>1. i \in 1 .. Len(records) /\ Stored(i, rec) = [records EXCEPT ![i] = rec]
    BY <1>2 DEF Stored, Known
  <2> QED
    BY <1>2, <2>1, ExceptSeq DEF Known, NoBinding
<1> QED
  BY <1>1, <1>2

\* The types of the record builders.
LEMMA BuiltRecords ==
  ASSUME NEW now \in 0 .. MaxClock
  PROVE  /\ \A a \in Attackers : Fresh(a, now) \in Record
         /\ \A rec \in Record : Resumed(rec, now) \in Record
<1>1. now + TTL \in Times
  BY DEF Times
<1>2. \A a \in Attackers : Fresh(a, now) \in Record
  BY <1>1 DEF Fresh, Record, Status
<1>3. ASSUME NEW rec \in Record PROVE Resumed(rec, now) \in Record
  BY <1>1 DEF Resumed, Record, Status
<1> QED
  BY <1>2, <1>3

\* What the first four operations do to a call in progress, the file unchanged.
LEMMA ReadsPreserve ==
  ASSUME BindingInv, UNCHANGED <<clock, records, promise, answered>>,
         recycled \subseteq recycled', recycled' \in SUBSET BindingIds,
         asked' \in [BindingIds -> SUBSET Assets],
         \A i \in BindingIds : asked[i] \subseteq asked'[i],
         NEW w \in Workers, NEW c \in {Idle} \cup Begun \cup Resolving \cup Updating,
         call' = [call EXCEPT ![w] = c],
         c.phase = "begun" /\ c.floor # NoBinding => c.floor \in IdsOf(c.attacker),
         c.phase = "read" =>
            IF c.id = NoBinding
            THEN c.rec.attacker = c.attacker /\ c.rec.unlocked = {} /\ c.rec.status = "active"
            ELSE /\ c.id \in Known
                 /\ c.rec.attacker = records[c.id].attacker
                 /\ c.rec.unlocked \subseteq asked'[c.id]
                 /\ c.rec.status # "active" => c.id \in recycled',
         c.phase = "read" /\ c.op = "resolve" /\ c.id # NoBinding =>
            c.id >= c.floor /\ records[c.id].attacker = c.attacker
  PROVE  BindingInv'
<1> USE DEF BindingInv
<1>1. TypeOK'
  BY DEF TypeOK
<1>2. Known' = Known /\ \A a : IdsOf(a)' = IdsOf(a)
  BY DEF Known, IdsOf
<1>3. Known \subseteq BindingIds
  BY DEF TypeOK, Known, BindingIds
<1>4. \A v \in Workers : call'[v] = IF v = w THEN c ELSE call[v]
  BY DEF TypeOK
<1>5. SnapshotsAreOwn'
  BY <1>2, <1>3, <1>4 DEF SnapshotsAreOwn
<1>6. SessionNeverRegresses'
  BY <1>4 DEF SessionNeverRegresses
<1>7. AnswersExist' /\ RecycledWasAsked' /\ NoForeignUnlock'
  BY <1>2, <1>3 DEF AnswersExist, RecycledWasAsked, NoForeignUnlock
<1> QED
  BY <1>1, <1>5, <1>6, <1>7

\* A resolve that has begun remembers an answer that exists.
LEMMA BeginResolvePreserves ==
  ASSUME BindingInv, NEW w \in Workers, NEW a \in Attackers, BeginResolve(w, a)
  PROVE  BindingInv'
<1> DEFINE c == [phase |-> "begun", attacker |-> a, now |-> clock, floor |-> answered[a],
                 promised |-> {i \in IdsOf(a) : promise[i] > clock}]
<1>1. c \in Begun
  BY DEF BindingInv, TypeOK, Begun, IdsOf, Known, BindingIds
<1>2. c.floor # NoBinding => c.floor \in IdsOf(c.attacker)
  BY DEF BindingInv, AnswersExist
<1>3. call' = [call EXCEPT ![w] = c] /\ c.phase = "begun"
  BY DEF BeginResolve
<1>4. UNCHANGED <<clock, records, asked, recycled, promise, answered>>
  BY DEF BeginResolve
<1> HIDE DEF c
<1> QED
  BY <1>1, <1>2, <1>3, <1>4, ReadsPreserve DEF BindingInv, TypeOK

\* The newest record is at least as new as any answer given before.
LEMMA ReadResolvePreserves ==
  ASSUME BindingInv, NEW w \in Workers, NEW i \in Known \cup {NoBinding}, ReadResolve(w, i)
  PROVE  BindingInv'
<1> DEFINE b == call[w]
           keep == i # NoBinding /\ StillValid(records[i], b.now)
           rec == IF keep THEN Resumed(records[i], b.now) ELSE Fresh(b.attacker, b.now)
           c == [phase |-> "read", op |-> "resolve", id |-> IF keep THEN i ELSE NoBinding,
                 rec |-> rec, attacker |-> b.attacker, now |-> b.now,
                 floor |-> b.floor, promised |-> b.promised]
<1>1. b \in Begun
  BY DEF ReadResolve, BindingInv, TypeOK, Idle, Resolving, Updating
<1>2. keep => i \in IdsOf(b.attacker) /\ records[i] \in Record
  BY DEF ReadResolve, IsNewest, IdsOf, Known, BindingInv, TypeOK
<1>3. rec \in Record
  BY <1>1, <1>2, BuiltRecords DEF Begun
<1>4. i \in 0 .. MaxBindings /\ (keep => i \in BindingIds)
  BY DEF Known, NoBinding, BindingInv, TypeOK, BindingIds
<1>5. c \in Resolving
  BY <1>1, <1>3, <1>4 DEF Begun, Resolving, NoBinding
<1>6. c.id # NoBinding => c.id >= c.floor /\ records[c.id].attacker = c.attacker
  <2>1. SUFFICES ASSUME keep PROVE i >= b.floor /\ records[i].attacker = b.attacker
    OBVIOUS
  <2>2. records[i].attacker = b.attacker
    BY <1>2, <2>1 DEF IdsOf
  <2>3. CASE b.floor = NoBinding
    BY <1>1, <1>4, <2>1, <2>2, <2>3 DEF NoBinding, Begun, BindingIds
  <2>4. CASE b.floor # NoBinding
    <3>1. b.floor \in IdsOf(b.attacker)
      BY <2>4 DEF BindingInv, SnapshotsAreOwn, ReadResolve
    <3>2. b.floor <= i
      BY <3>1 DEF ReadResolve, IsNewest
    <3> QED
      BY <1>1, <1>4, <2>1, <2>2, <3>2 DEF Begun, BindingIds
  <2> QED
    BY <2>3, <2>4
<1>7. IF c.id = NoBinding
      THEN c.rec.attacker = c.attacker /\ c.rec.unlocked = {} /\ c.rec.status = "active"
      ELSE /\ c.id \in Known
           /\ c.rec.attacker = records[c.id].attacker
           /\ c.rec.unlocked \subseteq asked[c.id]
           /\ c.rec.status # "active" => c.id \in recycled
  <2>1. CASE keep
    <3>1. /\ rec.attacker = records[i].attacker
          /\ rec.unlocked = records[i].unlocked
          /\ rec.status # "active" => records[i].status # "active"
      BY <1>2, <2>1 DEF Resumed, Record
    <3>2. i \in Known
      BY <1>2, <2>1 DEF IdsOf
    <3> QED
      BY <2>1, <3>1, <3>2 DEF BindingInv, NoForeignUnlock, RecycledWasAsked
  <2>2. CASE ~keep
    BY <2>2 DEF Fresh, NoBinding
  <2> QED
    BY <2>1, <2>2
<1>8. call' = [call EXCEPT ![w] = c] /\ c.phase = "read"
  BY DEF ReadResolve
<1>9. UNCHANGED <<clock, records, asked, recycled, promise, answered>>
  BY DEF ReadResolve
<1> HIDE DEF c
<1> QED
  BY <1>5, <1>6, <1>7, <1>8, <1>9, ReadsPreserve DEF BindingInv, TypeOK

\* A snapshot taken for an update is a snapshot of the binding it will be
\* written to.
LEMMA UpdatePreserves ==
  ASSUME BindingInv, NEW w \in Workers, NEW i \in Known,
         NEW op \in {"heartbeat", "idle", "hard", "unlock", "reveal"},
         NEW rec \in Record, ReadUpdate(w, i, op, rec),
         UNCHANGED <<clock, records, promise, answered>>,
         recycled \subseteq recycled', recycled' \in SUBSET BindingIds,
         asked' \in [BindingIds -> SUBSET Assets],
         \A j \in BindingIds : asked[j] \subseteq asked'[j],
         rec.attacker = records[i].attacker,
         rec.unlocked \subseteq asked'[i],
         rec.status # "active" => i \in recycled'
  PROVE  BindingInv'
<1> DEFINE c == [phase |-> "read", op |-> op, id |-> i, rec |-> rec, now |-> clock]
<1>1. i \in BindingIds /\ i # NoBinding
  BY DEF Known, BindingIds, NoBinding, BindingInv, TypeOK
<1>2. c \in Updating
  BY <1>1 DEF Updating, BindingInv, TypeOK
<1>3. call' = [call EXCEPT ![w] = c]
  BY DEF ReadUpdate
<1>4. /\ c.phase = "read" /\ c.op # "resolve" /\ c.id = i /\ c.rec = rec
  OBVIOUS
<1> HIDE DEF c
<1> QED
  BY <1>1, <1>2, <1>3, <1>4, ReadsPreserve

\* The four updates build such a snapshot.
LEMMA ReadUpdatesPreserve ==
  ASSUME BindingInv, NEW w \in Workers, NEW i \in Known
  PROVE  /\ \A ts \in 0 .. clock : Heartbeat(w, i, ts) => BindingInv'
         /\ \A mode \in {"idle", "hard"} : Recycle(w, i, mode) => BindingInv'
         /\ \A new \in SUBSET Assets : UnlockAssets(w, i, new) => BindingInv'
         /\ \A new \in SUBSET Configs : RevealConfigurations(w, i, new) => BindingInv'
<1>1. records[i] \in Record /\ i \in BindingIds
  BY DEF BindingInv, TypeOK, Known, BindingIds
<1>2. /\ records[i].unlocked \subseteq asked[i]
      /\ records[i].status # "active" => i \in recycled
      /\ asked \in [BindingIds -> SUBSET Assets] /\ recycled \in SUBSET BindingIds
  BY DEF BindingInv, TypeOK, NoForeignUnlock, RecycledWasAsked
<1>3. ASSUME NEW ts \in 0 .. clock, Heartbeat(w, i, ts) PROVE BindingInv'
  <2> DEFINE rec == [records[i] EXCEPT !.status = "active", !.ttl = ts + TTL]
  <2>1. ts + TTL \in Times
    BY DEF Times, BindingInv, TypeOK
  <2>2. /\ rec \in Record /\ rec.attacker = records[i].attacker
        /\ rec.unlocked = records[i].unlocked /\ rec.status = "active"
    BY <1>1, <2>1 DEF Record, Status
  <2>3. ReadUpdate(w, i, "heartbeat", rec)
        /\ UNCHANGED <<clock, records, asked, recycled, promise, answered>>
    BY <1>3 DEF Heartbeat
  <2> HIDE DEF rec
  <2> QED
    BY <1>2, <2>2, <2>3, UpdatePreserves
<1>4. ASSUME NEW mode \in {"idle", "hard"}, Recycle(w, i, mode) PROVE BindingInv'
  <2> DEFINE rec == [records[i] EXCEPT !.status = "recycled"]
  <2>1. /\ rec \in Record /\ rec.attacker = records[i].attacker
        /\ rec.unlocked = records[i].unlocked
    BY <1>1 DEF Record, Status
  <2>2. /\ ReadUpdate(w, i, mode, rec) /\ recycled' = recycled \cup {i}
        /\ UNCHANGED <<clock, records, asked, promise, answered>>
    BY <1>4 DEF Recycle
  <2> HIDE DEF rec
  <2> QED
    BY <1>1, <1>2, <2>1, <2>2, UpdatePreserves
<1>5. ASSUME NEW new \in SUBSET Assets, UnlockAssets(w, i, new) PROVE BindingInv'
  <2> DEFINE rec == [records[i] EXCEPT !.status = "active", !.unlocked = @ \cup new]
  <2>1. /\ rec \in Record /\ rec.attacker = records[i].attacker
        /\ rec.unlocked = records[i].unlocked \cup new /\ rec.status = "active"
    BY <1>1 DEF Record, Status
  <2>2. /\ ReadUpdate(w, i, "unlock", rec) /\ asked' = [asked EXCEPT ![i] = @ \cup new]
        /\ UNCHANGED <<clock, records, recycled, promise, answered>>
    BY <1>5 DEF UnlockAssets
  <2>3. /\ asked' \in [BindingIds -> SUBSET Assets] /\ asked'[i] = asked[i] \cup new
        /\ \A j \in BindingIds : asked[j] \subseteq asked'[j]
    BY <1>1, <1>2, <2>2
  <2> HIDE DEF rec
  <2> QED
    BY <1>2, <2>1, <2>2, <2>3, UpdatePreserves
<1>6. ASSUME NEW new \in SUBSET Configs, RevealConfigurations(w, i, new) PROVE BindingInv'
  <2> DEFINE rec == [records[i] EXCEPT !.status = "active", !.revealed = @ \cup new]
  <2>1. /\ rec \in Record /\ rec.attacker = records[i].attacker
        /\ rec.unlocked = records[i].unlocked /\ rec.status = "active"
    BY <1>1 DEF Record, Status
  <2>2. /\ ReadUpdate(w, i, "reveal", rec)
        /\ UNCHANGED <<clock, records, asked, recycled, promise, answered>>
    BY <1>6 DEF RevealConfigurations
  <2> HIDE DEF rec
  <2> QED
    BY <1>2, <2>1, <2>2, UpdatePreserves
<1> QED
  BY <1>3, <1>4, <1>5, <1>6

\* A call that dies leaves the file and the others as they were.
LEMMA CrashPreserves ==
  ASSUME BindingInv, NEW w \in Workers, Crash(w)
  PROVE  BindingInv'
<1>1. call' = [call EXCEPT ![w] = Idle] /\ Idle.phase = "idle"
  BY DEF Crash, Idle
<1>2. UNCHANGED <<clock, records, asked, recycled, promise, answered>>
  BY DEF Crash
<1> QED
  BY <1>1, <1>2, ReadsPreserve DEF BindingInv, TypeOK

\* Time passes.
LEMMA TickPreserves == BindingInv /\ Tick => BindingInv'
  BY DEF BindingInv, Tick, TypeOK, SnapshotsAreOwn, AnswersExist, RecycledWasAsked,
         NoForeignUnlock, SessionNeverRegresses, Known, IdsOf

\* The call c of worker w writes rec, at i, when the clock is at now.
Writes(w, now, c, rec, i) ==
  /\ c = call[w]
  /\ rec = [c.rec EXCEPT !.ttl = WrittenTtl(c, now)]
  /\ i = IF c.id = NoBinding THEN Len(records) + 1 ELSE c.id

\* What the locked upsert writes: one record of the caller's own binding, every
\* other record and the attacker of every record left alone.
LEMMA UpsertWrites ==
  ASSUME BindingInv, NEW w \in Workers, NEW now \in 0 .. clock, Upsert(w, now),
         NEW c, NEW rec, NEW i, Writes(w, now, c, rec, i)
  PROVE  /\ c \in Resolving \cup Updating /\ c.phase = "read"
         /\ clock \in 0 .. MaxClock /\ now \in 0 .. MaxClock
         /\ WrittenTtl(c, now) \in Times
         /\ rec \in Record
         /\ rec.attacker = c.rec.attacker
         /\ rec.unlocked = c.rec.unlocked /\ rec.revealed = c.rec.revealed
         /\ rec.status = c.rec.status
         /\ rec.ttl = WrittenTtl(c, now)
         /\ IF c.id = NoBinding
            THEN c.rec.attacker = c.attacker /\ c.rec.unlocked = {} /\ c.rec.status = "active"
            ELSE /\ c.id \in Known
                 /\ c.rec.attacker = records[c.id].attacker
                 /\ c.rec.unlocked \subseteq asked[c.id]
                 /\ c.rec.status # "active" => c.id \in recycled
         /\ records' \in Seq(Record)
         /\ Len(records') = IF c.id = NoBinding THEN Len(records) + 1 ELSE Len(records)
         /\ i \in 1 .. Len(records')
         /\ records'[i] = rec
         /\ \A k \in Known : k # i => records'[k] = records[k]
         /\ \A k \in Known : records'[k].attacker = records[k].attacker
         /\ Len(records) \in Nat
         /\ Known \subseteq Known'
         /\ Known' = Known \cup {i}
         /\ Len(records') <= MaxBindings
         /\ i \in BindingIds
         /\ \A a : IdsOf(a) \subseteq IdsOf(a)'
         /\ call' = [call EXCEPT ![w] = Idle]
         /\ UNCHANGED <<clock, asked, recycled>>
         /\ promise' = [promise EXCEPT ![i] =
              CASE c.op = "resolve" -> Later(@, rec.ttl + 1)
                [] c.op = "hard" -> 0
                [] c.op \in {"heartbeat", "idle"} -> IF @ > clock THEN Later(@, rec.ttl + 1) ELSE @
                [] OTHER -> @]
         /\ answered' = IF c.op = "resolve"
                        THEN [answered EXCEPT ![c.attacker] = Later(@, i)] ELSE answered
         /\ \A v \in Workers : call'[v] = IF v = w THEN Idle ELSE call[v]
<1>1. c \in Resolving \cup Updating /\ c.phase = "read"
  BY DEF Writes, BindingInv, TypeOK, Upsert, Idle, Begun
<1>2. clock \in 0 .. MaxClock /\ now \in 0 .. MaxClock
  BY DEF BindingInv, TypeOK
<1>3. WrittenTtl(c, now) \in Times
  BY <1>1, <1>2 DEF WrittenTtl, Times, Resolving, Updating, Record
<1>4. /\ rec \in Record
      /\ rec.attacker = c.rec.attacker
      /\ rec.unlocked = c.rec.unlocked /\ rec.revealed = c.rec.revealed
      /\ rec.status = c.rec.status
      /\ rec.ttl = WrittenTtl(c, now)
  BY <1>1, <1>3 DEF Writes, Resolving, Updating, Record
<1>5. IF c.id = NoBinding
      THEN c.rec.attacker = c.attacker /\ c.rec.unlocked = {} /\ c.rec.status = "active"
      ELSE /\ c.id \in Known
           /\ c.rec.attacker = records[c.id].attacker
           /\ c.rec.unlocked \subseteq asked[c.id]
           /\ c.rec.status # "active" => c.id \in recycled
  BY <1>1 DEF Writes, BindingInv, SnapshotsAreOwn
<1>6. records \in Seq(Record) /\ records' = Stored(c.id, rec) /\ i <= MaxBindings
  BY DEF Writes, BindingInv, TypeOK, Upsert
<1>7. /\ records' \in Seq(Record)
      /\ Len(records') = IF c.id = NoBinding THEN Len(records) + 1 ELSE Len(records)
      /\ i \in 1 .. Len(records')
      /\ records'[i] = rec
      /\ \A k \in Known : k # i => records'[k] = records[k]
      /\ \A k \in Known : records'[k].attacker = records[k].attacker
  <2>1. c.id \in Known \cup {NoBinding}
    BY <1>5
  <2>2. c.id # NoBinding => rec.attacker = records[c.id].attacker
    BY <1>4, <1>5
  <2>3. i = IF c.id = NoBinding THEN Len(records) + 1 ELSE c.id
    BY DEF Writes
  <2>4. rec \in Record
    BY <1>4
  <2> QED
    BY <1>6, <2>1, <2>2, <2>3, <2>4, StoredKeepsOthers
<1>8. /\ Len(records) \in Nat
      /\ Known \subseteq Known'
      /\ Known' = Known \cup {i}
      /\ Len(records') <= MaxBindings
      /\ i \in BindingIds
  <2>1. Len(records) \in Nat /\ Len(records) <= MaxBindings
    BY DEF BindingInv, TypeOK
  <2>2. i = Len(records) + 1 \/ (i = c.id /\ c.id \in Known)
    BY <1>5 DEF Writes
  <2>3. Len(records') = IF i = Len(records) + 1 THEN Len(records) + 1 ELSE Len(records)
    BY <1>5, <1>7, <2>1 DEF Known, NoBinding, Writes
  <2> QED
    BY <1>6, <2>1, <2>2, <2>3 DEF Known, BindingIds
<1>9. \A a : IdsOf(a) \subseteq IdsOf(a)'
  BY <1>7, <1>8 DEF IdsOf
<1>10. /\ call' = [call EXCEPT ![w] = Idle]
       /\ UNCHANGED <<clock, asked, recycled>>
       /\ promise' = [promise EXCEPT ![i] =
            CASE c.op = "resolve" -> Later(@, rec.ttl + 1)
              [] c.op = "hard" -> 0
              [] c.op \in {"heartbeat", "idle"} -> IF @ > clock THEN Later(@, rec.ttl + 1) ELSE @
              [] OTHER -> @]
       /\ answered' = IF c.op = "resolve"
                      THEN [answered EXCEPT ![c.attacker] = Later(@, i)] ELSE answered
  BY DEF Writes, Upsert
<1>11. \A v \in Workers : call'[v] = IF v = w THEN Idle ELSE call[v]
  BY <1>10 DEF BindingInv, TypeOK
<1> QED
  BY <1>1, <1>2, <1>3, <1>4, <1>5, <1>6, <1>7, <1>8, <1>9, <1>10, <1>11

\* The locked upsert: the written record is the caller's own binding's, no other
\* record moves, and nobody else's snapshot loses its binding.
LEMMA UpsertPreserves ==
  ASSUME BindingInv, NEW w \in Workers, NEW now \in 0 .. clock, Upsert(w, now)
  PROVE  BindingInv'
<1> DEFINE c == call[w]
           rec == [c.rec EXCEPT !.ttl = WrittenTtl(c, now)]
           i == IF c.id = NoBinding THEN Len(records) + 1 ELSE c.id
<1> HIDE DEF i, rec, c
<1>0. Writes(w, now, c, rec, i)
  BY DEF Writes, c, rec, i
<1>1. c \in Resolving \cup Updating /\ c.phase = "read"
  BY <1>0, UpsertWrites
<1>2. clock \in 0 .. MaxClock /\ now \in 0 .. MaxClock
  BY <1>0, UpsertWrites
<1>3. WrittenTtl(c, now) \in Times
  BY <1>0, UpsertWrites
<1>4. /\ rec \in Record
      /\ rec.attacker = c.rec.attacker
      /\ rec.unlocked = c.rec.unlocked /\ rec.revealed = c.rec.revealed
      /\ rec.status = c.rec.status
      /\ rec.ttl = WrittenTtl(c, now)
  BY <1>0, UpsertWrites
<1>5. IF c.id = NoBinding
      THEN c.rec.attacker = c.attacker /\ c.rec.unlocked = {} /\ c.rec.status = "active"
      ELSE /\ c.id \in Known
           /\ c.rec.attacker = records[c.id].attacker
           /\ c.rec.unlocked \subseteq asked[c.id]
           /\ c.rec.status # "active" => c.id \in recycled
  BY <1>0, <1>1 DEF Writes, BindingInv, SnapshotsAreOwn
<1>7. /\ records' \in Seq(Record)
      /\ Len(records') = IF c.id = NoBinding THEN Len(records) + 1 ELSE Len(records)
      /\ i \in 1 .. Len(records')
      /\ records'[i] = rec
      /\ \A k \in Known : k # i => records'[k] = records[k]
      /\ \A k \in Known : records'[k].attacker = records[k].attacker
  BY <1>0, UpsertWrites
<1>8. /\ Len(records) \in Nat
      /\ Known \subseteq Known'
      /\ Known' = Known \cup {i}
      /\ Len(records') <= MaxBindings
      /\ i \in BindingIds
  BY <1>0, UpsertWrites
<1>9. \A a : IdsOf(a) \subseteq IdsOf(a)'
  BY <1>0, UpsertWrites
<1>10. /\ call' = [call EXCEPT ![w] = Idle]
       /\ UNCHANGED <<clock, asked, recycled>>
       /\ promise' = [promise EXCEPT ![i] =
            CASE c.op = "resolve" -> Later(@, rec.ttl + 1)
              [] c.op = "hard" -> 0
              [] c.op \in {"heartbeat", "idle"} -> IF @ > clock THEN Later(@, rec.ttl + 1) ELSE @
              [] OTHER -> @]
       /\ answered' = IF c.op = "resolve"
                      THEN [answered EXCEPT ![c.attacker] = Later(@, i)] ELSE answered
  BY <1>0, UpsertWrites
<1>11. \A v \in Workers : call'[v] = IF v = w THEN Idle ELSE call[v]
  BY <1>0, UpsertWrites
<1>12. TypeOK'
  <2>1. promise' \in [BindingIds -> {0} \cup {t + 1 : t \in Times}]
    <3>1. rec.ttl + 1 \in {t + 1 : t \in Times}
      BY <1>3, <1>4
    <3> QED
      BY <1>8, <1>10, <3>1 DEF BindingInv, TypeOK, Later
  <2>2. answered' \in [Attackers -> 0 .. MaxBindings]
    BY SMTT(30), <1>1, <1>8, <1>10 DEF BindingInv, TypeOK, Later, Resolving, Updating, BindingIds
  <2>3. call' \in [Workers -> {Idle} \cup Begun \cup Resolving \cup Updating]
    BY <1>10 DEF BindingInv, TypeOK
  <2> QED
    BY <1>2, <1>7, <1>8, <1>10, <2>1, <2>2, <2>3 DEF BindingInv, TypeOK
<1>13. SnapshotsAreOwn'
  <2> SUFFICES ASSUME NEW v \in Workers
               PROVE  /\ call'[v].phase = "begun" /\ call'[v].floor # NoBinding =>
                           /\ call'[v].floor \in Known'
                           /\ records'[call'[v].floor].attacker = call'[v].attacker
                      /\ call'[v].phase = "read" =>
                           IF call'[v].id = NoBinding
                           THEN /\ call'[v].rec.attacker = call'[v].attacker
                                /\ call'[v].rec.unlocked = {}
                                /\ call'[v].rec.status = "active"
                           ELSE /\ call'[v].id \in Known'
                                /\ call'[v].rec.attacker = records'[call'[v].id].attacker
                                /\ call'[v].rec.unlocked \subseteq asked'[call'[v].id]
                                /\ call'[v].rec.status # "active" => call'[v].id \in recycled'
    BY DEF SnapshotsAreOwn, IdsOf
  <2>1. CASE v = w
    BY <1>11, <2>1 DEF Idle
  <2>2. CASE v # w
    <3>1. call'[v] = call[v]
      BY <1>11, <2>2
    <3>2. call[v].phase = "begun" /\ call[v].floor # NoBinding =>
            call[v].floor \in Known' /\ records'[call[v].floor].attacker = call[v].attacker
      BY <1>7, <1>8 DEF BindingInv, SnapshotsAreOwn, IdsOf
    <3>3. call[v].phase = "read" =>
            IF call[v].id = NoBinding
            THEN /\ call[v].rec.attacker = call[v].attacker
                 /\ call[v].rec.unlocked = {} /\ call[v].rec.status = "active"
            ELSE /\ call[v].id \in Known'
                 /\ call[v].rec.attacker = records'[call[v].id].attacker
                 /\ call[v].rec.unlocked \subseteq asked'[call[v].id]
                 /\ call[v].rec.status # "active" => call[v].id \in recycled'
      BY <1>7, <1>8, <1>10 DEF BindingInv, SnapshotsAreOwn
    <3> QED
      BY <3>1, <3>2, <3>3
  <2> QED
    BY <2>1, <2>2
<1>14. SessionNeverRegresses'
  <2> SUFFICES ASSUME NEW v \in Workers, call'[v].phase = "read", call'[v].op = "resolve",
                      call'[v].id # NoBinding
               PROVE  /\ call'[v].id >= call'[v].floor
                      /\ records'[call'[v].id].attacker = call'[v].attacker
    BY DEF SessionNeverRegresses
  <2>1. v # w /\ call'[v] = call[v]
    BY <1>11 DEF Idle
  <2> QED
    BY <1>7, <2>1 DEF BindingInv, SessionNeverRegresses, SnapshotsAreOwn
<1>15. AnswersExist'
  <2> SUFFICES ASSUME NEW a \in Attackers, answered'[a] # NoBinding
               PROVE  answered'[a] \in IdsOf(a)'
    BY DEF AnswersExist
  <2>1. CASE answered'[a] = answered[a]
    BY <1>9, <2>1 DEF BindingInv, AnswersExist
  <2>2. CASE answered'[a] # answered[a]
    <3>1. c.op = "resolve" /\ a = c.attacker /\ answered'[a] = i
      BY <1>10, <2>2 DEF BindingInv, TypeOK, Later
    <3>2. c.rec.attacker = c.attacker
      <4>1. c.id # NoBinding => records[c.id].attacker = c.attacker
        BY <1>1, <3>1 DEF c, BindingInv, SessionNeverRegresses
      <4> QED
        BY <1>5, <4>1
    <3> QED
      BY <1>4, <1>7, <1>8, <3>1, <3>2 DEF IdsOf
  <2> QED
    BY <2>1, <2>2
<1>16. RecycledWasAsked' /\ NoForeignUnlock'
  <2> SUFFICES ASSUME NEW k \in Known'
               PROVE  /\ records'[k].status # "active" => k \in recycled
                      /\ records'[k].unlocked \subseteq asked[k]
    BY <1>10 DEF RecycledWasAsked, NoForeignUnlock
  <2>1. CASE k # i
    BY <1>7, <1>8, <2>1 DEF BindingInv, RecycledWasAsked, NoForeignUnlock
  <2>2. CASE k = i
    <3>1. records'[k].unlocked = c.rec.unlocked /\ records'[k].status = c.rec.status
      BY <1>4, <1>7, <2>2
    <3>2. c.id # NoBinding => k = c.id
      BY <2>2 DEF i
    <3> QED
      BY <1>5, <3>1, <3>2
  <2> QED
    BY <2>1, <2>2
<1> QED
  BY <1>12, <1>13, <1>14, <1>15, <1>16 DEF BindingInv

\* Every step of every call preserves the invariant.
LEMMA NextInv == BindingInv /\ [Next]_vars => BindingInv'
<1> SUFFICES ASSUME BindingInv, [Next]_vars PROVE BindingInv'
  OBVIOUS
<1>1. CASE UNCHANGED vars
  BY <1>1 DEF vars, BindingInv, TypeOK, SnapshotsAreOwn, AnswersExist, RecycledWasAsked,
       NoForeignUnlock, SessionNeverRegresses, Known, IdsOf
<1>2. CASE Tick
  BY <1>2, TickPreserves
<1>3. ASSUME NEW w \in Workers, NEW a \in Attackers, BeginResolve(w, a) PROVE BindingInv'
  BY <1>3, BeginResolvePreserves
<1>4. ASSUME NEW w \in Workers, NEW i \in Known \cup {NoBinding}, ReadResolve(w, i)
      PROVE BindingInv'
  BY <1>4, ReadResolvePreserves
<1>5. ASSUME NEW w \in Workers, NEW now \in 0 .. clock, Upsert(w, now) PROVE BindingInv'
  BY <1>5, UpsertPreserves
<1>6. ASSUME NEW w \in Workers, Crash(w) PROVE BindingInv'
  BY <1>6, CrashPreserves
<1>7. ASSUME NEW w \in Workers, NEW i \in Known,
             \/ \E ts \in 0 .. clock : Heartbeat(w, i, ts)
             \/ \E mode \in {"idle", "hard"} : Recycle(w, i, mode)
             \/ \E new \in SUBSET Assets : UnlockAssets(w, i, new)
             \/ \E new \in SUBSET Configs : RevealConfigurations(w, i, new)
      PROVE BindingInv'
  BY <1>7, ReadUpdatesPreserve
<1> QED
  BY <1>1, <1>2, <1>3, <1>4, <1>5, <1>6, <1>7 DEF Next

\* The bindings file and every snapshot in flight stay consistent for ever.
THEOREM BindingInvariant == Spec => []BindingInv
  BY InitInv, NextInv, PTL DEF Spec

\* resolve never takes an attacker back to a binding older than one it has
\* answered before the call began, however many processes serve the calls.
THEOREM SessionNeverRegressesTheorem == Spec => []SessionNeverRegresses
  BY BindingInvariant, PTL DEF BindingInv

\* Lost updates can drop an unlocked asset, but never hand it to another binding.
THEOREM NoForeignUnlockTheorem == Spec => []NoForeignUnlock
  BY BindingInvariant, PTL DEF BindingInv

\* No interleaving makes up a recovery: some recycle came before it.
THEOREM RecoveredOnlyIfRecycledTheorem == Spec => []RecoveredOnlyIfRecycled
<1>1. BindingInv => RecoveredOnlyIfRecycled
  BY DEF BindingInv, RecycledWasAsked, RecoveredOnlyIfRecycled
<1> QED
  BY <1>1, BindingInvariant, PTL

-----------------------------------------------------------------------------
(***************************************************************************)
(* While no two calls have been in progress at once (BindingOverlap).      *)
(***************************************************************************)

\* Watching for overlaps adds nothing to what the service does.
LEMMA WatchedBindingInvariant == WatchedSpec => []BindingInv
<1>1. WatchedInit => BindingInv
  BY InitInv DEF WatchedInit
<1>2. BindingInv /\ [WatchedNext]_<<vars, overlapped>> => BindingInv'
  BY NextInv DEF WatchedNext
<1> QED
  BY <1>1, <1>2, PTL DEF WatchedSpec

\* A step of one call, in an execution without overlaps so far: every other
\* worker is idle, and stays so.
LEMMA OthersIdle ==
  ASSUME BindingInv, AloneInv, overlapped' = (overlapped \/ \E v, u \in Busy' : v # u),
         ~overlapped', NEW w \in Workers, NEW d, call' = [call EXCEPT ![w] = d],
         call[w].phase # "idle" \/ d.phase # "idle"
  PROVE  /\ ~overlapped
         /\ call'[w] = d
         /\ \A v \in Workers \ {w} : call'[v] = call[v] /\ call[v].phase = "idle"
<1>1. ~overlapped /\ ~(\E v, u \in Busy' : v # u)
  OBVIOUS
<1>2. \A v \in Workers : call'[v] = IF v = w THEN d ELSE call[v]
  BY DEF BindingInv, TypeOK
<1>3. ASSUME NEW v \in Workers \ {w} PROVE call[v].phase = "idle"
  <2>1. SUFFICES ASSUME call[v].phase # "idle" PROVE FALSE
    OBVIOUS
  <2>2. CASE call[w].phase # "idle"
    BY <1>1, <2>1, <2>2 DEF AloneInv, Busy
  <2>3. CASE d.phase # "idle"
    BY <1>1, <1>2, <2>1, <2>3 DEF Busy
  <2> QED
    BY <2>2, <2>3
<1> QED
  BY <1>1, <1>2, <1>3

\* Of such a step, only what the call has read remains to be shown.
LEMMA AloneStep ==
  ASSUME BindingInv, AloneInv, overlapped' = (overlapped \/ \E v, u \in Busy' : v # u),
         NEW w \in Workers, NEW d, call' = [call EXCEPT ![w] = d],
         call[w].phase # "idle" \/ d.phase # "idle",
         ~overlapped' /\ d.phase = "read" /\ d.id # NoBinding =>
           /\ records'[d.id].unlocked \subseteq d.rec.unlocked
           /\ records'[d.id].revealed \subseteq d.rec.revealed
  PROVE  AloneInv'
<1> SUFFICES ASSUME ~overlapped'
             PROVE  /\ \A v, u \in Busy' : v = u
                    /\ \A v \in Workers : SnapshotKeeps(call[v])'
  BY DEF AloneInv
<1>1. /\ call'[w] = d
      /\ \A v \in Workers \ {w} : call'[v].phase = "idle"
  BY OthersIdle
<1>2. ASSUME NEW v \in Workers PROVE SnapshotKeeps(call[v])'
  <2>1. CASE v = w
    BY <1>1, <2>1 DEF SnapshotKeeps
  <2>2. CASE v # w
    BY <1>1, <2>2 DEF SnapshotKeeps
  <2> QED
    BY <2>1, <2>2
<1> QED
  BY <1>2

\* The call in progress writes back everything it found revealed.
LEMMA UpsertKeepsReveals ==
  ASSUME BindingInv, AloneInv, ~overlapped,
         NEW w \in Workers, NEW now \in 0 .. clock, Upsert(w, now)
  PROVE  KeepReveals
<1>1. PICK c, rec, i : Writes(w, now, c, rec, i)
  BY DEF Writes
<1>2. /\ rec.unlocked = c.rec.unlocked /\ rec.revealed = c.rec.revealed
      /\ records'[i] = rec
      /\ \A k \in Known : k # i => records'[k] = records[k]
      /\ Len(records) \in Nat /\ c.phase = "read"
  BY <1>1, UpsertWrites
<1>3. i \in Known => /\ records[i].unlocked \subseteq c.rec.unlocked
                     /\ records[i].revealed \subseteq c.rec.revealed
  <2>1. c.id # NoBinding => SnapshotKeeps(c) /\ i = c.id
    BY <1>1 DEF AloneInv, Writes
  <2>2. c.id = NoBinding => i \notin Known
    BY <1>1, <1>2 DEF Writes, Known
  <2> QED
    BY <1>2, <2>1, <2>2 DEF SnapshotKeeps
<1> QED
  BY <1>2, <1>3 DEF KeepReveals

\* An update reads binding i, and what it is going to write holds all that was
\* revealed there.
UpdateRead(w, i) ==
  \E op \in {"heartbeat", "idle", "hard", "unlock", "reveal"}, rec \in Record :
    /\ call[w].phase = "idle"
    /\ call' = [call EXCEPT ![w] = [phase |-> "read", op |-> op, id |-> i,
                                    rec |-> rec, now |-> clock]]
    /\ records[i].unlocked \subseteq rec.unlocked
    /\ records[i].revealed \subseteq rec.revealed
    /\ op = "heartbeat" => \E ts \in 0 .. clock : clock <= ts + MaxLag /\ rec.ttl = ts + TTL
    /\ op \in {"unlock", "reveal"} => rec.ttl = records[i].ttl
    /\ UNCHANGED <<clock, records, promise>>

LEMMA UpdatesRead ==
  ASSUME BindingInv, NEW w \in Workers, NEW i \in Known,
         \/ \E ts \in 0 .. clock : clock <= ts + MaxLag /\ Heartbeat(w, i, ts)
         \/ \E mode \in {"idle", "hard"} : Recycle(w, i, mode)
         \/ \E new \in SUBSET Assets : UnlockAssets(w, i, new)
         \/ \E new \in SUBSET Configs : RevealConfigurations(w, i, new)
  PROVE  UpdateRead(w, i)
<1>1. records[i] \in Record
  BY DEF BindingInv, TypeOK, Known
<1>2. ASSUME NEW ts \in 0 .. clock, clock <= ts + MaxLag, Heartbeat(w, i, ts)
      PROVE UpdateRead(w, i)
  <2> DEFINE rec == [records[i] EXCEPT !.status = "active", !.ttl = ts + TTL]
  <2>1. ts + TTL \in Times
    BY DEF Times, BindingInv, TypeOK
  <2>2. /\ rec \in Record /\ rec.unlocked = records[i].unlocked
        /\ rec.revealed = records[i].revealed /\ rec.ttl = ts + TTL
    BY <1>1, <2>1 DEF Record, Status
  <2>3. ReadUpdate(w, i, "heartbeat", rec) /\ UNCHANGED <<clock, records, promise>>
    BY <1>2 DEF Heartbeat
  <2> HIDE DEF rec
  <2> QED
    BY <1>2, <2>2, <2>3 DEF UpdateRead, ReadUpdate
<1>3. ASSUME NEW mode \in {"idle", "hard"}, Recycle(w, i, mode) PROVE UpdateRead(w, i)
  <2> DEFINE rec == [records[i] EXCEPT !.status = "recycled"]
  <2>1. /\ rec \in Record /\ rec.unlocked = records[i].unlocked
        /\ rec.revealed = records[i].revealed
    BY <1>1 DEF Record, Status
  <2>2. ReadUpdate(w, i, mode, rec) /\ UNCHANGED <<clock, records, promise>>
    BY <1>3 DEF Recycle
  <2> HIDE DEF rec
  <2> QED
    BY <2>1, <2>2 DEF UpdateRead, ReadUpdate
<1>4. ASSUME NEW new \in SUBSET Assets, UnlockAssets(w, i, new) PROVE UpdateRead(w, i)
  <2> DEFINE rec == [records[i] EXCEPT !.status = "active", !.unlocked = @ \cup new]
  <2>1. /\ rec \in Record /\ rec.unlocked = records[i].unlocked \cup new
        /\ rec.revealed = records[i].revealed /\ rec.ttl = records[i].ttl
    BY <1>1 DEF Record, Status
  <2>2. ReadUpdate(w, i, "unlock", rec) /\ UNCHANGED <<clock, records, promise>>
    BY <1>4 DEF UnlockAssets
  <2> HIDE DEF rec
  <2> QED
    BY <2>1, <2>2 DEF UpdateRead, ReadUpdate
<1>5. ASSUME NEW new \in SUBSET Configs, RevealConfigurations(w, i, new)
      PROVE UpdateRead(w, i)
  <2> DEFINE rec == [records[i] EXCEPT !.status = "active", !.revealed = @ \cup new]
  <2>1. /\ rec \in Record /\ rec.unlocked = records[i].unlocked
        /\ rec.revealed = records[i].revealed \cup new /\ rec.ttl = records[i].ttl
    BY <1>1 DEF Record, Status
  <2>2. ReadUpdate(w, i, "reveal", rec) /\ UNCHANGED <<clock, records, promise>>
    BY <1>5 DEF RevealConfigurations
  <2> HIDE DEF rec
  <2> QED
    BY <2>1, <2>2 DEF UpdateRead, ReadUpdate
<1> QED
  BY <1>2, <1>3, <1>4, <1>5

\* The snapshot a resolve takes holds what was revealed.
LEMMA ResolveKeepsReveals ==
  ASSUME BindingInv, NEW w \in Workers, NEW i \in Known \cup {NoBinding}, ReadResolve(w, i),
         call'[w].id # NoBinding
  PROVE  /\ call'[w].rec.unlocked = records[call'[w].id].unlocked
         /\ call'[w].rec.revealed = records[call'[w].id].revealed
<1>1. i \in Known /\ call'[w].id = i /\ call'[w].rec = Resumed(records[i], call[w].now)
  BY DEF ReadResolve, BindingInv, TypeOK
<1>2. records[i] \in Record
  BY <1>1 DEF BindingInv, TypeOK, Known
<1> QED
  BY <1>1, <1>2 DEF Resumed, Record

\* Without an overlap, what a call carries is never older than the file.
LEMMA AloneNext ==
  ASSUME BindingInv, AloneInv, [WatchedNext]_<<vars, overlapped>>
  PROVE  AloneInv' /\ (~overlapped' => KeepReveals)
<1>1. CASE UNCHANGED <<vars, overlapped>>
  BY <1>1 DEF vars, AloneInv, Busy, SnapshotKeeps, KeepReveals
<1>2. CASE WatchedNext
  <2>0. overlapped' = (overlapped \/ \E v, u \in Busy' : v # u)
    BY <1>2 DEF WatchedNext
  <2>1. CASE Tick
    BY <2>0, <2>1 DEF Tick, AloneInv, Busy, SnapshotKeeps, KeepReveals
  <2>2. ASSUME NEW w \in Workers, NEW a \in Attackers, BeginResolve(w, a)
        PROVE AloneInv' /\ (~overlapped' => KeepReveals)
    <3> DEFINE d == [phase |-> "begun", attacker |-> a, now |-> clock, floor |-> answered[a],
                     promised |-> {i \in IdsOf(a) : promise[i] > clock}]
    <3>1. call' = [call EXCEPT ![w] = d] /\ d.phase = "begun"
      BY <2>2 DEF BeginResolve
    <3>2. records' = records
      BY <2>2 DEF BeginResolve
    <3> HIDE DEF d
    <3> QED
      BY <2>0, <3>1, <3>2, AloneStep DEF KeepReveals
  <2>3. ASSUME NEW w \in Workers, NEW i \in Known \cup {NoBinding}, ReadResolve(w, i)
        PROVE AloneInv' /\ (~overlapped' => KeepReveals)
    <3> DEFINE c == call[w]
               keep == i # NoBinding /\ StillValid(records[i], c.now)
               d == [phase |-> "read", op |-> "resolve",
                     id |-> IF keep THEN i ELSE NoBinding,
                     rec |-> IF keep THEN Resumed(records[i], c.now)
                             ELSE Fresh(c.attacker, c.now),
                     attacker |-> c.attacker, now |-> c.now,
                     floor |-> c.floor, promised |-> c.promised]
    <3>1. call' = [call EXCEPT ![w] = d] /\ d.phase = "read"
      BY <2>3 DEF ReadResolve
    <3>2. records' = records
      BY <2>3 DEF ReadResolve
    <3> HIDE DEF d
    <3>3. call'[w] = d
      BY <3>1 DEF BindingInv, TypeOK
    <3>4. d.id # NoBinding => /\ d.rec.unlocked = records[d.id].unlocked
                              /\ d.rec.revealed = records[d.id].revealed
      BY <2>3, <3>3, ResolveKeepsReveals
    <3> QED
      BY <2>0, <3>1, <3>2, <3>4, AloneStep DEF KeepReveals
  <2>4. ASSUME NEW w \in Workers, NEW now \in 0 .. clock, Upsert(w, now)
        PROVE AloneInv' /\ (~overlapped' => KeepReveals)
    <3>1. call' = [call EXCEPT ![w] = Idle] /\ Idle.phase = "idle" /\ call[w].phase # "idle"
      BY <2>4 DEF Upsert, Idle
    <3>2. ~overlapped' => ~overlapped
      BY <2>0
    <3> HIDE DEF Idle
    <3>3. AloneInv'
      BY <2>0, <3>1, AloneStep
    <3> QED
      BY <2>4, <3>2, <3>3, UpsertKeepsReveals
  <2>5. ASSUME NEW w \in Workers, Crash(w)
        PROVE AloneInv' /\ (~overlapped' => KeepReveals)
    <3>1. call' = [call EXCEPT ![w] = Idle] /\ Idle.phase = "idle" /\ call[w].phase # "idle"
      BY <2>5 DEF Crash, Idle
    <3>2. records' = records
      BY <2>5 DEF Crash
    <3> HIDE DEF Idle
    <3> QED
      BY <2>0, <3>1, <3>2, AloneStep DEF KeepReveals
  <2>6. ASSUME NEW w \in Workers, NEW i \in Known, UpdateRead(w, i)
        PROVE AloneInv' /\ (~overlapped' => KeepReveals)
    <3>0. PICK op \in {"heartbeat", "idle", "hard", "unlock", "reveal"}, rec \in Record :
            /\ call' = [call EXCEPT ![w] = [phase |-> "read", op |-> op, id |-> i,
                                            rec |-> rec, now |-> clock]]
            /\ records[i].unlocked \subseteq rec.unlocked
            /\ records[i].revealed \subseteq rec.revealed
      BY <2>6 DEF UpdateRead
    <3> DEFINE d == [phase |-> "read", op |-> op, id |-> i, rec |-> rec, now |-> clock]
    <3>1. /\ call' = [call EXCEPT ![w] = d] /\ d.phase = "read" /\ d.id = i
          /\ records[i].unlocked \subseteq d.rec.unlocked
          /\ records[i].revealed \subseteq d.rec.revealed
      BY <3>0
    <3>2. records' = records
      BY <2>6 DEF UpdateRead
    <3> HIDE DEF d
    <3> QED
      BY <2>0, <3>1, <3>2, AloneStep DEF KeepReveals
  <2> QED
    BY <1>2, <2>1, <2>2, <2>3, <2>4, <2>5, <2>6, UpdatesRead DEF WatchedNext, Next
<1> QED
  BY <1>1, <1>2

\* Without an overlap, what a binding has unlocked or revealed stays unlocked or
\* revealed: through refreshes, recycles, recoveries and crashes.
THEOREM RevealsAreKeptAloneTheorem == WatchedSpec => RevealsAreKeptAlone
<1>1. WatchedInit => AloneInv
  BY DEF WatchedInit, Init, AloneInv, Busy, Idle, SnapshotKeeps
<1>2. BindingInv /\ AloneInv /\ [WatchedNext]_<<vars, overlapped>>
        => AloneInv' /\ [~overlapped' => KeepReveals]_<<vars, overlapped>>
  BY AloneNext
<1> QED
  BY <1>1, <1>2, WatchedBindingInvariant, PTL DEF WatchedSpec, RevealsAreKeptAlone

-----------------------------------------------------------------------------
\* Times are naturals.
LEMMA TimesAreNat ==
  ASSUME BindingInv
  PROVE  /\ promise \in [BindingIds -> Nat]
         /\ \A i \in Known : records[i].ttl \in Nat
<1>1. Times \subseteq Nat
  BY DEF Times
<1>2. promise \in [BindingIds -> Nat]
  BY <1>1 DEF BindingInv, TypeOK
<1>3. ASSUME NEW i \in Known PROVE records[i].ttl \in Nat
  <2>1. records[i] \in Record
    BY DEF BindingInv, TypeOK, Known
  <2> QED
    BY <1>1, <2>1 DEF Record
<1> QED
  BY <1>2, <1>3

\* A promise that a resolve of time s would keep is one that a later resolve
\* keeps, until it runs out.
LEMMA PromisesLast ==
  ASSUME BindingInv, NEW s \in Nat, NEW t \in Nat, s <= t, PromisesHold(s)
  PROVE  PromisesHold(t)
<1> SUFFICES ASSUME NEW i \in BindingIds
             PROVE  /\ promise[i] > 0 => i \in Known /\ promise[i] <= records[i].ttl + 1
                    /\ i \in Known => records[i].ttl <= t + TTL
                    /\ i \in Known /\ promise[i] > t => IsNewest(records[i].attacker, i)
  BY DEF PromisesHold
<1>1. promise[i] \in Nat
  BY TimesAreNat
<1>2. i \in Known => records[i].ttl \in Nat
  BY TimesAreNat
<1> QED
  BY <1>1, <1>2 DEF PromisesHold

\* A step that neither writes the file nor moves the clock: only what the call
\* has read remains to be shown.
LEMMA StickyStep ==
  ASSUME BindingInv, AloneInv, StickyInv,
         overlapped' = (overlapped \/ \E v, u \in Busy' : v # u),
         NEW w \in Workers, NEW d, call' = [call EXCEPT ![w] = d],
         call[w].phase # "idle" \/ d.phase # "idle",
         UNCHANGED <<clock, records, promise>>,
         ~overlapped => KeepsPromises(d)
  PROVE  StickyInv'
<1> SUFFICES ASSUME ~overlapped'
             PROVE  PromisesHold(clock)' /\ \A v \in Workers : KeepsPromises(call[v])'
  BY DEF StickyInv
<1>1. /\ ~overlapped
      /\ call'[w] = d
      /\ \A v \in Workers \ {w} : call'[v] = call[v]
  BY OthersIdle
<1>2. PromisesHold(clock)'
  BY <1>1 DEF StickyInv, PromisesHold, Known, IsNewest, IdsOf
<1>3. ASSUME NEW v \in Workers PROVE KeepsPromises(call[v])'
  <2>1. KeepsPromises(call'[v])
    BY <1>1 DEF StickyInv
  <2> QED
    BY <2>1 DEF KeepsPromises, PromisesHold, Known, IsNewest, IdsOf
<1> QED
  BY <1>2, <1>3

\* A resolve begins: the promises it knows of are of bindings of its attacker.
LEMMA BeginResolveSticky ==
  ASSUME BindingInv, StickyInv, ~overlapped, NEW w \in Workers, NEW a \in Attackers,
         NEW d, d = [phase |-> "begun", attacker |-> a, now |-> clock, floor |-> answered[a],
                     promised |-> {i \in IdsOf(a) : promise[i] > clock}]
  PROVE  KeepsPromises(d)
<1>1. clock \in Nat /\ PromisesHold(clock)
  BY DEF StickyInv, BindingInv, TypeOK
<1>2. /\ d.phase = "begun" /\ d.now = clock /\ d.attacker = a
      /\ d.promised \subseteq IdsOf(a)
  OBVIOUS
<1> QED
  BY <1>1, <1>2 DEF KeepsPromises

\* A resolve reads: the newest record of its attacker is the promised one, and
\* has not expired.
LEMMA ReadResolveSticky ==
  ASSUME BindingInv, StickyInv, ~overlapped, NEW w \in Workers,
         NEW i \in Known \cup {NoBinding}, ReadResolve(w, i)
  PROVE  KeepsPromises(call'[w])
<1> DEFINE c == call[w]
           keep == i # NoBinding /\ StillValid(records[i], c.now)
<1>1. /\ call'[w].phase = "read" /\ call'[w].op = "resolve"
      /\ call'[w].id = IF keep THEN i ELSE NoBinding
      /\ call'[w].rec = IF keep THEN Resumed(records[i], c.now) ELSE Fresh(c.attacker, c.now)
      /\ call'[w].attacker = c.attacker /\ call'[w].now = c.now
      /\ call'[w].promised = c.promised
      /\ c.phase = "begun" /\ IsNewest(c.attacker, i)
  BY DEF ReadResolve, BindingInv, TypeOK
<1>2. c \in Begun /\ KeepsPromises(c)
  BY <1>1 DEF StickyInv, BindingInv, TypeOK, Idle, Resolving, Updating
<1>3. /\ c.now \in Nat /\ c.now <= clock /\ PromisesHold(c.now)
      /\ c.promised \subseteq IdsOf(c.attacker)
  BY <1>1, <1>2 DEF KeepsPromises, Begun
<1>4. keep => records[i] \in Record /\ i \in Known
  BY DEF BindingInv, TypeOK, Known
<1>5. call'[w].rec.ttl = c.now + TTL
  BY <1>1, <1>4 DEF Resumed, Fresh, Record
<1>6. keep => IsNewest(c.attacker, i)
  BY <1>1
<1>7. ASSUME NEW j \in IdsOf(c.attacker), promise[j] > c.now PROVE call'[w].id = j
  <2>1. j \in Known /\ j \in BindingIds /\ j \in Nat /\ records[j].attacker = c.attacker
    BY DEF IdsOf, Known, BindingIds, BindingInv, TypeOK
  <2>2. promise[j] \in Nat /\ promise[j] > 0
    BY <1>3, <1>7, <2>1, TimesAreNat
  <2>3. promise[j] <= records[j].ttl + 1 /\ IsNewest(c.attacker, j)
    BY <1>3, <1>7, <2>1, <2>2 DEF PromisesHold
  <2>4. i = j
    <3>1. i \in IdsOf(c.attacker) /\ i <= j /\ j <= i
      BY <1>1, <2>3 DEF IsNewest
    <3> QED
      BY <2>1, <3>1 DEF IdsOf, Known
  <2>5. records[j].ttl \in Nat
    BY <2>1, TimesAreNat
  <2>6. StillValid(records[i], c.now) /\ i # NoBinding
    BY <1>3, <1>7, <2>1, <2>2, <2>3, <2>4, <2>5 DEF StillValid, NoBinding, Known
  <2> QED
    BY <1>1, <2>4, <2>6
<1> HIDE DEF c, keep
<1> QED
  BY <1>1, <1>3, <1>5, <1>6, <1>7 DEF KeepsPromises

\* Another operation reads.  A heartbeat that is not late promises TTL from now.
LEMMA UpdateReadSticky ==
  ASSUME BindingInv, StickyInv, ~overlapped, MaxLag = 0,
         NEW i \in Known, NEW op \in {"heartbeat", "idle", "hard", "unlock", "reveal"},
         NEW rec \in Record, NEW d,
         d = [phase |-> "read", op |-> op, id |-> i, rec |-> rec, now |-> clock],
         op = "heartbeat" => \E ts \in 0 .. clock : clock <= ts + MaxLag /\ rec.ttl = ts + TTL,
         op \in {"unlock", "reveal"} => rec.ttl = records[i].ttl
  PROVE  KeepsPromises(d)
<1>1. clock \in Nat /\ PromisesHold(clock)
  BY DEF StickyInv, BindingInv, TypeOK
<1>2. op = "heartbeat" => rec.ttl = clock + TTL
  BY <1>1
<1>3. /\ d.phase = "read" /\ d.op = op /\ d.id = i /\ d.rec = rec /\ d.now = clock
  OBVIOUS
<1> QED
  BY <1>1, <1>2, <1>3 DEF KeepsPromises

\* The TTL a call writes covers what was promised, unless it takes it all back.
LEMMA WrittenCovers ==
  ASSUME BindingInv, StickyInv, ~overlapped,
         NEW w \in Workers, NEW now \in 0 .. clock, call[w].now <= now, Upsert(w, now),
         NEW c, NEW rec, NEW i, Writes(w, now, c, rec, i)
  PROVE  /\ rec.ttl \in Nat /\ rec.ttl <= clock + TTL
         /\ c.op # "hard" /\ promise[i] > 0 => promise[i] <= rec.ttl + 1
<1>1. /\ c = call[w] /\ c \in Resolving \cup Updating /\ c.phase = "read"
      /\ clock \in Nat /\ now \in Nat /\ rec.ttl = WrittenTtl(c, now)
      /\ rec.ttl \in Times /\ i \in BindingIds
      /\ c.id = NoBinding \/ (i = c.id /\ c.id \in Known)
      /\ c.id = NoBinding => i \notin Known
  <2>1. /\ c \in Resolving \cup Updating /\ c.phase = "read"
        /\ clock \in 0 .. MaxClock /\ now \in 0 .. MaxClock
        /\ rec.ttl = WrittenTtl(c, now) /\ WrittenTtl(c, now) \in Times
        /\ i \in BindingIds /\ Len(records) \in Nat
    BY UpsertWrites
  <2>2. c.id = NoBinding \/ c.id \in Known
    BY <2>1 DEF Writes, BindingInv, SnapshotsAreOwn
  <2> QED
    BY <2>1, <2>2 DEF Writes, Known
<1>2. c.now \in Nat /\ c.now <= now /\ PromisesHold(c.now) /\ KeepsPromises(c)
  BY <1>1 DEF StickyInv, KeepsPromises, Resolving, Updating
<1>3. /\ promise[i] > 0 => i \in Known /\ promise[i] <= records[i].ttl + 1
      /\ i \in Known => records[i].ttl <= c.now + TTL
      /\ promise[i] \in Nat
      /\ i \in Known => records[i].ttl \in Nat
  BY <1>1, <1>2, TimesAreNat DEF PromisesHold
<1>4. rec.ttl \in Nat
  BY <1>1 DEF Times
<1>5. CASE c.op \in {"resolve", "heartbeat"}
  <2>1. rec.ttl = c.now + TTL
    BY <1>1, <1>2, <1>5 DEF WrittenTtl, KeepsPromises
  <2> QED
    BY <1>1, <1>2, <1>3, <1>4, <2>1
<1>6. CASE c.op = "idle"
  <2>1. rec.ttl = now + TTL
    BY <1>1, <1>6 DEF WrittenTtl
  <2> QED
    BY <1>1, <1>2, <1>3, <1>4, <2>1
<1>7. CASE c.op = "hard"
  <2>1. rec.ttl = now
    BY <1>1, <1>7 DEF WrittenTtl
  <2> QED
    BY <1>1, <1>4, <1>7, <2>1
<1>8. CASE c.op \in {"unlock", "reveal"}
  <2>1. c.id # NoBinding
    BY <1>1, <1>8 DEF Resolving, Updating, BindingIds, NoBinding
  <2>2. rec.ttl = records[i].ttl /\ i \in Known
    BY <1>1, <1>2, <1>8, <2>1 DEF WrittenTtl, KeepsPromises
  <2> QED
    BY <1>1, <1>2, <1>3, <1>4, <2>2
<1> QED
  BY <1>1, <1>5, <1>6, <1>7, <1>8 DEF Resolving, Updating

\* The record a call writes stays the newest of its attacker as long as it is
\* promised, and a new one is only appended where nothing is promised.
LEMMA WrittenIsNewest ==
  ASSUME BindingInv, StickyInv, ~overlapped,
         NEW w \in Workers, NEW now \in 0 .. clock, call[w].now <= now, Upsert(w, now),
         NEW c, NEW rec, NEW i, Writes(w, now, c, rec, i),
         NEW j \in Known', promise'[j] > clock
  PROVE  IsNewest(records[j].attacker, j)'
<1>1. /\ c = call[w] /\ c \in Resolving \cup Updating /\ c.phase = "read"
      /\ clock \in Nat /\ now \in Nat
      /\ rec.attacker = c.rec.attacker
      /\ records'[i] = rec
      /\ Len(records) \in Nat /\ Known' = Known \cup {i} /\ i \in BindingIds
      /\ \A k \in Known : records'[k].attacker = records[k].attacker
      /\ promise' = [promise EXCEPT ![i] =
              CASE c.op = "resolve" -> Later(@, rec.ttl + 1)
                [] c.op = "hard" -> 0
                [] c.op \in {"heartbeat", "idle"} -> IF @ > clock THEN Later(@, rec.ttl + 1) ELSE @
                [] OTHER -> @]
  <2>1. c = call[w]
    BY DEF Writes
  <2>2. clock \in 0 .. MaxClock /\ now \in 0 .. MaxClock
    BY UpsertWrites
  <2> QED
    BY <2>1, <2>2, UpsertWrites
<1>2. c.now \in Nat /\ c.now <= clock /\ PromisesHold(c.now) /\ KeepsPromises(c) /\ PromisesHold(clock)
  BY <1>1 DEF StickyInv, KeepsPromises, Resolving, Updating
<1>3. promise \in [BindingIds -> Nat]
  BY TimesAreNat
<1>4. Known \subseteq BindingIds /\ j \in Nat
  BY <1>1 DEF Known, BindingIds, BindingInv, TypeOK
<1>5. j # i => promise'[j] = promise[j] /\ j \in Known
  BY <1>1, <1>3, <1>4
<1>6. CASE c.id # NoBinding
  <2>1. i = c.id /\ i \in Known
    BY <1>1, <1>6 DEF Writes, BindingInv, SnapshotsAreOwn
  <2>2. j \in Known /\ \A a : IdsOf(a)' = IdsOf(a)
    BY <1>1, <2>1 DEF IdsOf
  <2>3. IsNewest(records[j].attacker, j)
    <3>1. CASE j # i
      BY <1>2, <1>4, <1>5, <3>1 DEF PromisesHold
    <3>2. CASE j = i
      <4>1. CASE c.op = "resolve"
        <5>1. IsNewest(c.attacker, i) /\ records[i].attacker = c.attacker
          BY <1>1, <1>2, <1>6, <2>1, <4>1 DEF KeepsPromises, BindingInv, SessionNeverRegresses
        <5> QED
          BY <3>2, <5>1
      <4>2. CASE c.op # "resolve"
        <5>1. promise[i] > clock
          BY <1>1, <1>3, <3>2, <4>2
        <5> QED
          BY <1>2, <1>4, <2>1, <3>2, <5>1 DEF PromisesHold
      <4> QED
        BY <4>1, <4>2
    <3> QED
      BY <3>1, <3>2
  <2> QED
    BY <1>1, <2>2, <2>3 DEF IsNewest
<1>7. CASE c.id = NoBinding
  <2>1. i = Len(records) + 1 /\ i \notin Known
    BY <1>1, <1>7 DEF Writes, Known
  <2>2. c.op = "resolve" /\ c.rec.attacker = c.attacker
    BY <1>1, <1>7 DEF Resolving, Updating, BindingIds, NoBinding, BindingInv, SnapshotsAreOwn
  <2>3. CASE j = i
    <3>1. \A a : IdsOf(a)' \subseteq 1 .. i
      BY <1>1, <2>1 DEF IdsOf, Known
    <3>2. i \in IdsOf(rec.attacker)'
      BY <1>1 DEF IdsOf
    <3> QED
      BY <1>1, <2>1, <2>3, <3>1, <3>2 DEF IsNewest
  <2>4. CASE j # i
    <3>1. j \in Known /\ promise[j] > c.now /\ promise[j] > clock
      <4>1. j \in Known /\ promise[j] > clock /\ promise[j] \in Nat
        BY <1>3, <1>4, <1>5, <2>4
      <4> QED
        BY <1>1, <1>2, <4>1
    <3>2. records[j].attacker # c.attacker
      <4>1. j \in IdsOf(c.attacker) => c.id = j
        BY <1>1, <1>2, <2>2, <3>1 DEF KeepsPromises
      <4> QED
        BY <1>7, <3>1, <4>1 DEF IdsOf, Known, NoBinding
    <3>3. IsNewest(records[j].attacker, j)
      BY <1>2, <1>4, <3>1 DEF PromisesHold
    <3>4. records'[j].attacker = records[j].attacker
          /\ IdsOf(records[j].attacker)' = IdsOf(records[j].attacker)
      BY <1>1, <2>1, <2>2, <3>1, <3>2 DEF IdsOf
    <3> QED
      BY <3>3, <3>4 DEF IsNewest
  <2> QED
    BY <2>3, <2>4
<1> QED
  BY <1>6, <1>7

\* The upsert: what it answers it can keep.
LEMMA UpsertSticky ==
  ASSUME BindingInv, AloneInv, StickyInv, ~overlapped',
         overlapped' = (overlapped \/ \E v, u \in Busy' : v # u),
         NEW w \in Workers, NEW now \in 0 .. clock, call[w].now <= now, Upsert(w, now)
  PROVE  PromisesHold(clock)' /\ \A v \in Workers : KeepsPromises(call[v])'
<1>1. PICK c, rec, i : Writes(w, now, c, rec, i)
  BY DEF Writes
<1>2. ~overlapped
  OBVIOUS
<1>3. /\ rec.ttl \in Nat /\ rec.ttl <= clock + TTL
      /\ c.op # "hard" /\ promise[i] > 0 => promise[i] <= rec.ttl + 1
  BY <1>1, <1>2, WrittenCovers
<1>4. \A j \in Known' : promise'[j] > clock => IsNewest(records[j].attacker, j)'
  BY <1>1, <1>2, WrittenIsNewest
<1>5. /\ records'[i] = rec /\ Known' = Known \cup {i} /\ i \in BindingIds
      /\ \A k \in Known : k # i => records'[k] = records[k]
      /\ clock' = clock
      /\ promise' = [promise EXCEPT ![i] =
              CASE c.op = "resolve" -> Later(@, rec.ttl + 1)
                [] c.op = "hard" -> 0
                [] c.op \in {"heartbeat", "idle"} -> IF @ > clock THEN Later(@, rec.ttl + 1) ELSE @
                [] OTHER -> @]
  BY <1>1, UpsertWrites
<1>6. PromisesHold(clock)
  BY <1>2 DEF StickyInv
<1>7. promise \in [BindingIds -> Nat]
  BY TimesAreNat
<1>8. \A j \in BindingIds :
        /\ promise'[j] > 0 => j \in Known' /\ promise'[j] <= records'[j].ttl + 1
        /\ j \in Known' => records'[j].ttl <= clock + TTL
  <2> SUFFICES ASSUME NEW j \in BindingIds
               PROVE  /\ promise'[j] > 0 => j \in Known' /\ promise'[j] <= records'[j].ttl + 1
                      /\ j \in Known' => records'[j].ttl <= clock + TTL
    OBVIOUS
  <2>1. CASE j # i
    <3>1. promise'[j] = promise[j]
      BY <1>5, <1>7, <2>1
    <3> QED
      BY <1>5, <1>6, <2>1, <3>1 DEF PromisesHold
  <2>2. CASE j = i
    <3>1. promise'[i] > 0 => promise'[i] <= rec.ttl + 1
      BY <1>3, <1>5, <1>7 DEF Later
    <3> QED
      BY <1>3, <1>5, <2>2, <3>1
  <2> QED
    BY <2>1, <2>2
<1>9. PromisesHold(clock)'
  BY <1>4, <1>5, <1>8 DEF PromisesHold
<1>10. \A v \in Workers : call'[v].phase = "idle"
  <2>1. call' = [call EXCEPT ![w] = Idle] /\ Idle.phase = "idle" /\ call[w].phase # "idle"
    BY DEF Upsert, Idle
  <2> HIDE DEF Idle
  <2>2. call'[w] = Idle /\ \A v \in Workers \ {w} : call'[v] = call[v] /\ call[v].phase = "idle"
    BY <2>1, OthersIdle
  <2> QED
    BY <2>1, <2>2
<1>11. \A v \in Workers : KeepsPromises(call[v])'
  BY <1>10 DEF KeepsPromises
<1> QED
  BY <1>9, <1>11

\* Without an overlap and without late heartbeats, promises are kept.
LEMMA StickyNext ==
  ASSUME BindingInv, AloneInv, StickyInv, MaxLag = 0, [WatchedNext]_<<vars, overlapped>>
  PROVE  StickyInv'
<1>1. CASE UNCHANGED <<vars, overlapped>>
  BY <1>1 DEF vars, StickyInv, KeepsPromises, PromisesHold, IsNewest, IdsOf, Known
<1>2. CASE WatchedNext
  <2>0. overlapped' = (overlapped \/ \E v, u \in Busy' : v # u)
    BY <1>2 DEF WatchedNext
  <2>1. CASE Tick
    <3>1. SUFFICES ASSUME ~overlapped'
                   PROVE  PromisesHold(clock)' /\ \A w \in Workers : KeepsPromises(call[w])'
      BY DEF StickyInv
    <3>2. clock \in Nat /\ clock' = clock + 1 /\ UNCHANGED <<records, call, promise>>
      BY <2>1 DEF Tick, BindingInv, TypeOK
    <3>3. PromisesHold(clock) /\ \A w \in Workers : KeepsPromises(call[w])
      BY <2>0, <3>1 DEF StickyInv
    <3>4. PromisesHold(clock')
      BY <3>2, <3>3, PromisesLast
    <3>5. PromisesHold(clock)'
      BY <3>2, <3>4 DEF PromisesHold, IsNewest, IdsOf, Known
    <3>6. ASSUME NEW w \in Workers PROVE KeepsPromises(call[w])'
      <4>1. call[w].phase # "idle" => call[w].now \in Nat
        BY DEF BindingInv, TypeOK, Idle, Begun, Resolving, Updating
      <4>2. KeepsPromises(call[w]) /\ call'[w] = call[w]
        BY <3>2, <3>3
      <4> QED
        BY <3>2, <4>1, <4>2 DEF KeepsPromises, PromisesHold, IsNewest, IdsOf, Known
    <3> QED
      BY <3>5, <3>6
  <2>2. ASSUME NEW w \in Workers, NEW a \in Attackers, BeginResolve(w, a) PROVE StickyInv'
    <3> DEFINE d == [phase |-> "begun", attacker |-> a, now |-> clock, floor |-> answered[a],
                     promised |-> {i \in IdsOf(a) : promise[i] > clock}]
    <3>1. call' = [call EXCEPT ![w] = d] /\ d.phase = "begun"
          /\ UNCHANGED <<clock, records, promise>>
      BY <2>2 DEF BeginResolve
    <3>2. ~overlapped => KeepsPromises(d)
      BY BeginResolveSticky
    <3> HIDE DEF d
    <3> QED
      BY <2>0, <3>1, <3>2, StickyStep
  <2>3. ASSUME NEW w \in Workers, NEW i \in Known \cup {NoBinding}, ReadResolve(w, i)
        PROVE StickyInv'
    <3> DEFINE c == call[w]
               keep == i # NoBinding /\ StillValid(records[i], c.now)
               d == [phase |-> "read", op |-> "resolve",
                     id |-> IF keep THEN i ELSE NoBinding,
                     rec |-> IF keep THEN Resumed(records[i], c.now)
                             ELSE Fresh(c.attacker, c.now),
                     attacker |-> c.attacker, now |-> c.now,
                     floor |-> c.floor, promised |-> c.promised]
    <3>1. call' = [call EXCEPT ![w] = d] /\ d.phase = "read"
          /\ UNCHANGED <<clock, records, promise>>
      BY <2>3 DEF ReadResolve
    <3> HIDE DEF d
    <3>2. call'[w] = d
      BY <3>1 DEF BindingInv, TypeOK
    <3>3. ~overlapped => KeepsPromises(d)
      BY <2>3, <3>2, ReadResolveSticky
    <3> QED
      BY <2>0, <3>1, <3>3, StickyStep
  <2>4. ASSUME NEW w \in Workers, NEW now \in 0 .. clock, call[w].now <= now, Upsert(w, now)
        PROVE StickyInv'
    BY <2>0, <2>4, UpsertSticky DEF StickyInv
  <2>5. ASSUME NEW w \in Workers, Crash(w) PROVE StickyInv'
    <3>1. call' = [call EXCEPT ![w] = Idle] /\ Idle.phase = "idle" /\ call[w].phase # "idle"
          /\ UNCHANGED <<clock, records, promise>>
      BY <2>5 DEF Crash, Idle
    <3> HIDE DEF Idle
    <3>2. KeepsPromises(Idle)
      BY <3>1 DEF KeepsPromises
    <3> QED
      BY <2>0, <3>1, <3>2, StickyStep
  <2>6. ASSUME NEW w \in Workers, NEW i \in Known, UpdateRead(w, i) PROVE StickyInv'
    <3>0. PICK op \in {"heartbeat", "idle", "hard", "unlock", "reveal"}, rec \in Record :
            /\ call' = [call EXCEPT ![w] = [phase |-> "read", op |-> op, id |-> i,
                                            rec |-> rec, now |-> clock]]
            /\ op = "heartbeat" => \E ts \in 0 .. clock : clock <= ts + MaxLag /\ rec.ttl = ts + TTL
            /\ op \in {"unlock", "reveal"} => rec.ttl = records[i].ttl
            /\ UNCHANGED <<clock, records, promise>>
      BY <2>6 DEF UpdateRead
    <3> DEFINE d == [phase |-> "read", op |-> op, id |-> i, rec |-> rec, now |-> clock]
    <3>1. call' = [call EXCEPT ![w] = d] /\ d.phase = "read"
      BY <3>0
    <3>2. ~overlapped => KeepsPromises(d)
      BY <3>0, UpdateReadSticky
    <3> HIDE DEF d
    <3> QED
      BY <2>0, <3>0, <3>1, <3>2, StickyStep
  <2> QED
    BY <1>2, <2>1, <2>2, <2>3, <2>4, <2>5, <2>6, UpdatesRead DEF WatchedNext, Next
<1> QED
  BY <1>1, <1>2

\* Where heartbeats arrive without delay and no two calls have been in progress at
\* once, an attacker is answered the same binding until what it was told runs out.
\* A late heartbeat would move the expiry of the record back, behind what earlier
\* answers announced; an overlapping call can write an older TTL over a newer one.
THEOREM StickyAloneTheorem == MaxLag = 0 => (WatchedSpec => []StickyAlone)
<1> SUFFICES ASSUME MaxLag = 0 PROVE WatchedSpec => []StickyAlone
  OBVIOUS
<1>1. WatchedInit => AloneInv /\ StickyInv
  <2> SUFFICES ASSUME WatchedInit PROVE AloneInv /\ StickyInv
    OBVIOUS
  <2>1. AloneInv
    BY DEF WatchedInit, Init, AloneInv, Busy, Idle, SnapshotKeeps
  <2>2. PromisesHold(clock)
    BY DEF WatchedInit, Init, PromisesHold, Known
  <2>3. \A w \in Workers : KeepsPromises(call[w])
    BY DEF WatchedInit, Init, Idle, KeepsPromises
  <2> QED
    BY <2>1, <2>2, <2>3 DEF StickyInv
<1>2. BindingInv /\ AloneInv /\ StickyInv /\ [WatchedNext]_<<vars, overlapped>>
        => AloneInv' /\ StickyInv'
  BY AloneNext, StickyNext
<1>3. StickyInv => StickyAlone
  BY DEF StickyInv, KeepsPromises, StickyAlone, Sticky
<1> QED
  BY <1>1, <1>2, <1>3, WatchedBindingInvariant, PTL DEF WatchedSpec
=============================================================================
