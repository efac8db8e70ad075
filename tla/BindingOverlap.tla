--------------------------- MODULE BindingOverlap ---------------------------
(***************************************************************************)
(* BindingService with a note of whether two calls were ever in progress at *)
(* once: what its callers are promised holds until then.                    *)
(***************************************************************************)
EXTENDS BindingService

VARIABLE overlapped   \* history: whether two calls were ever in progress at once

Busy == {w \in Workers : call[w].phase # "idle"}
WatchedInit == Init /\ overlapped = FALSE
WatchedNext == Next /\ overlapped' = (overlapped \/ \E v, w \in Busy' : v # w)
WatchedSpec == WatchedInit /\ [][WatchedNext]_<<vars, overlapped>>

-----------------------------------------------------------------------------
\* "same attacker_key should resolve to the same active binding": Sticky, as long
\* as no two calls have ever been in progress at once.
StickyAlone == ~overlapped => Sticky

\* "Append one or more unlocked assets": RevealsAreKept, as long as no two calls
\* have ever been in progress at once.
RevealsAreKeptAlone == [][~overlapped' => KeepReveals]_<<vars, overlapped>>

-----------------------------------------------------------------------------
(* The inductive invariants of the proofs.                                   *)

\* Nobody else has written since the one call in progress has read.
SnapshotKeeps(c) ==
  c.phase = "read" /\ c.id # NoBinding =>
    /\ records[c.id].unlocked \subseteq c.rec.unlocked
    /\ records[c.id].revealed \subseteq c.rec.revealed
AloneInv ==
  ~overlapped =>
    /\ \A v, w \in Busy : v = w
    /\ \A w \in Workers : SnapshotKeeps(call[w])

\* At time t, what was promised is what resolve would answer: the record lives as
\* long as its promise, and no newer one of the attacker hides it.
PromisesHold(t) ==
  \A i \in BindingIds :
    /\ promise[i] > 0 => i \in Known /\ promise[i] <= records[i].ttl + 1
    /\ i \in Known => records[i].ttl <= t + TTL
    /\ i \in Known /\ promise[i] > t => IsNewest(records[i].attacker, i)

\* The call in progress has seen them, and goes by them.
KeepsPromises(c) ==
  /\ c.phase # "idle" => c.now <= clock /\ PromisesHold(c.now)
  /\ c.phase = "begun" => c.promised \subseteq IdsOf(c.attacker)
  /\ c.phase = "read" /\ c.op = "resolve" =>
       /\ c.promised \subseteq IdsOf(c.attacker)
       /\ c.rec.ttl = c.now + TTL
       /\ c.id # NoBinding => IsNewest(c.attacker, c.id)
       /\ \A i \in IdsOf(c.attacker) : promise[i] > c.now => c.id = i
  /\ c.phase = "read" /\ c.op = "heartbeat" => c.rec.ttl = c.now + TTL
  /\ c.phase = "read" /\ c.op \in {"unlock", "reveal"} => c.rec.ttl = records[c.id].ttl
StickyInv ==
  ~overlapped => PromisesHold(clock) /\ \A w \in Workers : KeepsPromises(call[w])
=============================================================================
