---------------------------- MODULE AtomicStore ----------------------------
(***************************************************************************)
(* What the callers of libs/common/json_store.py rely on: a shared         *)
(* collection to which every process adds items one at a time, where an    *)
(* item whose addition has been acknowledged is there for good.  Only while *)
(* the collection is being set up may it be emptied again, and nothing is  *)
(* promised yet.  There is no file, no lock and no crash at this level.    *)
(***************************************************************************)
CONSTANT Items

VARIABLES
  stored,   \* the items a reader of the collection sees
  acked,    \* the items whose update call returned to its caller after the set-up
  settled   \* whether the set-up is over

vars == <<stored, acked, settled>>

TypeOK == stored \in SUBSET Items /\ acked \in SUBSET Items /\ settled \in BOOLEAN

Init == stored = {} /\ acked = {} /\ settled \in BOOLEAN

Add(i) ==
  /\ i \notin stored
  /\ stored' = stored \cup {i}
  /\ UNCHANGED <<acked, settled>>

Acknowledge(i) ==
  /\ i \in stored
  /\ settled
  /\ acked' = acked \cup {i}
  /\ UNCHANGED <<stored, settled>>

Empty ==
  /\ ~settled
  /\ stored' = {}
  /\ settled' \in BOOLEAN
  /\ UNCHANGED acked

Settle ==
  /\ settled' = TRUE
  /\ UNCHANGED <<stored, acked>>

Next ==
  \/ \E i \in Items : Add(i) \/ Acknowledge(i)
  \/ Empty \/ Settle

Spec == Init /\ [][Next]_vars
=============================================================================
