--------------------------- MODULE JsonFileStore ---------------------------
(***************************************************************************)
(* The JSON file behind every repository of the system                     *)
(* (libs/common/json_store.py), shared by processes that know nothing of   *)
(* each other: each constructs its own JsonFileStore on the same path and  *)
(* then runs locked read-modify-write cycles on it.                        *)
(*                                                                         *)
(* The document is the set of items the processes have added to it; the    *)
(* item <<p, n>> is what the n-th update of process p adds.  Every mutator *)
(* of the class (append_to_list, extend_list_in_object, set_object_item,   *)
(* upsert_list_item, replace_list_items, increment_nested_int) runs inside *)
(* the same cycle as update(), through _LockedPayload, so one cycle stands *)
(* for all of them.                                                        *)
(***************************************************************************)
EXTENDS Naturals

CONSTANTS
  Procs,        \* the service processes that open the file
  MaxUpdates,   \* bound: update calls each process makes
  NoOwner       \* nobody holds the flock

ASSUME MaxUpdatesAssumption == MaxUpdates \in Nat
ASSUME NoOwnerAssumption == NoOwner \notin Procs

VARIABLES
  exists,    \* self._path.exists()
  file,      \* the document a reader of self._path sees
  lock,      \* holder of the exclusive flock on the .lock file
  pc,        \* where each process is in the class
  payload,   \* the document a process holds in memory inside its cycle
  sent,      \* update calls a process has begun
  acked      \* history: items whose update call returned in a settled store

vars == <<exists, file, lock, pc, payload, sent, acked>>

Items == Procs \X (1 .. MaxUpdates)

Steps == {"constructing", "missing", "creating", "ready", "waiting",
          "locked", "loaded", "replaced"}

\* default_data, which _read_unlocked() also hands out for a missing file.
Default == {}

TypeOK ==
  /\ exists \in BOOLEAN
  /\ file \in SUBSET Items
  /\ lock \in Procs \cup {NoOwner}
  /\ pc \in [Procs -> Steps]
  /\ payload \in [Procs -> SUBSET Items]
  /\ sent \in [Procs -> 0 .. MaxUpdates]
  /\ acked \in SUBSET Items

InitWith(created) ==
  /\ exists = created
  /\ file = Default
  /\ lock = NoOwner
  /\ pc = [p \in Procs |-> "constructing"]
  /\ payload = [p \in Procs |-> Default]
  /\ sent = [p \in Procs |-> 0]
  /\ acked = {}

\* The runtime directory was initialised before the services start
\* (scripts/reset_enterprise_runtime.sh writes every file), or it is empty and
\* the services create their files themselves.
Init == \E created \in BOOLEAN : InitWith(created)

-----------------------------------------------------------------------------
\* __init__ / read -> _ensure_exists: the test of the path, outside the lock.
EnsureExists(p) ==
  /\ pc[p] = "constructing"
  /\ pc' = [pc EXCEPT ![p] = IF exists THEN "ready" ELSE "missing"]
  /\ UNCHANGED <<exists, file, lock, payload, sent, acked>>

\* _ensure_exists -> write(default): waits for the lock ...
LockForCreate(p) ==
  /\ pc[p] = "missing"
  /\ lock = NoOwner
  /\ lock' = p
  /\ pc' = [pc EXCEPT ![p] = "creating"]
  /\ UNCHANGED <<exists, file, payload, sent, acked>>

\* ... and replaces the path by the default document, whatever is there by now.
WriteDefault(p) ==
  /\ pc[p] = "creating"
  /\ exists' = TRUE
  /\ file' = Default
  /\ lock' = NoOwner
  /\ pc' = [pc EXCEPT ![p] = "ready"]
  /\ UNCHANGED <<payload, sent, acked>>

\* A caller asks for an update.
BeginUpdate(p) ==
  /\ pc[p] = "ready"
  /\ sent[p] < MaxUpdates
  /\ sent' = [sent EXCEPT ![p] = @ + 1]
  /\ pc' = [pc EXCEPT ![p] = "waiting"]
  /\ UNCHANGED <<exists, file, lock, payload, acked>>

\* Mutant of Acquire: update() that opens the lock file and never flocks it.
AcquireWithoutLock(p) ==
  /\ pc[p] = "waiting"
  /\ lock' = p
  /\ pc' = [pc EXCEPT ![p] = "locked"]
  /\ UNCHANGED <<exists, file, payload, sent, acked>>

\* flock(LOCK_EX) returns.
Acquire(p) ==
  /\ pc[p] = "waiting"
  /\ lock = NoOwner
  /\ lock' = p
  /\ pc' = [pc EXCEPT ![p] = "locked"]
  /\ UNCHANGED <<exists, file, payload, sent, acked>>

\* _read_unlocked and the mutator, on the process's own copy.
Load(p) ==
  /\ pc[p] = "locked"
  /\ payload' = [payload EXCEPT ![p] = file \cup {<<p, sent[p]>>}]
  /\ pc' = [pc EXCEPT ![p] = "loaded"]
  /\ UNCHANGED <<exists, file, lock, sent, acked>>

\* Mutant of Replace: the path is opened for writing, so a crash before the dump
\* ends, or any reader, finds it empty.
ReplaceInPlace(p) ==
  /\ pc[p] = "loaded"
  /\ \/ file # Default /\ file' = Default /\ pc' = pc
     \/ file' = payload[p] /\ pc' = [pc EXCEPT ![p] = "replaced"]
  /\ exists' = TRUE
  /\ UNCHANGED <<lock, payload, sent, acked>>

\* _write_unlocked: the temporary file is renamed over the path.
Replace(p) ==
  /\ pc[p] = "loaded"
  /\ exists' = TRUE
  /\ file' = payload[p]
  /\ pc' = [pc EXCEPT ![p] = "replaced"]
  /\ UNCHANGED <<lock, payload, sent, acked>>

\* Nobody is about to create the file any more.
Settled == exists /\ \A p \in Procs : pc[p] \notin {"missing", "creating"}

\* flock(LOCK_UN); the call returns.
Release(p) ==
  /\ pc[p] = "replaced"
  /\ lock' = NoOwner
  /\ acked' = IF Settled THEN acked \cup {<<p, sent[p]>>} ELSE acked
  /\ pc' = [pc EXCEPT ![p] = "ready"]
  /\ payload' = [payload EXCEPT ![p] = Default]
  /\ UNCHANGED <<exists, file, sent>>

\* Mutant of Crash: a lock file whose existence is the lock outlives its owner.
CrashKeepsLock(p) ==
  /\ pc' = [pc EXCEPT ![p] = "constructing"]
  /\ payload' = [payload EXCEPT ![p] = Default]
  /\ UNCHANGED <<exists, file, lock, sent, acked>>

\* The process dies anywhere and is started again: the kernel drops its flock,
\* what it had not renamed is gone, and it constructs its store anew.
Crash(p) ==
  /\ pc' = [pc EXCEPT ![p] = "constructing"]
  /\ lock' = IF lock = p THEN NoOwner ELSE lock
  /\ payload' = [payload EXCEPT ![p] = Default]
  /\ UNCHANGED <<exists, file, sent, acked>>

-----------------------------------------------------------------------------
Step(p) ==
  \/ EnsureExists(p)
  \/ LockForCreate(p)
  \/ WriteDefault(p)
  \/ Acquire(p)
  \/ Load(p)
  \/ Replace(p)
  \/ Release(p)

Next == \E p \in Procs : Step(p) \/ BeginUpdate(p) \/ Crash(p)

Spec == Init /\ [][Next]_vars

\* Code that runs, runs on; the kernel queues flock waiters in order, so a
\* waiter that is let through again and again takes the lock in the end.
\* Nothing forces a caller to begin an update, and nothing forces a crash.
Fairness == \A p \in Procs : WF_vars(Step(p)) /\ SF_vars(Acquire(p))

FairSpec == Spec /\ Fairness

-----------------------------------------------------------------------------
\* Inside a cycle: between flock(LOCK_EX) and flock(LOCK_UN).
InCycle(p) == pc[p] \in {"creating", "locked", "loaded", "replaced"}

\* Why nothing is lost once nobody creates the file any more: only the lock holder
\* is inside a cycle, and what it is about to rename over the path is what the path
\* holds now plus its own item.
OneCycleAtATime == \A p \in Procs : InCycle(p) <=> lock = p
PromisedWhenSettled == acked # {} => Settled
ExistsWhenUsed ==
  exists \/ \A p \in Procs : pc[p] \in {"constructing", "missing", "creating"}
PayloadIsFresh ==
  \A p \in Procs :
    /\ pc[p] \in {"waiting", "locked", "loaded", "replaced"} => sent[p] \in 1 .. MaxUpdates
    /\ pc[p] = "loaded" => payload[p] = file \cup {<<p, sent[p]>>}
    /\ pc[p] = "replaced" => <<p, sent[p]>> \in file

\* update() "keeps those file-backed updates from overwriting each other": an
\* item whose update has returned is in the document from then on, whoever else
\* reads, modifies, writes or crashes - if nobody was still about to create it.
NoLostUpdate == acked \subseteq file

\* The inductive invariant of the proofs.
StoreInv ==
  /\ TypeOK
  /\ OneCycleAtATime
  /\ PromisedWhenSettled
  /\ ExistsWhenUsed
  /\ PayloadIsFresh
  /\ NoLostUpdate

\* Readers, who take no lock, see the document grow by one item at a time: a
\* crash in the middle of a cycle shows them all of an update or none of it.
Atomic == INSTANCE AtomicStore WITH stored <- file, settled <- Settled
ImplementsAtomicStore == Atomic!Spec

\* A process that waits for the lock gets through its cycle or dies: no
\* crashed lock holder leaves the others waiting for ever.
EveryUpdateEnds ==
  \A p \in Procs : (pc[p] = "waiting") ~> (pc[p] \in {"ready", "constructing"})
=============================================================================
