------------------------ MODULE JsonFileStoreProofs ------------------------
(***************************************************************************)
(* What JsonFileStore guarantees for any number of processes and updates,  *)
(* whether or not the file exists at first: no update that returned after  *)
(* the creation is lost, and the lock protocol implements AtomicStore.     *)
(***************************************************************************)
EXTENDS JsonFileStore, TLAPS

\* Before the first service starts nothing is in progress.
LEMMA InitInv == Init => StoreInv
  BY MaxUpdatesAssumption, NoOwnerAssumption
     DEF Init, InitWith, StoreInv, TypeOK, OneCycleAtATime, InCycle,
         PromisedWhenSettled, Settled, ExistsWhenUsed, PayloadIsFresh, NoLostUpdate, Steps, Default

\* Every step of every process, and every crash, preserves the invariant.
LEMMA NextInv == StoreInv /\ [Next]_vars => StoreInv'
<1> SUFFICES ASSUME StoreInv, [Next]_vars PROVE StoreInv'
  OBVIOUS
<1> USE MaxUpdatesAssumption, NoOwnerAssumption
<1>1. CASE UNCHANGED vars
  BY <1>1 DEF StoreInv, TypeOK, OneCycleAtATime, InCycle, PromisedWhenSettled, Settled,
       ExistsWhenUsed, PayloadIsFresh, NoLostUpdate, vars
<1>2. ASSUME NEW p \in Procs, Step(p) \/ BeginUpdate(p) \/ Crash(p)
      PROVE StoreInv'
  <2> USE DEF StoreInv, TypeOK, OneCycleAtATime, InCycle, PromisedWhenSettled, Settled,
       ExistsWhenUsed, PayloadIsFresh, NoLostUpdate, Steps, Items, Default
  <2>1. CASE EnsureExists(p)
    BY <2>1 DEF EnsureExists
  <2>2. CASE LockForCreate(p)
    BY <2>2 DEF LockForCreate
  <2>3. CASE WriteDefault(p)
    BY <2>3 DEF WriteDefault
  <2>4. CASE Acquire(p)
    BY <2>4 DEF Acquire
  <2>5. CASE Load(p)
    BY <2>5 DEF Load
  <2>6. CASE Replace(p)
    BY <2>6 DEF Replace
  <2>7. CASE Release(p)
    BY <2>7 DEF Release
  <2>8. CASE BeginUpdate(p)
    BY <2>8 DEF BeginUpdate
  <2>9. CASE Crash(p)
    BY <2>9 DEF Crash
  <2> QED
    BY <1>2, <2>1, <2>2, <2>3, <2>4, <2>5, <2>6, <2>7, <2>8, <2>9 DEF Step
<1> QED
  BY <1>1, <1>2 DEF Next

\* Whatever the processes do to the file, the lock holder is the only
\* one inside a read-modify-write cycle and works on the current document.
THEOREM StoreInvariant == Spec => []StoreInv
  BY InitInv, NextInv, PTL DEF Spec

\* update() and the _LockedPayload mutators never overwrite an update that has
\* returned, for any number of processes and in spite of any crashes.
THEOREM NoLostUpdateTheorem == Spec => []NoLostUpdate
  BY StoreInvariant, PTL DEF StoreInv

\* Once settled, a store stays settled.
LEMMA SettledStays ==
  ASSUME NEW p \in Procs, TypeOK, Settled, Step(p) \/ BeginUpdate(p) \/ Crash(p)
  PROVE  Settled'
  BY DEF TypeOK, Steps, Settled, Step, EnsureExists, LockForCreate, WriteDefault, Acquire, Load,
         Replace, Release, BeginUpdate, Crash

\* A step of the lock protocol is one addition, one acknowledgement, a part of the
\* set-up, or invisible to a reader of the file.
LEMMA StepRefines ==
  ASSUME StoreInv, [Next]_vars
  PROVE  [Atomic!Next]_(Atomic!vars)
<1> USE MaxUpdatesAssumption, NoOwnerAssumption
<1>1. CASE UNCHANGED vars
  BY <1>1 DEF vars, Atomic!vars, Settled
<1>2. ASSUME NEW p \in Procs, Step(p) \/ BeginUpdate(p) \/ Crash(p)
      PROVE [Atomic!Next]_(Atomic!vars)
  <2> DEFINE item == <<p, sent[p]>>
  <2>t. TypeOK /\ Settled \in BOOLEAN
    BY DEF StoreInv, TypeOK, Settled
  <2>s. Settled => Settled'
    BY <1>2, <2>t, SettledStays
  <2>q. ASSUME file' = file, acked' = acked
        PROVE [Atomic!Next]_(Atomic!vars)
    <3>1. Settled' \in BOOLEAN
      BY DEF Settled
    <3>2. CASE Settled' = Settled
      BY <2>q, <3>2 DEF Atomic!vars
    <3>3. CASE Settled' # Settled
      BY <2>q, <2>t, <2>s, <3>1, <3>3 DEF Atomic!Next, Atomic!Settle
    <3> QED
      BY <3>2, <3>3
  <2>1. CASE Replace(p)
    <3>1. item \in Items /\ file' = file \cup {item} /\ acked' = acked
      BY <2>1 DEF Replace, StoreInv, PayloadIsFresh, Items
    <3>2. CASE item \in file
      BY <3>1, <3>2, <2>q
    <3>3. CASE item \notin file
      <4>1. pc' = [pc EXCEPT ![p] = "replaced"] /\ exists' = TRUE /\ pc[p] = "loaded"
        BY <2>1 DEF Replace
      <4>2. Settled' = Settled
        <5>1. \A q \in Procs : pc'[q] \in {"missing", "creating"} <=> pc[q] \in {"missing", "creating"}
          BY <4>1, <2>t DEF TypeOK
        <5>2. CASE exists
          BY <4>1, <5>1, <5>2 DEF Settled
        <5>3. CASE ~exists
          BY <2>1, <5>3, <2>t DEF StoreInv, Replace, ExistsWhenUsed
        <5> QED
          BY <5>2, <5>3
      <4> QED
        BY <3>1, <3>3, <4>2 DEF Atomic!Next, Atomic!Add
    <3> QED
      BY <3>2, <3>3
  <2>2. CASE Release(p)
    <3>1. item \in Items /\ item \in file
      BY <2>2 DEF Release, StoreInv, PayloadIsFresh, Items
    <3>2. file' = file /\ acked' = IF Settled THEN acked \cup {item} ELSE acked
      BY <2>2 DEF Release
    <3>3. CASE Settled
      <4>1. Settled'
        BY <2>s, <3>3
      <4> QED
        BY <3>1, <3>2, <3>3, <4>1 DEF Atomic!Next, Atomic!Acknowledge, Settled
    <3>4. CASE ~Settled
      BY <3>2, <3>4, <2>q
    <3> QED
      BY <3>3, <3>4
  <2>3. CASE WriteDefault(p)
    <3>1. file' = {} /\ acked' = acked /\ pc[p] = "creating"
      BY <2>3 DEF WriteDefault, Default
    <3>2. ~Settled /\ Settled' \in BOOLEAN
      BY <3>1 DEF Settled
    <3> QED
      BY <3>1, <3>2 DEF Atomic!Next, Atomic!Empty
  <2>4. CASE EnsureExists(p) \/ LockForCreate(p) \/ Acquire(p) \/ Load(p)
              \/ BeginUpdate(p) \/ Crash(p)
    <3>1. file' = file /\ acked' = acked
      BY <2>4 DEF EnsureExists, LockForCreate, Acquire, Load, BeginUpdate, Crash
    <3> QED
      BY <3>1, <2>q
  <2> QED
    BY <1>2, <2>1, <2>2, <2>3, <2>4 DEF Step
<1> QED
  BY <1>1, <1>2 DEF Next

\* JsonFileStore implements the store its callers believe in: items appear one by
\* one, whole, and once it is set up they stay when they have been acknowledged.
THEOREM Refinement == Spec => ImplementsAtomicStore
<1>1. Init => Atomic!Init
  BY DEF Init, InitWith, Default, Settled, Atomic!Init
<1>2. StoreInv /\ [Next]_vars => [Atomic!Next]_(Atomic!vars)
  BY StepRefines
<1> QED
  BY <1>1, <1>2, StoreInvariant, PTL
     DEF Spec, ImplementsAtomicStore, Atomic!Spec
=============================================================================
