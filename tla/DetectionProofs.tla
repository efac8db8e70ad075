---------------------------- MODULE DetectionProofs ----------------------------
(***************************************************************************)
(* Of any catalog, rules, prior and attacker: a plan is at most two reveals   *)
(* of two directions, a repeat of what the profile knows changes nothing, no  *)
(* confidence falls but for time, a rule matches exactly what its condition   *)
(* says, and whole messages read at once invent no technique.                 *)
(*                                                                            *)
(* What a gain adds up to is a fold, which the proofs leave closed: the plans *)
(* are two directions however candidates are ranked.                          *)
(***************************************************************************)
EXTENDS Detection, SequenceTheorems, FiniteSetTheorems, WellFoundedInduction, TLAPS

-------------------------------------------------------------------------------
(* Sequences made of positions.                                              *)

\* What a function on 1 .. n holds, whatever it is made of.
IsSeq(s) == s \in Seq(ToSet(s))

\* A set of natural numbers has a least.
LEMMA LeastOf ==
  ASSUME NEW S, S \subseteq Nat, S # {}
  PROVE  \E m \in S : \A y \in S : m <= y
<1>1. PICK m \in S : \A y \in S : <<y, m>> \notin OpToRel(<, Nat)
  BY WFMin, NatLessThanWellFounded
<1>2. \A y \in S : ~(y < m)
  BY <1>1 DEF OpToRel
<1>3. \A y \in S : m <= y
  BY <1>2
<1> QED
  BY <1>3

\* The positions picked are numbered in their order, each of them once.
LEMMA RanksAre ==
  ASSUME NEW n \in Nat, NEW P, P \subseteq 1 .. n
  PROVE  LET rank(i) == Cardinality({j \in P : j < i})
         IN  /\ Cardinality(P) \in Nat
             /\ \A i \in P : rank(i) \in 0 .. (Cardinality(P) - 1)
             /\ \A i, j \in P : rank(i) = rank(j) => i = j
             /\ \A k \in 0 .. (Cardinality(P) - 1) : \E i \in P : rank(i) = k
<1> DEFINE below(i) == {j \in P : j < i}
           c == Cardinality(P)
           ranks == [i \in P |-> Cardinality(below(i))]
<1>1. IsFiniteSet(P) /\ c \in Nat
  <2>1. IsFiniteSet(1 .. n)
    BY FS_Interval
  <2> QED
    BY <2>1, FS_Subset, FS_CardinalityType
<1>2. ASSUME NEW i \in P PROVE Cardinality(below(i)) \in 0 .. (c - 1) /\ IsFiniteSet(below(i))
  <2>1. below(i) \subseteq P \ {i}
    OBVIOUS
  <2> HIDE DEF below
  <2>2. IsFiniteSet(P \ {i}) /\ Cardinality(P \ {i}) = c - 1
    BY <1>1, FS_RemoveElement
  <2>3. IsFiniteSet(below(i)) /\ Cardinality(below(i)) <= Cardinality(P \ {i})
    BY <2>1, <2>2, FS_Subset
  <2>4. Cardinality(below(i)) \in Nat
    BY <2>3, FS_CardinalityType
  <2> QED
    BY <1>1, <2>2, <2>3, <2>4
<1>3. ASSUME NEW i \in P, NEW j \in P, i < j PROVE Cardinality(below(i)) # Cardinality(below(j))
  <2>0. i \in Nat /\ j \in Nat /\ \A k \in P : k \in Nat
    OBVIOUS
  <2>1. below(i) \subseteq below(j) /\ i \in below(j) /\ i \notin below(i)
    <3>1. \A k \in P : k < i => k < j
      BY <1>3, <2>0
    <3>2. i < j /\ ~(i < i)
      BY <1>3, <2>0
    <3>3. below(i) \subseteq below(j)
      BY <3>1
    <3> QED
      BY <3>2, <3>3
  <2>2. IsFiniteSet(below(j))
    BY <1>2
  <2> HIDE DEF below
  <2> QED
    BY <2>1, <2>2, FS_Subset
<1>4. \A i, j \in P : Cardinality(below(i)) = Cardinality(below(j)) => i = j
  <2> SUFFICES ASSUME NEW i \in P, NEW j \in P, i # j
               PROVE  Cardinality(below(i)) # Cardinality(below(j))
    OBVIOUS
  <2>1. i < j \/ j < i
    OBVIOUS
  <2> HIDE DEF below
  <2> QED
    BY <2>1, <1>3
<1> HIDE DEF below
<1>5. ranks \in Injection(P, 0 .. (c - 1))
  BY <1>2, <1>4 DEF Injection, IsInjective
<1>6. IsFiniteSet(0 .. (c - 1)) /\ Cardinality(0 .. (c - 1)) = c
  BY <1>1, FS_Interval
<1> HIDE DEF ranks
<1>7. ranks \in Surjection(P, 0 .. (c - 1))
  BY <1>5, <1>6, FS_Injection
<1>8. \A k \in 0 .. (c - 1) : \E i \in P : Cardinality(below(i)) = k
  BY <1>7 DEF Surjection, ranks
<1> QED
  BY <1>1, <1>2, <1>4, <1>8 DEF below

\* What is picked is what was at the positions.
LEMMA PickedIs ==
  ASSUME NEW n \in Nat, NEW P, P \subseteq 1 .. n, NEW s
  PROVE  /\ IsSeq(Picked(s, P))
         /\ ToSet(Picked(s, P)) = {s[i] : i \in P}
         /\ Picked(s, P) = <<>> <=> P = {}
<1> DEFINE rank(i) == Cardinality({j \in P : j < i})
           c == Cardinality(P)
           at(k) == CHOOSE i \in P : rank(i) = k - 1
           picked == Picked(s, P)
<1>1. /\ c \in Nat /\ \A i \in P : rank(i) \in 0 .. (c - 1)
      /\ \A i, j \in P : rank(i) = rank(j) => i = j
      /\ \A k \in 0 .. (c - 1) : \E i \in P : rank(i) = k
  BY RanksAre
<1>2. picked = [k \in 1 .. c |-> s[at(k)]]
  BY DEF Picked
<1> HIDE DEF rank, picked, c
<1>3. \A k \in 1 .. c : at(k) \in P /\ rank(at(k)) = k - 1
  <2> TAKE k \in 1 .. c
  <2>1. k - 1 \in 0 .. (c - 1)
    BY <1>1
  <2>2. \E i \in P : rank(i) = k - 1
    BY <1>1, <2>1
  <2> QED
    BY <2>2
<1>4. ASSUME NEW i \in P PROVE \E k \in 1 .. c : picked[k] = s[i]
  <2>1. rank(i) + 1 \in 1 .. c /\ (rank(i) + 1) - 1 = rank(i)
    BY <1>1
  <2>2. at(rank(i) + 1) \in P /\ rank(at(rank(i) + 1)) = rank(i)
    BY <1>3, <2>1
  <2>3. at(rank(i) + 1) = i
    BY <1>1, <2>2
  <2> HIDE DEF at
  <2>4. picked[rank(i) + 1] = s[i]
    BY <1>2, <2>1, <2>3
  <2> QED
    BY <2>1, <2>4
<1> HIDE DEF at
<1>5. DOMAIN picked = 1 .. c /\ \A k \in 1 .. c : picked[k] = s[at(k)] /\ at(k) \in P
  BY <1>2, <1>3
<1>6. ToSet(picked) = {s[i] : i \in P}
  <2>1. \A x \in ToSet(picked) : x \in {s[i] : i \in P}
    BY <1>5 DEF ToSet
  <2>2. \A i \in P : s[i] \in ToSet(picked)
    BY <1>4, <1>5 DEF ToSet
  <2> QED
    BY <2>1, <2>2
<1>7. picked \in [1 .. c -> ToSet(picked)]
  BY <1>2 DEF ToSet
<1>8. IsSeq(picked)
  BY <1>1, <1>7 DEF IsSeq
<1>9. picked = <<>> <=> P = {}
  <2>1. CASE P = {}
    <3>1. c = 0
      BY <2>1, FS_EmptySet DEF c
    <3> QED
      BY <1>2, <2>1, <3>1
  <2>2. CASE P # {}
    <3>1. PICK i \in P : TRUE
      BY <2>2
    <3>2. DOMAIN picked # {}
      BY <1>4, <1>5, <3>1
    <3>3. DOMAIN <<>> = {}
      OBVIOUS
    <3> QED
      BY <2>2, <3>2, <3>3
  <2> QED
    BY <2>1, <2>2
<1> QED
  BY <1>6, <1>8, <1>9 DEF picked

\* Dropping what came before drops nothing for good.
LEMMA DedupeIs ==
  ASSUME NEW s, IsSeq(s)
  PROVE  /\ IsSeq(DedupePreserve(s)) /\ ToSet(DedupePreserve(s)) = ToSet(s)
         /\ DedupePreserve(s) = <<>> <=> s = <<>>
<1> DEFINE n == Len(s)
           P == {i \in DOMAIN s : \A j \in 1 .. (i - 1) : s[j] # s[i]}
<1>1. n \in Nat /\ DOMAIN s = 1 .. n
  BY DEF IsSeq
<1>2. P \subseteq 1 .. n
  BY <1>1
<1>3. DedupePreserve(s) = Picked(s, P)
  BY DEF DedupePreserve, DedupePreserveBy
<1>4. ASSUME NEW i \in 1 .. n PROVE \E p \in P : s[p] = s[i]
  <2> DEFINE same == {j \in 1 .. n : s[j] = s[i]}
  <2>0. same \subseteq Nat /\ i \in same
    BY <1>1
  <2> HIDE DEF same
  <2>1. PICK m \in same : \A y \in same : m <= y
    BY <2>0, LeastOf
  <2> USE DEF same
  <2>2. \A j \in 1 .. (m - 1) : s[j] # s[m]
    BY <1>1, <2>1
  <2> QED
    BY <1>1, <2>1, <2>2
<1> HIDE DEF P, n
<1>5. {s[i] : i \in P} = {s[i] : i \in DOMAIN s}
  BY <1>1, <1>2, <1>4
<1>6. P = {} <=> s = <<>>
  <2>1. s = <<>> <=> n = 0
    BY <1>1 DEF IsSeq, n
  <2> QED
    BY <1>1, <1>2, <1>4, <2>1
<1>7. /\ IsSeq(Picked(s, P)) /\ ToSet(Picked(s, P)) = {s[i] : i \in P}
      /\ Picked(s, P) = <<>> <=> P = {}
  BY <1>1, <1>2, PickedIs
<1>8. ToSet(s) = {s[i] : i \in DOMAIN s}
  BY DEF ToSet
<1> QED
  BY <1>3, <1>5, <1>6, <1>7, <1>8

LEMMA ConcatIs ==
  ASSUME NEW s, IsSeq(s), NEW t, IsSeq(t)
  PROVE  IsSeq(s \o t) /\ ToSet(s \o t) = ToSet(s) \cup ToSet(t)
<1> DEFINE S == ToSet(s) \cup ToSet(t)
           st == s \o t
<1>1. s \in Seq(S) /\ t \in Seq(S) /\ Len(s) \in Nat /\ Len(t) \in Nat
  BY DEF IsSeq
<1>2. /\ st \in Seq(S) /\ Len(st) = Len(s) + Len(t)
      /\ \A i \in 1 .. Len(st) : st[i] = IF i <= Len(s) THEN s[i] ELSE t[i - Len(s)]
  BY <1>1
<1>3. DOMAIN s = 1 .. Len(s) /\ DOMAIN t = 1 .. Len(t) /\ DOMAIN st = 1 .. Len(st)
  BY <1>1, <1>2
<1> HIDE DEF st
<1>4. ASSUME NEW i \in DOMAIN s PROVE s[i] \in ToSet(st)
  <2>1. i \in 1 .. Len(st) /\ st[i] = s[i]
    BY <1>1, <1>2, <1>3
  <2> QED
    BY <2>1, <1>3 DEF ToSet
<1>5. ASSUME NEW i \in DOMAIN t PROVE t[i] \in ToSet(st)
  <2>1. i + Len(s) \in 1 .. Len(st) /\ st[i + Len(s)] = t[i]
    BY <1>1, <1>2, <1>3
  <2> QED
    BY <2>1, <1>3 DEF ToSet
<1>6. ToSet(st) \subseteq S
  BY <1>1, <1>2, <1>3 DEF ToSet
<1>7. ToSet(st) = S
  BY <1>4, <1>5, <1>6 DEF ToSet
<1> QED
  BY <1>2, <1>7 DEF IsSeq, st

LEMMA FewAre ==
  /\ IsSeq(<<>>) /\ ToSet(<<>>) = {}
  /\ \A x : IsSeq(<<x>>) /\ ToSet(<<x>>) = {x}
  /\ \A x, y : IsSeq(<<x, y>>) /\ ToSet(<<x, y>>) = {x, y}
  BY DEF IsSeq, ToSet

-------------------------------------------------------------------------------
(* Plans.                                                                    *)

\* However candidates are ranked, the best of them is one of them.
LEMMA BestIsOneOf ==
  ASSUME NEW candidates
  PROVE  \/ Best(candidates) = <<>>
         \/ \E c \in candidates : Best(candidates) = <<c.option>>
  BY DEF Best

\* What a catalog's asset must be to be offered.
LEMMA AssetOption ==
  ASSUME NEW who, NEW open, NEW planned, NEW o \in AssetOptions(who, open, planned)
  PROVE  /\ o.kind = "unlock" /\ o.asset \notin planned
         /\ Catalog[o.asset].dependencies \subseteq planned
  BY DEF AssetOptions, Eligible

\* The configuration an option stands for, one not shown yet.
OffersVariant(o, shown) ==
  \E v \in Catalog[o.asset].variants :
    /\ o.configuration = v.id /\ <<o.asset, v.id>> \notin shown
    /\ o.covered = CoveredBy(v, Exposes(o.asset, v.target))

LEMMA ConfigurationOption ==
  ASSUME NEW who, NEW open, NEW shown, NEW planned,
         NEW o \in ConfigurationOptions(who, open, shown, planned)
  PROVE  /\ o.kind = "configure" /\ o.asset \in open \cap DOMAIN Catalog
         /\ OffersVariant(o, shown)
<1> DEFINE target(a, v) == Exposes(a, v.target)
           option(a, v) ==
             [kind |-> "configure", asset |-> a, configuration |-> v.id, target |-> v.target,
              covered |-> CoveredBy(v, target(a, v)),
              telemetry |-> v.telemetry, group |-> Catalog[target(a, v)].group,
              markers |-> MatchedVariantMarkers(v, who),
              upgrade |-> v.target # None]
<1>0. PICK a \in open \cap DOMAIN Catalog : \E v \in Catalog[a].variants :
        <<a, v.id>> \notin shown /\ o = option(a, v)
  BY DEF ConfigurationOptions
<1>1. PICK v \in Catalog[a].variants : <<a, v.id>> \notin shown /\ o = option(a, v)
  BY <1>0
<1>2. /\ o.kind = "configure" /\ o.asset = a /\ o.configuration = v.id
      /\ o.covered = CoveredBy(v, Exposes(a, v.target))
  BY <1>1
<1> QED
  BY <1>1, <1>2 DEF OffersVariant

\* A candidate is an option, and as a second choice covers a family of its own.
LEMMA CandidateIs ==
  ASSUME NEW options, NEW exploit, NEW who, NEW open, NEW observed, NEW recommended,
         NEW c \in Candidates(options, exploit, who, open, observed, recommended)
  PROVE  /\ c.option \in options
         /\ exploit # <<>> =>
              \E t \in c.option.covered : IsDistinctExploreTechnique(t, exploit[1])
<1> DEFINE counted(o) == CountedTechniques(o, exploit, who, open, observed, recommended)
<1>1. c.option \in options /\ counted(c.option) # {}
  BY DEF Candidates
<1>2. ASSUME exploit # <<>>
      PROVE  \A t \in counted(c.option) :
               t \in c.option.covered /\ IsDistinctExploreTechnique(t, exploit[1])
  BY <1>2 DEF CountedTechniques
<1> QED
  BY <1>1, <1>2

\* The shape of a plan.
Offered(planned) == RevealOptions(profile, unlocked, revealed, planned)
FollowsUp(o, p) ==
  /\ p \in Offered(Planned(unlocked, o))
  /\ \E t \in p.covered : IsDistinctExploreTechnique(t, o)
IsPlan(plan) ==
  \/ plan = <<>>
  \/ \E o \in Offered(unlocked) : plan = <<o>> \/ \E p \in Offered(Planned(unlocked, o)) :
       FollowsUp(o, p) /\ plan = <<o, p>>

\* One element followed by another.
LEMMA TwoOnes == ASSUME NEW o, NEW p PROVE <<o>> \o <<p>> = <<o, p>>
<1> DEFINE S == {o, p}
           s == <<o>> \o <<p>>
           t == <<o, p>>
<1>1. s \in Seq(S) /\ t \in Seq(S)
  OBVIOUS
<1>2. Len(s) = 2 /\ Len(t) = 2
  OBVIOUS
<1>3. s[1] = t[1] /\ s[2] = t[2]
  OBVIOUS
<1>4. \A i \in 1 .. Len(s) : s[i] = t[i]
  BY <1>2, <1>3
<1> HIDE DEF s, t, S
<1>5. s = t
  BY <1>1, <1>2, <1>4, SeqEqual
<1> QED
  BY <1>5 DEF s, t

\* Every plan is: an exploit on offer, and what was on offer after it.
LEMMA PlanIs == IsPlan(Plan)
<1> DEFINE observed == ThresholdedObserved(profile)
           choose(exploit, planned) ==
             Best(Candidates(RevealOptions(profile, unlocked, revealed, planned), exploit,
                             profile, unlocked, observed, Recommend(observed)))
           first == choose(<<>>, unlocked)
           second(o) == choose(<<o>>, Planned(unlocked, o))
           explore == [o \in ToSet(first) |-> choose(<<o>>, Planned(unlocked, o))]
<1>1. Plan = IF ScannerOnly(profile) \/ first = <<>> THEN <<>> ELSE first \o explore[first[1]]
  BY DEF Plan, Tick
<1>2. first = <<>> \/ \E o \in Offered(unlocked) : first = <<o>>
  BY BestIsOneOf, CandidateIs DEF Offered
<1>3. ASSUME NEW o PROVE second(o) = <<>> \/ \E p : FollowsUp(o, p) /\ second(o) = <<p>>
  <2> DEFINE cs == Candidates(RevealOptions(profile, unlocked, revealed, Planned(unlocked, o)), <<o>>,
                             profile, unlocked, observed, Recommend(observed))
  <2>1. \A c \in cs : FollowsUp(o, c.option)
    <3> TAKE c \in cs
    <3>1. <<o>> # <<>> /\ <<o>>[1] = o
      OBVIOUS
    <3> QED
      BY <3>1, CandidateIs DEF FollowsUp, Offered
  <2> HIDE DEF cs
  <2> QED
    BY <2>1, BestIsOneOf DEF cs
<1> HIDE DEF first, second
<1>4. CASE ScannerOnly(profile) \/ first = <<>>
  BY <1>1, <1>4 DEF IsPlan
<1>5. CASE ~ScannerOnly(profile) /\ first # <<>>
  <2>1. PICK o \in Offered(unlocked) : first = <<o>>
    BY <1>2, <1>5
  <2>2. ToSet(first) = {o} /\ first[1] = o
    BY <2>1 DEF ToSet
  <2>3. explore[first[1]] = second(o)
    BY <2>2 DEF second
  <2>4. Plan = <<o>> \o second(o)
    BY <1>1, <1>5, <2>1, <2>3
  <2>5. CASE second(o) = <<>>
    <3>1. Plan = <<o>>
      BY <2>4, <2>5
    <3> QED
      BY <3>1 DEF IsPlan
  <2>6. ASSUME NEW p, FollowsUp(o, p), second(o) = <<p>> PROVE IsPlan(Plan)
    <3>1. Plan = <<o, p>>
      BY <2>4, <2>6, TwoOnes
    <3> QED
      BY <3>1, <2>6 DEF IsPlan, FollowsUp
  <2> QED
    BY <1>3, <2>5, <2>6
<1> QED
  BY <1>4, <1>5

\* The reveal of an option was not made before.
IsNew(o) ==
  IF o.kind = "unlock" THEN o.asset \notin unlocked
  ELSE o.asset \in unlocked /\ <<o.asset, o.configuration>> \notin revealed

LEMMA OfferedIsNew ==
  ASSUME NEW planned, unlocked \subseteq planned, NEW o \in Offered(planned)
  PROVE  /\ IsNew(o)
         /\ o.kind = "unlock" =>
              o.asset \notin planned /\ Catalog[o.asset].dependencies \subseteq planned
         /\ o.kind # "unlock" => o.asset \in DOMAIN Catalog /\ OffersVariant(o, revealed)
<1>1. CASE o \in AssetOptions(profile, unlocked, planned)
  BY <1>1, AssetOption DEF IsNew
<1>2. CASE o \in ConfigurationOptions(profile, unlocked, revealed, planned)
  <2>1. /\ o.kind = "configure" /\ o.asset \in unlocked /\ o.asset \in DOMAIN Catalog
        /\ OffersVariant(o, revealed)
    BY <1>2, ConfigurationOption
  <2>2. <<o.asset, o.configuration>> \notin revealed
    BY <2>1 DEF OffersVariant
  <2> QED
    BY <2>1, <2>2 DEF IsNew
<1> QED
  BY <1>1, <1>2 DEF Offered, RevealOptions

\* Two directions, and never the same reveal twice.
LEMMA DirectionsDiffer ==
  ASSUME NEW o \in Offered(unlocked), NEW p, FollowsUp(o, p)
  PROVE  <<o.asset, o.configuration>> # <<p.asset, p.configuration>>
<1>1. unlocked \subseteq Planned(unlocked, o)
  BY DEF Planned
<1>2. p \in Offered(Planned(unlocked, o))
  BY DEF FollowsUp
<1>3. PICK t \in p.covered : IsDistinctExploreTechnique(t, o)
  BY DEF FollowsUp
<1>4. t \notin o.covered
  BY <1>3 DEF IsDistinctExploreTechnique, SameFamily
<1> SUFFICES ASSUME o.asset = p.asset, o.configuration = p.configuration PROVE FALSE
  OBVIOUS
<1>5. CASE p.kind = "unlock"
  <2>1. o.kind # "unlock"
    BY <1>1, <1>2, <1>5, OfferedIsNew DEF Planned
  <2> QED
    BY <2>1, <1>1, <1>2, <1>5, OfferedIsNew DEF IsNew
<1>6. CASE p.kind # "unlock"
  <2>1. o.kind # "unlock"
    BY <1>1, <1>2, <1>6, OfferedIsNew DEF IsNew
  <2>2. /\ o.asset \in DOMAIN Catalog
        /\ OffersVariant(o, revealed) /\ OffersVariant(p, revealed)
    BY <2>1, <1>1, <1>2, <1>6, OfferedIsNew
  <2>3. o.covered = p.covered
    BY <2>2, PolicyAssumption DEF OffersVariant
  <2> QED
    BY <2>3, <1>3, <1>4
<1> QED
  BY <1>5, <1>6

\* So it is in any state, whatever has been revealed and observed.
LEMMA PlansDirections == PlanIsTwoDirections
<1> DEFINE reveal(o) == <<o.asset, o.configuration>>
<1>1. IsPlan(Plan)
  BY PlanIs
<1>2. CASE Plan = <<>>
  BY <1>2 DEF PlanIsTwoDirections
<1>3. ASSUME NEW o \in Offered(unlocked), Plan = <<o>> PROVE PlanIsTwoDirections
  <2>1. IsNew(o)
    BY OfferedIsNew
  <2> QED
    BY <2>1, <1>3 DEF PlanIsTwoDirections, IsNew
<1>4. ASSUME NEW o \in Offered(unlocked), NEW p, FollowsUp(o, p), Plan = <<o, p>>
      PROVE  PlanIsTwoDirections
  <2>1. unlocked \subseteq Planned(unlocked, o)
    BY DEF Planned
  <2>2. p \in Offered(Planned(unlocked, o))
    BY <1>4 DEF FollowsUp
  <2>3. IsNew(o) /\ IsNew(p)
    BY <2>1, <2>2, OfferedIsNew
  <2>4. reveal(o) # reveal(p)
    BY <1>4, DirectionsDiffer
  <2>5. \E t \in p.covered : \A u \in o.covered : ~SameFamily(t, u)
    BY <1>4 DEF FollowsUp, IsDistinctExploreTechnique
  <2>6. p.kind = "unlock" => Catalog[p.asset].dependencies \subseteq Planned(unlocked, o)
    BY <2>1, <2>2, OfferedIsNew
  <2>7. DOMAIN Plan = {1, 2} /\ Plan[1] = o /\ Plan[2] = p
    BY <1>4
  <2> QED
    BY <2>3, <2>4, <2>5, <2>6, <2>7 DEF PlanIsTwoDirections, IsNew
<1> QED
  BY <1>1, <1>2, <1>3, <1>4 DEF IsPlan

\* A plan opens up two directions and never one twice: ControllerService.tick,
\* with the options, gates and distinct techniques it goes by.
THEOREM PlanIsTwoDirectionsTheorem == Spec => []PlanIsTwoDirections
<1>1. PlanIsTwoDirections
  BY PlansDirections
<1> QED
  BY <1>1, PTL
-------------------------------------------------------------------------------
(* Repeats.                                                                  *)

\* What makes the profile a function of what the evidence says: the profiler's
\* own fields are there, and the fingerprint is what Probe keeps.
WellFormed(e) ==
  /\ {"source", "asset"} \subseteq DOMAIN e.fields
  /\ e.fields.source \in {"public_http", "internal_http"} =>
       {"path", "rules", "indicators"} \subseteq DOMAIN e.fields
  /\ e.fingerprint = <<Probe(e).rule, Probe(e).fields>>
  /\ e.weight \in {1, 2, 4}

\* The candidate's condition is one of those given, no evidence is of the future, the
\* probes told apart are finitely many, and the saved profile is the one of the evidence.
DetectionInv ==
  /\ candidate \in Conditions
  /\ clock \in Nat
  /\ \A e \in evidence : WellFormed(e) /\ e.ts \in 0 .. clock
  /\ IsFiniteSet({e.fingerprint : e \in evidence})
  /\ profile = RebuildProfile(evidence)

\* A set of natural numbers with a bound has a greatest.
LEMMA MaxOf ==
  ASSUME NEW N \in Nat, NEW S, S \subseteq 0 .. N, S # {}
  PROVE  Max(S) \in S /\ \A y \in S : Max(S) >= y
<1> DEFINE T == {N - x : x \in S}
<1>1. T \subseteq Nat /\ T # {}
  <2>1. \A x \in S : N - x \in Nat
    OBVIOUS
  <2>2. PICK x \in S : TRUE
    OBVIOUS
  <2>3. N - x \in T
    OBVIOUS
  <2> QED
    BY <2>1, <2>3
<1>2. PICK m \in T : \A y \in T : <<y, m>> \notin OpToRel(<, Nat)
  <2> HIDE DEF T
  <2> QED
    BY <1>1, WFMin, NatLessThanWellFounded
<1>3. \A y \in T : ~(y < m)
  BY <1>1, <1>2 DEF OpToRel
<1>4. PICK x \in S : m = N - x
  OBVIOUS
<1>5. \A y \in S : x >= y
  <2> TAKE y \in S
  <2>1. ~(N - y < N - x)
    BY <1>3, <1>4
  <2>2. x \in Nat /\ y \in Nat
    OBVIOUS
  <2> QED
    BY <2>1, <2>2
<1> QED
  BY <1>5 DEF Max

\* All of the evidence that a profile is made of.
Alike(e, d) ==
  /\ e.tech = d.tech /\ e.group = d.group
  /\ e.weight = d.weight /\ e.fingerprint = d.fingerprint
  /\ e.fields.source = d.fields.source /\ e.fields.asset = d.fields.asset
  /\ e.fields.source \in {"public_http", "internal_http"} =>
       /\ e.fields.path = d.fields.path /\ e.fields.rules = d.fields.rules
       /\ e.fields.indicators = d.fields.indicators
AllAlike(A, B) == /\ \A e \in A : \E d \in B : Alike(e, d)
                  /\ \A d \in B : \E e \in A : Alike(e, d)

\* The same probe, twice.
LEMMA ProbesAlike ==
  ASSUME NEW e, NEW d, WellFormed(e), WellFormed(d), Probe(e) = Probe(d)
  PROVE  Alike(e, d)
<1> DEFINE kept(x) == [k \in DOMAIN x.fields \ {"logdata"} |-> x.fields[k]]
<1>1. /\ e.rule = d.rule /\ e.tech = d.tech /\ e.group = d.group /\ e.weight = d.weight
      /\ kept(e) = kept(d)
  BY DEF Probe
<1>2. DOMAIN e.fields \ {"logdata"} = DOMAIN d.fields \ {"logdata"}
  BY <1>1
<1>3. \A k \in DOMAIN e.fields \ {"logdata"} : e.fields[k] = d.fields[k]
  BY <1>1, <1>2
<1>4. e.fields.source = d.fields.source /\ e.fields.asset = d.fields.asset
  BY <1>3 DEF WellFormed
<1>5. e.fields.source \in {"public_http", "internal_http"} =>
        /\ e.fields.path = d.fields.path /\ e.fields.rules = d.fields.rules
        /\ e.fields.indicators = d.fields.indicators
  BY <1>3 DEF WellFormed
<1>6. e.fingerprint = d.fingerprint
  BY DEF WellFormed
<1> QED
  BY <1>1, <1>4, <1>5, <1>6 DEF Alike

\* A score depends on the weights of each fingerprint alone.
LEMMA AlikeScore ==
  ASSUME NEW A, NEW B, AllAlike(A, B)
  PROVE  Score(A) = Score(B)
<1>1. {HalfUnits(e) : e \in A} = {HalfUnits(e) : e \in B}
  BY DEF AllAlike, Alike, HalfUnits
<1> QED
  BY <1>1 DEF Score

LEMMA AlikeSummaries ==
  ASSUME NEW A, NEW B, AllAlike(A, B)
  PROVE  SummarizeTechniques(A) = SummarizeTechniques(B) /\ SummarizeTactics(A) = SummarizeTactics(B)
<1> DEFINE techs(E) == {e.tech : e \in E} \ {NoTechnique}
           groups(E) == {e.group : e \in E} \ {NoTactic}
           ofTech(E, t) == {e \in E : e.tech = t}
           ofGroup(E, g) == {e \in E : e.group = g}
<1>1. techs(A) = techs(B) /\ groups(A) = groups(B)
  BY DEF AllAlike, Alike
<1>2. ASSUME NEW t PROVE Score(ofTech(A, t)) = Score(ofTech(B, t))
  <2>1. AllAlike(ofTech(A, t), ofTech(B, t))
    BY DEF AllAlike, Alike
  <2> QED
    BY <2>1, AlikeScore
<1>3. ASSUME NEW g PROVE Score(ofGroup(A, g)) = Score(ofGroup(B, g))
  <2>1. AllAlike(ofGroup(A, g), ofGroup(B, g))
    BY DEF AllAlike, Alike
  <2> QED
    BY <2>1, AlikeScore
<1> HIDE DEF techs, groups, ofTech, ofGroup
<1>4. [t \in techs(A) |-> Confidence(Score(ofTech(A, t)))]
        = [t \in techs(B) |-> Confidence(Score(ofTech(B, t)))]
  BY <1>1, <1>2
<1>5. [g \in groups(A) |-> Confidence(Score(ofGroup(A, g)))]
        = [g \in groups(B) |-> Confidence(Score(ofGroup(B, g)))]
  BY <1>1, <1>3
<1> QED
  BY <1>4, <1>5 DEF SummarizeTechniques, SummarizeTactics, techs, groups, ofTech, ofGroup

LEMMA AlikeHttp ==
  ASSUME NEW A, NEW B, AllAlike(A, B), NEW source \in {"public_http", "internal_http"}
  PROVE  HttpValues(A, source) = HttpValues(B, source)
<1> DEFINE http(E) == {e.fields : e \in {x \in E : x.fields.source = source}}
<1>1. ASSUME NEW X, NEW Y, AllAlike(X, Y) \/ AllAlike(Y, X), NEW f \in http(X)
      PROVE  \E g \in http(Y) : f.path = g.path /\ f.rules = g.rules /\ f.indicators = g.indicators
  BY <1>1 DEF AllAlike, Alike
<1> HIDE DEF http
<1>2. \A f \in http(A) : \E g \in http(B) :
        f.path = g.path /\ f.rules = g.rules /\ f.indicators = g.indicators
  BY <1>1
<1>3. \A f \in http(B) : \E g \in http(A) :
        f.path = g.path /\ f.rules = g.rules /\ f.indicators = g.indicators
  BY <1>1
<1>4. {f.path : f \in http(A)} = {f.path : f \in http(B)}
  BY <1>2, <1>3
<1>5. UNION {f.rules : f \in http(A)} = UNION {f.rules : f \in http(B)}
  <2>1. {f.rules : f \in http(A)} = {f.rules : f \in http(B)}
    BY <1>2, <1>3
  <2> QED
    BY <2>1
<1>6. UNION {f.indicators : f \in http(A)} = UNION {f.indicators : f \in http(B)}
  <2>1. {f.indicators : f \in http(A)} = {f.indicators : f \in http(B)}
    BY <1>2, <1>3
  <2> QED
    BY <2>1
<1> QED
  BY <1>4, <1>5, <1>6 DEF HttpValues, http

\* The profile is a function of what the recent evidence says.
LEMMA AlikeProfile ==
  ASSUME NEW E, NEW F, AllAlike(RecentEvidences(E), RecentEvidences(F))
  PROVE  RebuildProfile(E) = RebuildProfile(F)
<1> DEFINE A == RecentEvidences(E)
           B == RecentEvidences(F)
<1>1. AllAlike(A, B)
  OBVIOUS
<1> HIDE DEF A, B
<1>2. SummarizeTechniques(A) = SummarizeTechniques(B) /\ SummarizeTactics(A) = SummarizeTactics(B)
  BY <1>1, AlikeSummaries
<1>3. /\ HttpValues(A, "public_http") = HttpValues(B, "public_http")
      /\ HttpValues(A, "internal_http") = HttpValues(B, "internal_http")
  BY <1>1, AlikeHttp
<1>4. SourceRefAssets(A) = SourceRefAssets(B)
  <2>1. {e.fields.asset : e \in A} = {e.fields.asset : e \in B}
    BY <1>1 DEF AllAlike, Alike
  <2> QED
    BY <2>1 DEF SourceRefAssets
<1>5. (A # {}) = (B # {})
  BY <1>1 DEF AllAlike
<1> QED
  BY <1>2, <1>3, <1>4, <1>5 DEF RebuildProfile, A, B

\* What the adapters hand to the profiler.
Reported(event) ==
  /\ event.ts \in 0 .. clock
  /\ {"source", "asset"} \subseteq DOMAIN event.fields
  /\ event.fields.source \in {"public_http", "internal_http"} =>
       {"path", "rules", "indicators"} \subseteq DOMAIN event.fields

\* Of a report, the profiler keeps what its fingerprint is made of.
LEMMA EvidenceOfReport ==
  ASSUME NEW event, Reported(event), NEW e \in MapEvent(event)
  PROVE  WellFormed(e) /\ e.ts \in 0 .. clock
<1> DEFINE prints == FingerprintKeys \cap DOMAIN event.fields
           kept == SourceRefKeys \cap DOMAIN event.fields
<1>1. /\ e.ts = event.ts /\ e.rule = event.rule
      /\ e.fingerprint = <<event.rule, [k \in prints |-> event.fields[k]]>>
      /\ e.fields = [k \in kept |-> event.fields[k]]
  BY DEF MapEvent, ConfidenceFingerprint, BuildSourceRef, Restrict
<1>2. kept \ {"logdata"} = prints
  BY DEF FingerprintKeys, SourceRefKeys
<1>3. /\ Probe(e).rule = e.rule
      /\ Probe(e).fields = [k \in kept \ {"logdata"} |-> e.fields[k]]
  BY <1>1 DEF Probe
<1>4. Probe(e).fields = [k \in prints |-> event.fields[k]]
  BY <1>1, <1>2, <1>3
<1>5. /\ {"source", "asset"} \subseteq DOMAIN e.fields
      /\ e.fields.source = event.fields.source
      /\ e.fields.source \in {"public_http", "internal_http"} =>
           {"path", "rules", "indicators"} \subseteq DOMAIN e.fields
  BY <1>1 DEF Reported, FingerprintKeys, SourceRefKeys
<1>6. e.weight \in {1, 2, 4}
  BY DEF MapEvent, PriorityToWeight
<1> QED
  BY <1>1, <1>3, <1>4, <1>5, <1>6 DEF WellFormed, Reported

\* Every handler hands over reports, those of one call all of one probe.
OneProbe(events) == \E print : \A event \in events : ConfidenceFingerprint(event) = print
Reports ==
  \E events : (\A event \in events : Reported(event)) /\ OneProbe(events) /\ Ingest(events)

LEMMA LateIsPast == clock \in Nat => Late \subseteq 0 .. clock /\ clock \in 0 .. clock
  BY DEF Late

LEMMA CaptureReports ==
  ASSUME NEW surface, NEW asset, NEW request, clock \in Nat,
         CaptureHttpRequest(surface, asset, request)
  PROVE  Reports
<1> DEFINE matches == MatchesFor(<<HttpRule>>, NormalizeHttpFields(request, surface, asset))
           event == [ts |-> clock, rule |-> surface \o " HTTP", priority |-> "low",
                     tags |-> TagsFromRuleMatches(matches),
                     fields |-> [source |-> SourceForSurface(surface), asset |-> asset,
                                 path |-> request.path,
                                 rules |-> {matches[i].rule : i \in DOMAIN matches},
                                 indicators |-> IndicatorsFromRuleMatches(matches)]]
           events == {event : x \in {m \in {matches} : m # <<>>}}
<1>1. Reported(event)
  BY DEF Reported
<1>2. Ingest(events)
  BY DEF CaptureHttpRequest
<1>3. \A e \in events : e = event
  OBVIOUS
<1> HIDE DEF events, event
<1> QED
  BY <1>1, <1>2, <1>3 DEF Reports, OneProbe

LEMMA CanaryReports ==
  ASSUME NEW event, NEW ts \in 0 .. clock, IngestCanary(event, ts)
  PROVE  Reports
<1> DEFINE made == [ts |-> ts, rule |-> "OpenCanary " \o event.service,
                    priority |-> CanaryPriority(event),
                    tags |-> CanaryProfileTags(event), fields |-> CanaryFields(event)]
<1>1. Reported(made)
  BY DEF Reported, CanaryFields
<1>2. Ingest({made})
  BY DEF IngestCanary
<1> QED
  BY <1>1, <1>2 DEF Reports, OneProbe

LEMMA SensorReports ==
  ASSUME NEW event, NEW ts \in 0 .. clock, IngestSensor(event, ts)
  PROVE  Reports
<1> DEFINE made == [ts |-> ts, rule |-> event.source, priority |-> PriorityFor(event),
                    tags |-> TagsFromRuleMatches(SensorMatchesFor(event)),
                    fields |-> [source |-> "high_interaction", asset |-> event.asset,
                                sensor |-> event.source, service |-> event.service,
                                kind |-> event.kind, logdata |-> event.text]]
<1>1. Reported(made)
  BY DEF Reported
<1>2. Ingest({made})
  BY DEF IngestSensor
<1> QED
  BY <1>1, <1>2 DEF Reports, OneProbe

LEMMA ShellReports ==
  ASSUME clock \in Nat, ShellCommand \/ ShellLoginFailed \/ ShellTransfer
  PROVE  Reports
<1>1. CASE ShellCommand
  <2>1. PICK line \in Typed, ts \in Late :
          Ingest({CowrieEvent(ts, "cowrie.command.input", r.confidence, <<Technique(r.technique)>>,
                              [source |-> "cowrie", asset |-> "", input |-> line]) :
                    r \in ToSet(MatchCommand(ReviewedRules, <<ShellRule>>, line))})
    BY <1>1 DEF ShellCommand
  <2> DEFINE made(r) == CowrieEvent(ts, "cowrie.command.input", r.confidence,
                                    <<Technique(r.technique)>>,
                                    [source |-> "cowrie", asset |-> "", input |-> line])
  <2>2. \A r : Reported(made(r))
    BY LateIsPast DEF Reported, CowrieEvent
  <2>4. \A r, q : ConfidenceFingerprint(made(r)) = ConfidenceFingerprint(made(q))
    BY DEF ConfidenceFingerprint, CowrieEvent
  <2> HIDE DEF made
  <2>3. \A event \in {made(r) : r \in ToSet(MatchCommand(ReviewedRules, <<ShellRule>>, line))} :
          Reported(event)
    BY <2>2
  <2>5. OneProbe({made(r) : r \in ToSet(MatchCommand(ReviewedRules, <<ShellRule>>, line))})
    BY <2>4 DEF OneProbe
  <2> QED
    BY <2>1, <2>3, <2>5 DEF Reports, made
<1>2. CASE ShellLoginFailed
  <2>1. PICK ts \in Late :
          Ingest({CowrieEvent(ts, "cowrie.login.failed", "low", CredentialAccess,
                    [source |-> "cowrie", asset |-> "", username |-> TRUE, password |-> TRUE])})
    BY <1>2 DEF ShellLoginFailed
  <2>2. Reported(CowrieEvent(ts, "cowrie.login.failed", "low", CredentialAccess,
                   [source |-> "cowrie", asset |-> "", username |-> TRUE, password |-> TRUE]))
    BY LateIsPast DEF Reported, CowrieEvent
  <2> QED
    BY <2>1, <2>2 DEF Reports, OneProbe
<1>3. CASE ShellTransfer
  <2> DEFINE tags == <<Tactic("command_and_control"), Technique(<<"T1105", "">>)>>
  <2>1. PICK ts \in Late :
          Ingest({CowrieEvent(ts, "cowrie.session.file_download", "medium", tags,
                              [source |-> "cowrie", asset |-> ""])})
    BY <1>3 DEF ShellTransfer
  <2>2. Reported(CowrieEvent(ts, "cowrie.session.file_download", "medium", tags,
                             [source |-> "cowrie", asset |-> ""]))
    BY LateIsPast DEF Reported, CowrieEvent
  <2> QED
    BY <2>1, <2>2 DEF Reports, OneProbe
<1> QED
  BY <1>1, <1>2, <1>3

\* Evidence and profile change by reports only.
LEMMA NextReports ==
  ASSUME clock \in Nat, Next
  PROVE  \/ Reports
         \/ clock' \in {clock, clock + 1} /\ UNCHANGED <<candidate, evidence, profile>>
<1>1. CASE PublicRequest
  BY <1>1, CaptureReports DEF PublicRequest
<1>2. CASE Read
  <2>0. PICK a \in Reachable \cap DOMAIN Messages, ts \in Late :
          \E read \in BoundedSeq(Messages[a], MaxRead) :
            \/ \E event \in ProtocolEvents(a, PortOf[a], read) : IngestCanary(event, ts)
            \/ \E event \in ProbeEvents(a, PortOf[a], read) : IngestSensor(event, ts)
            \/ \E m \in ParsedHttpRequests(PortOf[a], read) :
                 ts = clock /\ CaptureHttpRequest("internal", a, m.request)
    BY <1>2 DEF Read
  <2>1. PICK read :
          \/ \E event \in ProtocolEvents(a, PortOf[a], read) : IngestCanary(event, ts)
          \/ \E event \in ProbeEvents(a, PortOf[a], read) : IngestSensor(event, ts)
          \/ \E m \in ParsedHttpRequests(PortOf[a], read) :
               ts = clock /\ CaptureHttpRequest("internal", a, m.request)
    BY <2>0
  <2>2. ts \in 0 .. clock
    BY LateIsPast
  <2>3. CASE \E event \in ProtocolEvents(a, PortOf[a], read) : IngestCanary(event, ts)
    BY <2>2, <2>3, CanaryReports
  <2>4. CASE \E event \in ProbeEvents(a, PortOf[a], read) : IngestSensor(event, ts)
    BY <2>2, <2>4, SensorReports
  <2>5. CASE \E m \in ParsedHttpRequests(PortOf[a], read) :
               ts = clock /\ CaptureHttpRequest("internal", a, m.request)
    BY <2>5, CaptureReports
  <2> QED
    BY <2>1, <2>3, <2>4, <2>5
<1>3. CASE CanaryLog
  BY <1>3, LateIsPast, CanaryReports DEF CanaryLog
<1>4. CASE SensorLog
  BY <1>4, LateIsPast, SensorReports DEF SensorLog
<1>5. CASE ShellCommand \/ ShellLoginFailed \/ ShellTransfer
  BY <1>5, ShellReports
<1>6. CASE Passes
  BY <1>6 DEF Passes
<1>7. CASE Reveal
  BY <1>7 DEF Reveal
<1> QED
  BY <1>1, <1>2, <1>3, <1>4, <1>5, <1>6, <1>7 DEF Next

LEMMA ReportsKeep ==
  ASSUME DetectionInv, Reports
  PROVE  DetectionInv' /\ evidence \subseteq evidence'
<1>1. PICK events : (\A event \in events : Reported(event)) /\ OneProbe(events) /\ Ingest(events)
  BY DEF Reports
<1>2. /\ evidence' = evidence \cup UNION {MapEvent(e) : e \in events}
      /\ profile' = RebuildProfile(evidence') /\ clock' = clock /\ candidate' = candidate
  BY <1>1 DEF Ingest
<1>3. \A e \in evidence' : WellFormed(e) /\ e.ts \in 0 .. clock
  BY <1>1, <1>2, EvidenceOfReport DEF DetectionInv
<1>4. IsFiniteSet({e.fingerprint : e \in evidence'})
  <2> DEFINE prints == {e.fingerprint : e \in evidence}
             prints2 == {e.fingerprint : e \in evidence'}
  <2>1. PICK print : \A event \in events : ConfidenceFingerprint(event) = print
    BY <1>1 DEF OneProbe
  <2>2. \A event \in events : \A e \in MapEvent(event) : e.fingerprint = print
    BY <2>1 DEF MapEvent
  <2>3. prints2 \subseteq prints \cup {print}
    BY <1>2, <2>2
  <2>4. IsFiniteSet(prints)
    BY DEF DetectionInv
  <2> HIDE DEF prints, prints2
  <2>5. IsFiniteSet(prints \cup {print})
    BY <2>4, FS_AddElement
  <2>6. IsFiniteSet(prints2)
    BY <2>3, <2>5, FS_Subset
  <2> QED
    BY <2>6 DEF prints2
<1> QED
  BY <1>2, <1>3, <1>4 DEF DetectionInv, WellFormed, Probe

\* Whatever the adapters report, evidence is well-formed and not of the future,
\* and the profile on file is the one of the evidence (ProfilerService.ingest).
THEOREM DetectionInvariant == Spec => []DetectionInv
<1>1. Init => DetectionInv
  <2> SUFFICES ASSUME Init PROVE DetectionInv
    OBVIOUS
  <2>1. evidence = {} /\ {e.fingerprint : e \in evidence} = {}
    BY DEF Init
  <2> QED
    BY <2>1, FS_EmptySet DEF Init, DetectionInv
<1>2. DetectionInv /\ [Next]_vars => DetectionInv'
  <2> SUFFICES ASSUME DetectionInv, [Next]_vars PROVE DetectionInv'
    OBVIOUS
  <2>1. CASE Reports
    BY <2>1, ReportsKeep
  <2>2. CASE clock' \in {clock, clock + 1} /\ UNCHANGED <<candidate, evidence, profile>>
    <3>1. clock' \in Nat /\ 0 .. clock \subseteq 0 .. clock'
      BY <2>2 DEF DetectionInv
    <3> QED
      BY <3>1, <2>2 DEF DetectionInv, WellFormed, Probe
  <2>3. CASE UNCHANGED vars
    BY <2>3 DEF vars, DetectionInv, WellFormed, Probe
  <2> QED
    BY <2>1, <2>2, <2>3, NextReports DEF DetectionInv
<1> QED
  BY <1>1, <1>2, PTL DEF Spec

\* What has left the window does not come back.
LEMMA WindowMovesOn ==
  ASSUME NEW N \in Nat, NEW E, NEW F, E \subseteq F, \A e \in F : e.ts \in 0 .. N,
         NEW e \in E, e \notin RecentEvidences(E)
  PROVE  e \notin RecentEvidences(F)
<1> DEFINE times(X) == {x.ts : x \in X}
<1>1. /\ times(E) \subseteq 0 .. N /\ times(F) \subseteq 0 .. N
      /\ times(E) \subseteq times(F) /\ e.ts \in times(E)
  OBVIOUS
<1> HIDE DEF times
<1>2. /\ Max(times(E)) \in times(E)
      /\ Max(times(F)) \in times(F) /\ \A t \in times(F) : Max(times(F)) >= t
  BY <1>1, MaxOf
<1>3. Max(times(F)) >= Max(times(E))
  BY <1>1, <1>2
<1>4. ~(e.ts + ChainWindow >= Max(times(E)))
  BY DEF RecentEvidences, times
<1>5. ~(e.ts + ChainWindow >= Max(times(F)))
  BY <1>1, <1>2, <1>3, <1>4, ProfileAssumption
<1> QED
  BY <1>5 DEF RecentEvidences, times

\* With no new probe, the windows before and after hold the same probes.
LEMMA RepeatsAdd ==
  ASSUME DetectionInv, DetectionInv', evidence \subseteq evidence'
  PROVE  RepeatsAddNothing
<1> DEFINE recent == RecentEvidences(evidence)
           next == RecentEvidences(evidence')
<1> SUFFICES ASSUME {Probe(e) : e \in evidence' \ evidence} \subseteq {Probe(e) : e \in recent},
                    recent \subseteq next
             PROVE  profile' = profile
  BY DEF RepeatsAddNothing
<1>1. recent \subseteq evidence /\ next \subseteq evidence'
  BY DEF RecentEvidences
<1>2. /\ clock' \in Nat
      /\ \A e \in evidence' : WellFormed(e) /\ e.ts \in 0 .. clock'
  BY DEF DetectionInv, WellFormed, Probe
<1>3. ASSUME NEW e \in next PROVE \E d \in recent : Probe(e) = Probe(d)
  <2>1. CASE e \in evidence
    <3>1. e \in recent
      BY <1>2, <1>3, <2>1, WindowMovesOn
    <3> QED
      BY <3>1
  <2>2. CASE e \notin evidence
    <3>1. e \in evidence' \ evidence
      BY <1>1, <1>3, <2>2
    <3>2. Probe(e) \in {Probe(x) : x \in evidence' \ evidence}
      BY <3>1
    <3> QED
      BY <3>2
  <2> QED
    BY <2>1, <2>2
<1> HIDE DEF recent, next
<1>4. \A e \in next : WellFormed(e)
  BY <1>1, <1>2
<1>5. \A e \in recent : \E d \in next : Alike(e, d)
  BY <1>4, ProbesAlike
<1>6. \A e \in next : \E d \in recent : Alike(d, e)
  BY <1>3, <1>4, ProbesAlike
<1>7. RebuildProfile(evidence) = RebuildProfile(evidence')
  BY <1>5, <1>6, AlikeProfile DEF AllAlike, recent, next
<1> QED
  BY <1>7 DEF DetectionInv

\* A repeat within the window, whatever it carried and however often it comes,
\* leaves the profile as it is (confidence_fingerprint, _summarize_dimension).
THEOREM RepeatsChangeNothingTheorem == Spec => RepeatsChangeNothing
<1>1. DetectionInv /\ DetectionInv' /\ [Next]_vars => [RepeatsAddNothing]_evidence
  <2> SUFFICES ASSUME DetectionInv, DetectionInv', [Next]_vars, evidence' # evidence
               PROVE  RepeatsAddNothing
    OBVIOUS
  <2>1. Reports
    BY NextReports DEF DetectionInv, vars
  <2> QED
    BY <2>1, ReportsKeep, RepeatsAdd
<1> QED
  BY <1>1, DetectionInvariant, PTL DEF Spec, RepeatsChangeNothing

-------------------------------------------------------------------------------
(* Confidence.                                                               *)

\* More evidence is no smaller a score: the half units are more.
LEMMA ScoreGrows ==
  ASSUME NEW E, NEW F, E \subseteq F, NEW prints, IsFiniteSet(prints),
         \A e \in F : e.fingerprint \in prints /\ e.weight \in {1, 2, 4}
  PROVE  Score(E) \in Nat /\ Score(F) \in Nat /\ Score(E) <= Score(F)
<1> DEFINE units(X) == UNION {HalfUnits(e) : e \in X}
<1>1. units(E) \subseteq units(F)
  OBVIOUS
<1>2. units(F) \subseteq prints \X (1 .. 4)
  <2>1. ASSUME NEW e \in F PROVE HalfUnits(e) \subseteq prints \X (1 .. 4)
    <3>1. e.fingerprint \in prints /\ 1 .. e.weight \subseteq 1 .. 4
      OBVIOUS
    <3> QED
      BY <3>1 DEF HalfUnits
  <2> QED
    BY <2>1
<1>3. IsFiniteSet(1 .. 4)
  <2>1. \A a, b \in Int : IsFiniteSet(a .. b)
    BY FS_Interval
  <2>2. 1 \in Int /\ 4 \in Int
    OBVIOUS
  <2> QED
    BY <2>1, <2>2, Zenon
<1>4. Score(E) = Cardinality(units(E)) /\ Score(F) = Cardinality(units(F))
  BY DEF Score
<1> HIDE DEF units
<1>5. IsFiniteSet(prints \X (1 .. 4))
  BY <1>3, FS_Product
<1>6. IsFiniteSet(units(F))
  BY <1>2, <1>5, FS_Subset
<1>7. IsFiniteSet(units(E)) /\ Cardinality(units(E)) <= Cardinality(units(F))
  BY <1>1, <1>6, FS_Subset
<1> QED
  BY <1>4, <1>6, <1>7, FS_CardinalityType

\* And no smaller a confidence.
LEMMA ConfidenceGrows ==
  ASSUME NEW m \in Nat, NEW n \in Nat, m <= n
  PROVE  Confidence(n) >= Confidence(m)
<1> DEFINE gap(k) == Gap[IF k > MaxScore THEN MaxScore ELSE k]
<1>1. MaxScore = 12
  BY DEF MaxScore, Gap
<1>2. /\ Gap[1] = 607 /\ Gap[2] = 368 /\ Gap[3] = 223 /\ Gap[4] = 135 /\ Gap[5] = 82
      /\ Gap[6] = 50 /\ Gap[7] = 30 /\ Gap[8] = 18 /\ Gap[9] = 11 /\ Gap[10] = 7
      /\ Gap[11] = 4 /\ Gap[12] = 2
  BY DEF Gap
<1>3. /\ \A i \in 1 .. 12 : Gap[i] \in 2 .. 607
      /\ \A i, j \in 1 .. 12 : i <= j => Gap[i] >= Gap[j]
  BY <1>2
<1>4. \A k \in Nat \ {0} : (IF k > MaxScore THEN MaxScore ELSE k) \in 1 .. 12
  BY <1>1
<1>5. CASE m = 0 /\ n = 0
  BY <1>5 DEF Confidence
<1>6. CASE m = 0 /\ n # 0
  <2>1. Confidence(m) = 0 /\ Confidence(n) = 1000 - gap(n)
    BY <1>6 DEF Confidence
  <2>2. gap(n) \in 2 .. 607
    <3> DEFINE high == IF n > MaxScore THEN MaxScore ELSE n
    <3>1. high \in 1 .. 12
      BY <1>4, <1>6
    <3> HIDE DEF high
    <3>2. Gap[high] \in 2 .. 607
      BY <1>3, <3>1, Zenon
    <3> QED
      BY <3>2 DEF high
  <2> HIDE DEF gap
  <2> QED
    BY <2>1, <2>2
<1>7. CASE m # 0
  <2>1. Confidence(m) = 1000 - gap(m) /\ Confidence(n) = 1000 - gap(n)
    BY <1>7 DEF Confidence
  <2>2. gap(m) \in 2 .. 607 /\ gap(n) \in 2 .. 607 /\ gap(m) >= gap(n)
    <3> DEFINE low == IF m > MaxScore THEN MaxScore ELSE m
               high == IF n > MaxScore THEN MaxScore ELSE n
    <3>1. low \in 1 .. 12 /\ high \in 1 .. 12 /\ low <= high
      BY <1>1, <1>7
    <3> HIDE DEF low, high
    <3>2. Gap[low] \in 2 .. 607 /\ Gap[high] \in 2 .. 607 /\ Gap[low] >= Gap[high]
      BY <1>3, <3>1, Zenon
    <3> QED
      BY <3>2 DEF low, high
  <2>3. gap(m) \in Int /\ gap(n) \in Int
    BY <2>2
  <2> HIDE DEF gap
  <2> QED
    BY <2>1, <2>2, <2>3
<1> QED
  BY <1>5, <1>6, <1>7

\* What is recent stays so until something newer comes.
LEMMA RecentStays ==
  ASSUME NEW N \in Nat, NEW E, NEW F, E \subseteq F, \A e \in F : e.ts \in 0 .. N,
         Latest(E) = Latest(F)
  PROVE  RecentEvidences(E) \subseteq RecentEvidences(F)
<1> DEFINE times(X) == {x.ts : x \in X}
           all(X) == {0} \cup times(X)
<1>1. SUFFICES ASSUME E # {} PROVE RecentEvidences(E) \subseteq RecentEvidences(F)
  BY DEF RecentEvidences
<1>2. /\ times(E) \subseteq 0 .. N /\ times(E) # {} /\ all(E) \subseteq 0 .. N /\ all(E) # {}
      /\ times(F) \subseteq 0 .. N /\ times(F) # {} /\ all(F) \subseteq 0 .. N /\ all(F) # {}
  BY <1>1
<1>3. /\ times(E) \subseteq all(E) /\ times(F) \subseteq all(F)
      /\ all(E) \subseteq times(E) \cup {0} /\ all(F) \subseteq times(F) \cup {0}
  OBVIOUS
<1>4. Max(all(E)) = Max(all(F))
  BY DEF Latest
<1> HIDE DEF times, all
<1>5. ASSUME NEW T, NEW A, T \subseteq 0 .. N, T # {}, A = T \cup {0} PROVE Max(A) = Max(T)
  <2>1. A \subseteq 0 .. N /\ A # {}
    BY <1>5
  <2>2. Max(T) \in T /\ \A y \in T : Max(T) >= y
    BY <1>5, MaxOf
  <2>3. Max(A) \in A /\ \A y \in A : Max(A) >= y
    BY <2>1, MaxOf
  <2>4. Max(T) \in 0 .. N /\ Max(A) \in 0 .. N
    BY <1>5, <2>1, <2>2, <2>3
  <2>5. Max(A) >= Max(T)
    BY <1>5, <2>2, <2>3
  <2>6. Max(T) >= Max(A)
    <3>1. CASE Max(A) \in T
      BY <2>2, <3>1
    <3>2. CASE Max(A) = 0
      BY <2>4, <3>2
    <3> QED
      BY <1>5, <2>3, <3>1, <3>2
  <2> QED
    BY <2>4, <2>5, <2>6
<1>6. all(E) = times(E) \cup {0} /\ all(F) = times(F) \cup {0}
  BY DEF all
<1>7. Max(times(E)) = Max(times(F))
  BY <1>2, <1>4, <1>5, <1>6
<1> QED
  BY <1>1, <1>7 DEF RecentEvidences, times

\* A step that reports adds to the evidence of every technique and tactic.
LEMMA ReportsAdd ==
  ASSUME DetectionInv, DetectionInv', evidence \subseteq evidence'
  PROVE  NothingFades
<1> DEFINE recent == RecentEvidences(evidence)
           next == RecentEvidences(evidence')
<1> SUFFICES ASSUME Latest(evidence) = Latest(evidence') PROVE
                    /\ \A t \in DOMAIN profile.confByTechnique :
                         profile'.confByTechnique[t] >= profile.confByTechnique[t]
                    /\ \A g \in DOMAIN profile.confByTactic :
                         profile'.confByTactic[g] >= profile.confByTactic[g]
  BY DEF NothingFades
<1>1. /\ clock' \in Nat /\ IsFiniteSet({e.fingerprint : e \in evidence'})
      /\ \A e \in evidence' : e.ts \in 0 .. clock' /\ e.weight \in {1, 2, 4}
  BY DEF DetectionInv, WellFormed, Probe
<1>2. recent \subseteq next /\ next \subseteq evidence'
  BY <1>1, RecentStays DEF RecentEvidences
<1>3. /\ profile.confByTechnique = SummarizeTechniques(recent)
      /\ profile.confByTactic = SummarizeTactics(recent)
      /\ profile'.confByTechnique = SummarizeTechniques(next)
      /\ profile'.confByTactic = SummarizeTactics(next)
  BY DEF DetectionInv, RebuildProfile
<1> HIDE DEF recent, next
<1>4. ASSUME NEW X, NEW Y, X \subseteq Y, Y \subseteq next
      PROVE  Confidence(Score(Y)) >= Confidence(Score(X))
  <2> DEFINE prints == {e.fingerprint : e \in evidence'}
  <2>1. IsFiniteSet(prints)
    BY <1>1
  <2>2. \A e \in Y : e.fingerprint \in prints /\ e.weight \in {1, 2, 4}
    BY <1>1, <1>2, <1>4
  <2> HIDE DEF prints
  <2>4. Score(X) \in Nat /\ Score(Y) \in Nat /\ Score(X) <= Score(Y)
    BY <1>4, <2>1, <2>2, ScoreGrows
  <2> QED
    BY <2>4, ConfidenceGrows
<1>5. ASSUME NEW t \in DOMAIN SummarizeTechniques(recent)
      PROVE  SummarizeTechniques(next)[t] >= SummarizeTechniques(recent)[t]
  <2> DEFINE of(E) == {e \in E : e.tech = t}
  <2>1. of(recent) \subseteq of(next) /\ of(next) \subseteq next
    BY <1>2
  <2>2. /\ SummarizeTechniques(recent)[t] = Confidence(Score(of(recent)))
        /\ SummarizeTechniques(next)[t] = Confidence(Score(of(next)))
    BY <1>2, <1>5 DEF SummarizeTechniques
  <2> HIDE DEF of
  <2> QED
    BY <2>1, <2>2, <1>4
<1>6. ASSUME NEW g \in DOMAIN SummarizeTactics(recent)
      PROVE  SummarizeTactics(next)[g] >= SummarizeTactics(recent)[g]
  <2> DEFINE of(E) == {e \in E : e.group = g}
  <2>1. of(recent) \subseteq of(next) /\ of(next) \subseteq next
    BY <1>2
  <2>2. /\ SummarizeTactics(recent)[g] = Confidence(Score(of(recent)))
        /\ SummarizeTactics(next)[g] = Confidence(Score(of(next)))
    BY <1>2, <1>6 DEF SummarizeTactics
  <2> HIDE DEF of
  <2> QED
    BY <2>1, <2>2, <1>4
<1> QED
  BY <1>3, <1>5, <1>6

\* No confidence falls but for the time that passes: evidence that comes late, in
\* whatever order, adds to what is recent (_recent_evidences, _summarize_dimension).
THEOREM ConfidenceOnlyFadesTheorem == Spec => ConfidenceOnlyFades
<1>1. DetectionInv /\ DetectionInv' /\ [Next]_vars => [NothingFades]_evidence
  <2> SUFFICES ASSUME DetectionInv, DetectionInv', [Next]_vars, evidence' # evidence
               PROVE  NothingFades
    OBVIOUS
  <2>1. Reports
    BY NextReports DEF DetectionInv, vars
  <2> QED
    BY <2>1, ReportsKeep, ReportsAdd
<1> QED
  BY <1>1, DetectionInvariant, PTL DEF Spec, ConfidenceOnlyFades

-------------------------------------------------------------------------------
(* Reads.                                                                    *)

\* The verbs of a read, whatever their order.
Said(read) == {read[i].verb : i \in DOMAIN read}
IsRead(read) == \E m \in Nat : DOMAIN read = 1 .. m

LEMMA NothingIsEmpty == ASSUME NEW s, IsSeq(s) PROVE s = <<>> <=> ToSet(s) = {}
<1>1. Len(s) \in Nat /\ DOMAIN s = 1 .. Len(s) /\ s \in Seq(ToSet(s))
  BY DEF IsSeq
<1>2. CASE s = <<>>
  BY <1>2, FewAre
<1>3. CASE s # <<>>
  <2>1. 1 \in DOMAIN s
    BY <1>1, <1>3
  <2> QED
    BY <2>1, <1>3 DEF ToSet
<1> QED
  BY <1>2, <1>3

LEMMA FirstIs == ASSUME NEW s, IsSeq(s), s # <<>> PROVE 1 \in DOMAIN s /\ s[1] \in ToSet(s)
<1>1. Len(s) \in Nat /\ DOMAIN s = 1 .. Len(s) /\ s \in Seq(ToSet(s))
  BY DEF IsSeq
<1>2. 1 \in DOMAIN s
  BY <1>1
<1> QED
  BY <1>2 DEF ToSet

LEMMA LinesAre ==
  ASSUME NEW read, IsRead(read), NEW verbs
  PROVE  IsSeq(ParseLines(read, verbs)) /\ ToSet(ParseLines(read, verbs)) = Said(read) \cap verbs
<1> DEFINE P == {i \in DOMAIN read : read[i].verb \in verbs}
           V == Verbs(read)
<1>1. PICK m \in Nat : DOMAIN read = 1 .. m
  BY DEF IsRead
<1>2. P \subseteq 1 .. m /\ Spoken(read, verbs) = Picked(V, P)
  BY <1>1 DEF Spoken
<1>3. \A i \in P : V[i] = read[i].verb
  BY DEF Verbs
<1>4. {V[i] : i \in P} = Said(read) \cap verbs
  BY <1>3 DEF Said
<1> HIDE DEF P, V
<1>5. IsSeq(Spoken(read, verbs)) /\ ToSet(Spoken(read, verbs)) = Said(read) \cap verbs
  BY <1>1, <1>2, <1>4, PickedIs
<1> QED
  BY <1>5, DedupeIs DEF ParseLines

LEMMA WordsAre ==
  ASSUME NEW read, IsRead(read)
  PROVE  IsSeq(Words(read)) /\ ToSet(Words(read)) = Said(read) \ {""}
<1> DEFINE P == {i \in DOMAIN read : read[i].verb # ""}
           V == Verbs(read)
<1>1. PICK m \in Nat : DOMAIN read = 1 .. m
  BY DEF IsRead
<1>2. P \subseteq 1 .. m /\ Words(read) = Picked(V, P)
  BY <1>1 DEF Words
<1>3. \A i \in P : V[i] = read[i].verb
  BY DEF Verbs
<1>4. {V[i] : i \in P} = Said(read) \ {""}
  BY <1>3 DEF Said
<1> HIDE DEF P, V
<1> QED
  BY <1>1, <1>2, <1>4, PickedIs

LEMMA SqlVerbsAre ==
  ASSUME NEW read, IsRead(read)
  PROVE  /\ IsSeq(SqlVerbs(read))
         /\ ToSet(SqlVerbs(read)) =
              {read[i].verb : i \in {j \in DOMAIN read : /\ read[j].packet = "text"
                                                         /\ read[j].verb \in SqlCommands}}
<1> DEFINE P == {i \in DOMAIN read : read[i].packet = "text" /\ read[i].verb \in SqlCommands}
           V == Verbs(read)
<1>1. PICK m \in Nat : DOMAIN read = 1 .. m
  BY DEF IsRead
<1>2. P \subseteq 1 .. m /\ SqlVerbs(read) = DedupePreserve(Picked(V, P))
  BY <1>1 DEF SqlVerbs
<1>3. \A i \in P : V[i] = read[i].verb
  BY DEF Verbs
<1>4. {V[i] : i \in P} = {read[i].verb : i \in P}
  BY <1>3
<1> HIDE DEF V
<1>5. IsSeq(Picked(V, P)) /\ ToSet(Picked(V, P)) = {read[i].verb : i \in P}
  <2> HIDE DEF P
  <2> QED
    BY <1>1, <1>2, <1>4, PickedIs
<1> QED
  BY <1>2, <1>5, DedupeIs

LEMMA PartsAreReads ==
  ASSUME NEW x
  PROVE  /\ IsRead(<<x>>) /\ Said(<<x>>) = {x.verb}
         /\ DOMAIN <<x>> = {1} /\ <<x>>[1] = x /\ <<x>> # <<>>
<1>1. DOMAIN <<x>> = 1 .. 1 /\ <<x>>[1] = x /\ <<x>> # <<>>
  OBVIOUS
<1>2. 1 .. 1 = {1}
  OBVIOUS
<1> QED
  BY <1>1, <1>2 DEF IsRead, Said

LEMMA CommandsAre ==
  ASSUME NEW e, IsSeq(e.commands)
  PROVE  /\ IsSeq(CommandsFromLogdata(e))
         /\ ToSet(CommandsFromLogdata(e)) =
              ToSet(e.commands) \cup (IF e.command = "" THEN {} ELSE {e.command})
<1> DEFINE last == IF e.command = "" THEN <<>> ELSE <<e.command>>
<1>1. IsSeq(last) /\ ToSet(last) = IF e.command = "" THEN {} ELSE {e.command}
  BY FewAre
<1> HIDE DEF last
<1>2. IsSeq(e.commands \o last) /\ ToSet(e.commands \o last) = ToSet(e.commands) \cup ToSet(last)
  BY <1>1, ConcatIs
<1>3. CommandsFromLogdata(e) = DedupePreserve(e.commands \o last)
  BY DEF CommandsFromLogdata, last
<1> QED
  BY <1>1, <1>2, <1>3, DedupeIs

LEMMA PairsAre ==
  /\ IsSeq(Discovery) /\ IsSeq(CredentialAccess) /\ IsSeq(LateralMovement)
  /\ ToSet(Discovery) # {} /\ ToSet(CredentialAccess) # {} /\ ToSet(LateralMovement) # {}
<1>1. \A x, y : IsSeq(<<x, y>>) /\ ToSet(<<x, y>>) # {}
  <2> TAKE x, y
  <2>1. IsSeq(<<x, y>>) /\ ToSet(<<x, y>>) = {x, y}
    BY FewAre
  <2>2. {x, y} # {}
    OBVIOUS
  <2> QED
    BY <2>1, <2>2
<1> QED
  BY <1>1 DEF Discovery, CredentialAccess, LateralMovement

\* The event of a read.
Observed(asset, service, commands) ==
  [service |-> service, asset |-> asset, commands |-> commands,
   command |-> IF service \in {"smtp", "ftp"} \/ commands = <<>> THEN "" ELSE commands[1],
   username |-> UsernameSeen(service, commands), password |-> PasswordSeen(service, commands),
   login |-> FALSE]

LEMMA EventsAre ==
  ASSUME NEW a, NEW port, NEW read, NEW service, ObservedService(a, port) = service
  PROVE  ProtocolEvents(a, port, read) =
           IF \/ read = <<>> \/ service \in {"dionaea", "honeytrap", "none"}
              \/ service \in {"smtp", "ftp", "git"} /\ ParsedCommands(service, read) = <<>>
             THEN {} ELSE {Observed(a, service, ParsedCommands(service, read))}
  BY DEF ProtocolEvents, Observed

\* All that its tags, verbs and priority say.
TagsOf(events) == UNION {ToSet(CanaryProfileTags(e)) : e \in events}
VerbsOf(events) == UNION {ToSet(e.commands) : e \in events}
LoginIn(events) == \E e \in events : CanaryPriority(e) = "medium"

\* FTP: what the verbs say, each on its own.
FtpExfilTags == <<Tactic("exfiltration"), Technique(<<"T1567", "002">>)>>
FtpCollectionTags == <<Tactic("collection"), Technique(<<"T1039", "">>)>>
FtpLogin(V) == V \cap {"USER", "PASS"} # {}
FtpSays(V) ==
  (IF FtpLogin(V) THEN ToSet(CredentialAccess) \cup ToSet(LateralMovement) ELSE {}) \cup
  (IF V \cap FtpExfilCommands # {} THEN ToSet(FtpExfilTags)
   ELSE IF V \cap FtpCollectionCommands # {} THEN ToSet(FtpCollectionTags)
   ELSE IF ~FtpLogin(V) \/ V \cap FtpDiscoveryCommands # {} THEN ToSet(Discovery)
   ELSE {})

LEMMA FtpTagsAre ==
  ASSUME NEW e, NEW V, ToSet(CommandsFromLogdata(e)) = V, FtpCredentials(e) = FtpLogin(V)
  PROVE  IsSeq(FtpTags(e)) /\ ToSet(FtpTags(e)) = FtpSays(V)
<1> DEFINE login == IF FtpCredentials(e) THEN CredentialAccess \o LateralMovement ELSE <<>>
           rest == IF HasAnyCommand(e, FtpExfilCommands) THEN FtpExfilTags
                   ELSE IF HasAnyCommand(e, FtpCollectionCommands) THEN FtpCollectionTags
                   ELSE IF login = <<>> \/ HasAnyCommand(e, FtpDiscoveryCommands) THEN Discovery
                   ELSE <<>>
<1>1. FtpTags(e) = login \o rest
  BY DEF FtpTags, FtpExfilTags, FtpCollectionTags
<1>2. /\ IsSeq(login) /\ (login = <<>> <=> ~FtpLogin(V))
      /\ ToSet(login) = IF FtpLogin(V) THEN ToSet(CredentialAccess) \cup ToSet(LateralMovement) ELSE {}
  <2>1. /\ IsSeq(CredentialAccess \o LateralMovement)
        /\ ToSet(CredentialAccess \o LateralMovement) = ToSet(CredentialAccess) \cup ToSet(LateralMovement)
    BY PairsAre, ConcatIs
  <2>2. CredentialAccess \o LateralMovement # <<>>
    BY <2>1, PairsAre, NothingIsEmpty
  <2> QED
    BY <2>1, <2>2, FewAre
<1>3. IsSeq(FtpExfilTags) /\ IsSeq(FtpCollectionTags) /\ IsSeq(Discovery) /\ IsSeq(<<>>) /\ ToSet(<<>>) = {}
  BY FewAre DEF FtpExfilTags, FtpCollectionTags, Discovery
<1> HIDE DEF login
<1>4. IsSeq(rest) /\ ToSet(rest) =
        IF V \cap FtpExfilCommands # {} THEN ToSet(FtpExfilTags)
        ELSE IF V \cap FtpCollectionCommands # {} THEN ToSet(FtpCollectionTags)
        ELSE IF ~FtpLogin(V) \/ V \cap FtpDiscoveryCommands # {} THEN ToSet(Discovery)
        ELSE {}
  BY <1>2, <1>3 DEF HasAnyCommand
<1> HIDE DEF rest
<1>5. IsSeq(FtpTags(e)) /\ ToSet(FtpTags(e)) = ToSet(login) \cup ToSet(rest)
  BY <1>1, <1>2, <1>4, ConcatIs
<1> QED
  BY <1>2, <1>4, <1>5 DEF FtpSays

LEMMA ContainsIs == ASSUME NEW s, IsSeq(s), NEW x PROVE Contains(s, x) <=> x \in ToSet(s)
<1>1. DOMAIN s = 1 .. Len(s)
  BY DEF IsSeq
<1> QED
  BY <1>1 DEF Contains, ToSet

LEMMA FtpReads ==
  ASSUME NEW a, NEW port, ObservedService(a, port) = "ftp", NEW read, IsRead(read)
  PROVE  LET V == Said(read) \cap FtpCommands
             events == ProtocolEvents(a, port, read)
         IN  /\ TagsOf(events) = IF V = {} THEN {} ELSE FtpSays(V)
             /\ VerbsOf(events) = V
             /\ LoginIn(events) = FtpLogin(V)
<1> DEFINE V == Said(read) \cap FtpCommands
           commands == ParseFtpCommands(read)
           e == Observed(a, "ftp", commands)
           events == ProtocolEvents(a, port, read)
<1>1. ParsedCommands("ftp", read) = commands
  BY DEF ParsedCommands
<1>2. IsSeq(commands) /\ ToSet(commands) = V /\ (commands = <<>> <=> V = {})
  BY LinesAre, NothingIsEmpty DEF ParseFtpCommands
<1>3. read = <<>> => V = {}
  BY DEF Said
<1>4. events = IF V = {} THEN {} ELSE {e}
  <2>1. "ftp" \notin {"dionaea", "honeytrap", "none"} /\ "ftp" \in {"smtp", "ftp", "git"}
    OBVIOUS
  <2>2. events = IF \/ read = <<>> \/ "ftp" \in {"dionaea", "honeytrap", "none"}
                    \/ "ftp" \in {"smtp", "ftp", "git"} /\ ParsedCommands("ftp", read) = <<>>
                   THEN {} ELSE {Observed(a, "ftp", ParsedCommands("ftp", read))}
    BY EventsAre
  <2> HIDE DEF commands, events
  <2> QED
    BY <1>1, <1>2, <1>3, <2>1, <2>2
<1>5. /\ e.service = "ftp" /\ e.commands = commands /\ e.command = "" /\ ~e.login
      /\ e.username = UsernameSeen("ftp", commands) /\ e.password = PasswordSeen("ftp", commands)
  <2> HIDE DEF commands
  <2> QED
    BY DEF Observed
<1>15. /\ e.username <=> "USER" \in V
       /\ e.password <=> "PASS" \in V
  <2> HIDE DEF commands, e
  <2> QED
    BY <1>2, <1>5, ContainsIs DEF UsernameSeen, PasswordSeen
<1> HIDE DEF commands, e, events
<1>6. ToSet(CommandsFromLogdata(e)) = V
  <2>1. IsSeq(e.commands) /\ ToSet(e.commands) = V
    BY <1>2, <1>5
  <2> QED
    BY <1>5, <2>1, CommandsAre
<1>7. FtpCredentials(e) = FtpLogin(V)
  BY <1>15 DEF FtpCredentials, FtpLogin
<1>8. IsSeq(FtpTags(e)) /\ ToSet(FtpTags(e)) = FtpSays(V)
  BY <1>6, <1>7, FtpTagsAre
<1>9. CanaryProfileTags(e) = DedupePreserve(FtpTags(e))
  BY <1>5 DEF CanaryProfileTags
<1>10. ToSet(CanaryProfileTags(e)) = FtpSays(V)
  BY <1>8, <1>9, DedupeIs
<1>11. CanaryPriority(e) = "medium" <=> FtpLogin(V)
  BY <1>5, <1>15 DEF CanaryPriority, IsLoginProbe, FtpLogin
<1>12. TagsOf(events) = IF V = {} THEN {} ELSE FtpSays(V)
  <2>1. CASE V = {}
    BY <1>4, <2>1 DEF TagsOf
  <2>2. CASE V # {}
    BY <1>4, <1>10, <2>2 DEF TagsOf
  <2> QED
    BY <2>1, <2>2
<1>13. VerbsOf(events) = V
  BY <1>4, <1>5, <1>2 DEF VerbsOf
<1>14. LoginIn(events) = FtpLogin(V)
  BY <1>4, <1>11 DEF LoginIn, FtpLogin
<1> QED
  BY <1>12, <1>13, <1>14 DEF events

\* SMTP: the same way.
SmtpAccountTags == <<Tactic("discovery"), Technique(<<"T1087", "003">>)>>
SmtpLogin(V) == V \cap SmtpCredentialCommands # {}
SmtpSays(V) ==
  (IF SmtpLogin(V) THEN ToSet(CredentialAccess) ELSE {}) \cup
  (IF V \cap SmtpAccountDiscoveryCommands # {} THEN ToSet(SmtpAccountTags)
   ELSE IF ~SmtpLogin(V) /\ V \cap SmtpDiscoveryCommands # {} THEN ToSet(Discovery)
   ELSE {})

LEMMA SmtpTagsAre ==
  ASSUME NEW e, NEW V, IsSeq(CommandsFromLogdata(e)), ToSet(CommandsFromLogdata(e)) = V, V # {}
  PROVE  IsSeq(SmtpTags(e)) /\ ToSet(SmtpTags(e)) = SmtpSays(V)
<1> DEFINE auth == IF HasAnyCommand(e, SmtpCredentialCommands) THEN CredentialAccess ELSE <<>>
           rest == CASE HasAnyCommand(e, SmtpAccountDiscoveryCommands) -> SmtpAccountTags
                     [] /\ ~HasAnyCommand(e, SmtpAccountDiscoveryCommands) /\ auth = <<>>
                        /\ \/ CommandsFromLogdata(e) = <<>>
                           \/ HasAnyCommand(e, SmtpDiscoveryCommands) -> Discovery
                     [] OTHER -> <<>>
<1>1. SmtpTags(e) = auth \o rest
  BY DEF SmtpTags, SmtpAccountTags
<1>2. /\ IsSeq(auth) /\ (auth = <<>> <=> ~SmtpLogin(V))
      /\ ToSet(auth) = IF SmtpLogin(V) THEN ToSet(CredentialAccess) ELSE {}
  <2>1. CredentialAccess # <<>> /\ HasAnyCommand(e, SmtpCredentialCommands) = SmtpLogin(V)
    BY PairsAre, NothingIsEmpty DEF HasAnyCommand, SmtpLogin
  <2> QED
    BY <2>1, PairsAre, FewAre
<1>3. /\ IsSeq(SmtpAccountTags) /\ IsSeq(Discovery) /\ IsSeq(<<>>) /\ ToSet(<<>>) = {}
      /\ CommandsFromLogdata(e) # <<>>
  BY FewAre DEF SmtpAccountTags, Discovery
<1> HIDE DEF auth
<1>4. IsSeq(rest) /\ ToSet(rest) =
        IF V \cap SmtpAccountDiscoveryCommands # {} THEN ToSet(SmtpAccountTags)
        ELSE IF ~SmtpLogin(V) /\ V \cap SmtpDiscoveryCommands # {} THEN ToSet(Discovery)
        ELSE {}
  BY <1>2, <1>3 DEF HasAnyCommand
<1> HIDE DEF rest
<1>5. IsSeq(SmtpTags(e)) /\ ToSet(SmtpTags(e)) = ToSet(auth) \cup ToSet(rest)
  BY <1>1, <1>2, <1>4, ConcatIs
<1> QED
  BY <1>2, <1>4, <1>5 DEF SmtpSays

LEMMA SmtpReads ==
  ASSUME NEW a, NEW port, ObservedService(a, port) = "smtp", NEW read, IsRead(read)
  PROVE  LET V == Said(read) \cap SmtpCommands
             events == ProtocolEvents(a, port, read)
         IN  /\ TagsOf(events) = IF V = {} THEN {} ELSE SmtpSays(V)
             /\ VerbsOf(events) = V
             /\ LoginIn(events) = SmtpLogin(V)
<1> DEFINE V == Said(read) \cap SmtpCommands
           commands == ParseSmtpCommands(read)
           e == Observed(a, "smtp", commands)
           events == ProtocolEvents(a, port, read)
<1>1. ParsedCommands("smtp", read) = commands
  BY DEF ParsedCommands
<1>2. IsSeq(commands) /\ ToSet(commands) = V /\ (commands = <<>> <=> V = {})
  BY LinesAre, NothingIsEmpty DEF ParseSmtpCommands
<1>3. read = <<>> => V = {}
  BY DEF Said
<1>4. events = IF V = {} THEN {} ELSE {e}
  <2>1. "smtp" \notin {"dionaea", "honeytrap", "none"} /\ "smtp" \in {"smtp", "ftp", "git"}
    OBVIOUS
  <2>2. events = IF \/ read = <<>> \/ "smtp" \in {"dionaea", "honeytrap", "none"}
                    \/ "smtp" \in {"smtp", "ftp", "git"} /\ ParsedCommands("smtp", read) = <<>>
                   THEN {} ELSE {Observed(a, "smtp", ParsedCommands("smtp", read))}
    BY EventsAre
  <2> HIDE DEF commands, events
  <2> QED
    BY <1>1, <1>2, <1>3, <2>1, <2>2
<1>5. /\ e.service = "smtp" /\ e.commands = commands /\ e.command = "" /\ ~e.login
      /\ e.username = UsernameSeen("smtp", commands) /\ e.password = PasswordSeen("smtp", commands)
  <2> HIDE DEF commands
  <2> QED
    BY DEF Observed
<1>15. /\ ~e.username
       /\ e.password <=> "AUTH" \in V
  <2> HIDE DEF commands, e
  <2> QED
    BY <1>2, <1>5, ContainsIs DEF UsernameSeen, PasswordSeen
<1> HIDE DEF commands, e, events
<1>6. IsSeq(CommandsFromLogdata(e)) /\ ToSet(CommandsFromLogdata(e)) = V
  <2>1. IsSeq(e.commands) /\ ToSet(e.commands) = V
    BY <1>2, <1>5
  <2> QED
    BY <1>5, <2>1, CommandsAre
<1>9. CanaryProfileTags(e) = DedupePreserve(SmtpTags(e))
  BY <1>5 DEF CanaryProfileTags
<1>10. V # {} => ToSet(CanaryProfileTags(e)) = SmtpSays(V)
  BY <1>6, <1>9, SmtpTagsAre, DedupeIs
<1>11. CanaryPriority(e) = "medium" <=> SmtpLogin(V)
  <2>1. HasAnyCommand(e, SmtpCredentialCommands) <=> SmtpLogin(V)
    BY <1>6 DEF HasAnyCommand, SmtpLogin
  <2>2. e.password <=> SmtpLogin(V)
    BY <1>15 DEF SmtpLogin, SmtpCredentialCommands
  <2> QED
    BY <1>5, <1>15, <2>1, <2>2 DEF CanaryPriority, IsLoginProbe
<1>12. TagsOf(events) = IF V = {} THEN {} ELSE SmtpSays(V)
  <2>1. CASE V = {}
    BY <1>4, <2>1 DEF TagsOf
  <2>2. CASE V # {}
    BY <1>4, <1>10, <2>2 DEF TagsOf
  <2> QED
    BY <2>1, <2>2
<1>13. VerbsOf(events) = V
  BY <1>4, <1>5, <1>2 DEF VerbsOf
<1>14. LoginIn(events) = SmtpLogin(V)
  BY <1>4, <1>11 DEF LoginIn, SmtpLogin
<1> QED
  BY <1>12, <1>13, <1>14 DEF events

\* The messages of a read, each read apart.
Parts(a, port, read) == UNION {ProtocolEvents(a, port, <<read[i]>>) : i \in DOMAIN read}

LEMMA FtpSaysApart ==
  ASSUME NEW V, V \subseteq FtpCommands, V # {}, NEW t \in FtpSays(V)
  PROVE  \E v \in V : t \in FtpSays({v})
<1>1. CASE FtpLogin(V) /\ t \in ToSet(CredentialAccess) \cup ToSet(LateralMovement)
  <2>1. PICK v \in V : v \in {"USER", "PASS"}
    BY <1>1 DEF FtpLogin
  <2>2. FtpLogin({v})
    BY <2>1 DEF FtpLogin
  <2> QED
    BY <1>1, <2>2 DEF FtpSays
<1>2. CASE V \cap FtpExfilCommands # {} /\ t \in ToSet(FtpExfilTags)
  <2>1. PICK v \in V : v \in FtpExfilCommands
    BY <1>2
  <2>2. {v} \cap FtpExfilCommands # {}
    BY <2>1
  <2> QED
    BY <1>2, <2>2 DEF FtpSays
<1>3. CASE V \cap FtpCollectionCommands # {} /\ t \in ToSet(FtpCollectionTags)
  <2>1. PICK v \in V : v \in FtpCollectionCommands
    BY <1>3
  <2>2. {v} \cap FtpExfilCommands = {} /\ {v} \cap FtpCollectionCommands # {}
    BY <2>1 DEF FtpCollectionCommands, FtpExfilCommands
  <2> QED
    BY <1>3, <2>2 DEF FtpSays
<1>4. CASE /\ V \cap FtpExfilCommands = {} /\ V \cap FtpCollectionCommands = {}
           /\ ~FtpLogin(V) \/ V \cap FtpDiscoveryCommands # {}
           /\ t \in ToSet(Discovery)
  <2>1. PICK v \in V : v \notin {"USER", "PASS"}
    BY <1>4 DEF FtpLogin, FtpDiscoveryCommands
  <2>2. /\ {v} \cap FtpExfilCommands = {} /\ {v} \cap FtpCollectionCommands = {}
        /\ ~FtpLogin({v})
    BY <1>4, <2>1 DEF FtpLogin
  <2>3. t \in ToSet(Discovery)
    BY <1>4 DEF FtpSays
  <2> QED
    BY <2>2, <2>3 DEF FtpSays
<1> QED
  BY <1>1, <1>2, <1>3, <1>4 DEF FtpSays

LEMMA SmtpSaysApart ==
  ASSUME NEW V, NEW t \in SmtpSays(V)
  PROVE  \E v \in V : t \in SmtpSays({v})
<1>1. CASE SmtpLogin(V) /\ t \in ToSet(CredentialAccess)
  <2>1. PICK v \in V : v \in SmtpCredentialCommands
    BY <1>1 DEF SmtpLogin
  <2>2. SmtpLogin({v})
    BY <2>1 DEF SmtpLogin
  <2> QED
    BY <1>1, <2>2 DEF SmtpSays
<1>2. CASE V \cap SmtpAccountDiscoveryCommands # {} /\ t \in ToSet(SmtpAccountTags)
  <2>1. PICK v \in V : v \in SmtpAccountDiscoveryCommands
    BY <1>2
  <2>2. {v} \cap SmtpAccountDiscoveryCommands # {}
    BY <2>1
  <2> QED
    BY <1>2, <2>2 DEF SmtpSays
<1>3. CASE V \cap SmtpDiscoveryCommands # {} /\ t \in ToSet(Discovery)
  <2>1. PICK v \in V : v \in SmtpDiscoveryCommands
    BY <1>3
  <2>2. /\ {v} \cap SmtpDiscoveryCommands # {} /\ {v} \cap SmtpAccountDiscoveryCommands = {}
        /\ ~SmtpLogin({v})
    BY <2>1 DEF SmtpLogin, SmtpDiscoveryCommands, SmtpAccountDiscoveryCommands,
                SmtpCredentialCommands
  <2> QED
    BY <1>3, <2>2 DEF SmtpSays
<1> QED
  BY <1>1, <1>2, <1>3 DEF SmtpSays

\* What the parts of a read say together.
LEMMA PartsSay ==
  ASSUME NEW a, NEW port, NEW read, NEW i \in DOMAIN read
  PROVE  /\ ProtocolEvents(a, port, <<read[i]>>) \subseteq Parts(a, port, read)
         /\ TagsOf(ProtocolEvents(a, port, <<read[i]>>)) \subseteq TagsOf(Parts(a, port, read))
<1>1. ProtocolEvents(a, port, <<read[i]>>) \subseteq Parts(a, port, read)
  BY DEF Parts
<1> QED
  BY <1>1 DEF TagsOf

\* Reads by the line, FTP's and SMTP's: each verb says what it says.
LEMMA FtpCoalesced ==
  ASSUME NEW a, NEW port, ObservedService(a, port) = "ftp", NEW read, IsRead(read)
  PROVE  LET whole == ProtocolEvents(a, port, read)
             parts == Parts(a, port, read)
         IN  /\ TagsOf(whole) \subseteq TagsOf(parts)
             /\ VerbsOf(whole) = VerbsOf(parts) /\ LoginIn(whole) = LoginIn(parts)
<1> DEFINE V == Said(read) \cap FtpCommands
           W(i) == {read[i].verb} \cap FtpCommands
           whole == ProtocolEvents(a, port, read)
           part(i) == ProtocolEvents(a, port, <<read[i]>>)
           parts == Parts(a, port, read)
<1>1. /\ TagsOf(whole) = IF V = {} THEN {} ELSE FtpSays(V)
      /\ VerbsOf(whole) = V /\ LoginIn(whole) = FtpLogin(V)
  BY FtpReads
<1>2. ASSUME NEW i \in DOMAIN read
      PROVE  /\ TagsOf(part(i)) = IF W(i) = {} THEN {} ELSE FtpSays(W(i))
             /\ VerbsOf(part(i)) = W(i) /\ LoginIn(part(i)) = FtpLogin(W(i))
  <2>1. IsRead(<<read[i]>>) /\ Said(<<read[i]>>) = {read[i].verb}
    BY PartsAreReads
  <2> QED
    BY <2>1, FtpReads
<1>3. V = UNION {W(i) : i \in DOMAIN read}
  BY DEF Said
<1>4. parts = UNION {part(i) : i \in DOMAIN read}
  BY DEF Parts
<1>5. \A i \in DOMAIN read : TagsOf(part(i)) \subseteq TagsOf(parts)
  BY PartsSay
<1>6. \A v \in V : \E i \in DOMAIN read : W(i) = {v}
  BY DEF Said
<1>7. V \subseteq FtpCommands
  OBVIOUS
<1> HIDE DEF V, W, whole, part, parts
<1>8. ASSUME NEW t \in TagsOf(whole) PROVE t \in TagsOf(parts)
  <2>1. V # {} /\ t \in FtpSays(V)
    BY <1>1, <1>8
  <2>2. PICK v \in V : t \in FtpSays({v})
    BY <1>7, <2>1, FtpSaysApart
  <2>3. PICK i \in DOMAIN read : W(i) = {v}
    BY <1>6
  <2>4. t \in TagsOf(part(i))
    BY <1>2, <2>2, <2>3
  <2> QED
    BY <1>5, <2>4
<1>9. VerbsOf(parts) = UNION {VerbsOf(part(i)) : i \in DOMAIN read}
  BY <1>4 DEF VerbsOf
<1>10. VerbsOf(parts) = V
  BY <1>2, <1>3, <1>9
<1>11. LoginIn(parts) <=> \E i \in DOMAIN read : LoginIn(part(i))
  BY <1>4 DEF LoginIn
<1>12. LoginIn(parts) <=> FtpLogin(V)
  BY <1>2, <1>3, <1>11 DEF FtpLogin
<1>13. LoginIn(whole) = LoginIn(parts)
  BY <1>1, <1>12 DEF LoginIn, FtpLogin
<1> QED
  BY <1>1, <1>8, <1>10, <1>13 DEF whole, parts

LEMMA SmtpCoalesced ==
  ASSUME NEW a, NEW port, ObservedService(a, port) = "smtp", NEW read, IsRead(read)
  PROVE  LET whole == ProtocolEvents(a, port, read)
             parts == Parts(a, port, read)
         IN  /\ TagsOf(whole) \subseteq TagsOf(parts)
             /\ VerbsOf(whole) = VerbsOf(parts) /\ LoginIn(whole) = LoginIn(parts)
<1> DEFINE V == Said(read) \cap SmtpCommands
           W(i) == {read[i].verb} \cap SmtpCommands
           whole == ProtocolEvents(a, port, read)
           part(i) == ProtocolEvents(a, port, <<read[i]>>)
           parts == Parts(a, port, read)
<1>1. /\ TagsOf(whole) = IF V = {} THEN {} ELSE SmtpSays(V)
      /\ VerbsOf(whole) = V /\ LoginIn(whole) = SmtpLogin(V)
  BY SmtpReads
<1>2. ASSUME NEW i \in DOMAIN read
      PROVE  /\ TagsOf(part(i)) = IF W(i) = {} THEN {} ELSE SmtpSays(W(i))
             /\ VerbsOf(part(i)) = W(i) /\ LoginIn(part(i)) = SmtpLogin(W(i))
  <2>1. IsRead(<<read[i]>>) /\ Said(<<read[i]>>) = {read[i].verb}
    BY PartsAreReads
  <2> QED
    BY <2>1, SmtpReads
<1>3. V = UNION {W(i) : i \in DOMAIN read}
  BY DEF Said
<1>4. parts = UNION {part(i) : i \in DOMAIN read}
  BY DEF Parts
<1>5. \A i \in DOMAIN read : TagsOf(part(i)) \subseteq TagsOf(parts)
  BY PartsSay
<1>6. \A v \in V : \E i \in DOMAIN read : W(i) = {v}
  BY DEF Said
<1> HIDE DEF V, W, whole, part, parts
<1>8. ASSUME NEW t \in TagsOf(whole) PROVE t \in TagsOf(parts)
  <2>1. V # {} /\ t \in SmtpSays(V)
    BY <1>1, <1>8
  <2>2. PICK v \in V : t \in SmtpSays({v})
    BY <2>1, SmtpSaysApart
  <2>3. PICK i \in DOMAIN read : W(i) = {v}
    BY <1>6
  <2>4. t \in TagsOf(part(i))
    BY <1>2, <2>2, <2>3
  <2> QED
    BY <1>5, <2>4
<1>9. VerbsOf(parts) = UNION {VerbsOf(part(i)) : i \in DOMAIN read}
  BY <1>4 DEF VerbsOf
<1>10. VerbsOf(parts) = V
  BY <1>2, <1>3, <1>9
<1>11. LoginIn(parts) <=> \E i \in DOMAIN read : LoginIn(part(i))
  BY <1>4 DEF LoginIn
<1>12. LoginIn(parts) <=> SmtpLogin(V)
  BY <1>2, <1>3, <1>11 DEF SmtpLogin
<1>13. LoginIn(whole) = LoginIn(parts)
  BY <1>1, <1>12 DEF LoginIn, SmtpLogin
<1> QED
  BY <1>1, <1>8, <1>10, <1>13 DEF whole, parts

\* The other services: for each read that is reported, one of its messages is so
\* with the same tags.
OneSaysIt(a, port, read) ==
  \A e \in ProtocolEvents(a, port, read) :
    \A t \in ToSet(CanaryProfileTags(e)) :
      \E i \in DOMAIN read : \E d \in ProtocolEvents(a, port, <<read[i]>>) :
        t \in ToSet(CanaryProfileTags(d))

LEMMA OneSaysItCoalesced ==
  ASSUME NEW a, NEW port, NEW read, OneSaysIt(a, port, read)
  PROVE  TagsOf(ProtocolEvents(a, port, read)) \subseteq TagsOf(Parts(a, port, read))
  BY DEF OneSaysIt, TagsOf, Parts

\* What an event is of, for a service that is none of the mapped ones.
LEMMA SpokenFor ==
  ASSUME NEW a, NEW port, NEW service, ObservedService(a, port) = service,
         service \in {"redis", "mysql", "ssh", "telnet"}, NEW read, read # <<>>
  PROVE  ProtocolEvents(a, port, read) = {Observed(a, service, ParsedCommands(service, read))}
<1>1. service \notin {"dionaea", "honeytrap", "none"} /\ service \notin {"smtp", "ftp", "git"}
  OBVIOUS
<1> QED
  BY <1>1, EventsAre

LEMMA NothingSays ==
  ASSUME NEW a, NEW port
  PROVE  ProtocolEvents(a, port, <<>>) = {}
  BY DEF ProtocolEvents

LEMMA LoginTags ==
  ASSUME NEW e, e.username, e.service \in {"ssh", "telnet", "mysql"}
  PROVE  CanaryProfileTags(e) =
           DedupePreserve(CredentialAccess
                          \o (IF e.service \in LateralLoginServices THEN LateralMovement ELSE <<>>)
                          \o (IF e.service = "ssh" THEN <<Technique(<<"T1021", "004">>)>> ELSE <<>>))
<1>1. IsLoginProbe(e)
  BY DEF IsLoginProbe
<1>2. e.service \notin {"ftp", "smtp"}
  OBVIOUS
<1> QED
  BY <1>1, <1>2 DEF CanaryProfileTags

\* A login protocol reports every read in the same way.
LEMMA LoginReads ==
  ASSUME NEW a, NEW port, NEW service \in {"ssh", "telnet"}, ObservedService(a, port) = service,
         NEW read, IsRead(read)
  PROVE  OneSaysIt(a, port, read)
<1> DEFINE e(r) == Observed(a, service, ParsedCommands(service, r))
<1>1. CASE read = <<>>
  BY <1>1, NothingSays DEF OneSaysIt
<1>2. CASE read # <<>>
  <2>1. 1 \in DOMAIN read
    BY <1>2 DEF IsRead
  <2>2. <<read[1]>> # <<>>
    BY PartsAreReads
  <2>3. /\ ProtocolEvents(a, port, read) = {e(read)}
        /\ ProtocolEvents(a, port, <<read[1]>>) = {e(<<read[1]>>)}
    BY <1>2, <2>2, SpokenFor
  <2>4. \A r : e(r).service = service /\ e(r).username /\ e(r).password
    BY DEF Observed, UsernameSeen, PasswordSeen
  <2> HIDE DEF e
  <2>5. CanaryProfileTags(e(read)) = CanaryProfileTags(e(<<read[1]>>))
    BY <2>4, LoginTags
  <2> QED
    BY <2>1, <2>3, <2>5 DEF OneSaysIt
<1> QED
  BY <1>1, <1>2

LEMMA GitReads ==
  ASSUME NEW a, NEW port, ObservedService(a, port) = "git", NEW read, IsRead(read)
  PROVE  OneSaysIt(a, port, read)
<1> DEFINE e(r) == Observed(a, "git", ParsedCommands("git", r))
<1>1. CASE read = <<>>
  BY <1>1, NothingSays DEF OneSaysIt
<1>2. CASE read # <<>>
  <2>1. 1 \in DOMAIN read
    BY <1>2 DEF IsRead
  <2>2. <<read[1]>> # <<>>
    BY PartsAreReads
  <2>3. "git" \notin {"dionaea", "honeytrap", "none"} /\ "git" \in {"smtp", "ftp", "git"}
    OBVIOUS
  <2>4. \A r : r # <<>> => ParsedCommands("git", r) # <<>>
    BY DEF ParsedCommands, ParseGitCommands
  <2>5. \A r : r # <<>> => ProtocolEvents(a, port, r) = {e(r)}
    BY <2>3, <2>4, EventsAre
  <2>6. \A r : e(r).service = "git" /\ ~e(r).username /\ ~e(r).password /\ ~e(r).login
    BY DEF Observed, UsernameSeen, PasswordSeen
  <2> HIDE DEF e
  <2>7. CanaryProfileTags(e(read)) = CanaryProfileTags(e(<<read[1]>>))
    BY <2>6 DEF CanaryProfileTags, IsLoginProbe
  <2>8. /\ ProtocolEvents(a, port, read) = {e(read)}
        /\ ProtocolEvents(a, port, <<read[1]>>) = {e(<<read[1]>>)}
    BY <1>2, <2>2, <2>5
  <2> QED
    BY <2>1, <2>7, <2>8 DEF OneSaysIt
<1> QED
  BY <1>1, <1>2

\* Redis: what the first command says, whichever message has it.
RedisSays(command) ==
  Discovery \o
  (CASE command \in RedisCredentialCommands ->
          <<Tactic("credential_access"), Technique(<<"T1552", "001">>)>>
     [] command \in RedisRepositoryDiscoveryCommands ->
          <<Tactic("collection"), Technique(<<"T1213", "">>)>>
     [] command \in RedisDataAccessCommands ->
          <<Tactic("collection"), Technique(<<"T1005", "">>)>>
     [] OTHER -> <<>>)

LEMMA RedisSaysIs ==
  ASSUME NEW command
  PROVE  /\ IsSeq(RedisSays(command)) /\ ToSet(Discovery) \subseteq ToSet(RedisSays(command))
         /\ ToSet(RedisSays("")) = ToSet(Discovery)
<1> DEFINE more(c) ==
             CASE c \in RedisCredentialCommands ->
                    <<Tactic("credential_access"), Technique(<<"T1552", "001">>)>>
               [] c \in RedisRepositoryDiscoveryCommands ->
                    <<Tactic("collection"), Technique(<<"T1213", "">>)>>
               [] c \in RedisDataAccessCommands ->
                    <<Tactic("collection"), Technique(<<"T1005", "">>)>>
               [] OTHER -> <<>>
<1>1. more("") = <<>>
  BY DEF RedisCredentialCommands, RedisRepositoryDiscoveryCommands, RedisDataAccessCommands
<1>2. ASSUME NEW c PROVE IsSeq(more(c))
  <2>1. \A x, y : IsSeq(<<x, y>>) /\ IsSeq(<<>>)
    BY FewAre
  <2> QED
    BY <2>1 DEF RedisCredentialCommands, RedisRepositoryDiscoveryCommands, RedisDataAccessCommands
<1>3. \A c : RedisSays(c) = Discovery \o more(c)
  BY DEF RedisSays
<1> HIDE DEF more
<1>4. \A c : IsSeq(RedisSays(c)) /\ ToSet(RedisSays(c)) = ToSet(Discovery) \cup ToSet(more(c))
  BY <1>2, <1>3, PairsAre, ConcatIs
<1> QED
  BY <1>1, <1>4, FewAre

LEMMA RedisReads ==
  ASSUME NEW a, NEW port, ObservedService(a, port) = "redis", NEW read, IsRead(read)
  PROVE  OneSaysIt(a, port, read)
<1> DEFINE e(r) == Observed(a, "redis", ParsedCommands("redis", r))
           word(r) == IF Words(r) = <<>> THEN "" ELSE Words(r)[1]
<1>1. CASE read = <<>>
  BY <1>1, NothingSays DEF OneSaysIt
<1>2. ASSUME NEW r, r # <<>>
      PROVE  /\ ProtocolEvents(a, port, r) = {e(r)}
             /\ ToSet(CanaryProfileTags(e(r))) = ToSet(RedisSays(word(r)))
  <2>1. ProtocolEvents(a, port, r) = {e(r)}
    BY <1>2, SpokenFor
  <2>2. ParsedCommands("redis", r) = IF Words(r) = <<>> THEN <<>> ELSE <<Words(r)[1]>>
    BY DEF ParsedCommands, ParseRedisCommands
  <2>3. /\ e(r).service = "redis" /\ ~e(r).username /\ ~e(r).password /\ ~e(r).login
        /\ e(r).command = IF ParsedCommands("redis", r) = <<>> THEN ""
                          ELSE ParsedCommands("redis", r)[1]
    BY DEF Observed, UsernameSeen, PasswordSeen
  <2>4. e(r).command = word(r)
    <3>1. CASE Words(r) = <<>>
      BY <2>2, <2>3, <3>1
    <3>2. CASE Words(r) # <<>>
      <4>1. ParsedCommands("redis", r) # <<>> /\ ParsedCommands("redis", r)[1] = Words(r)[1]
        BY <2>2, <3>2
      <4> QED
        BY <2>3, <3>2, <4>1
    <3> QED
      BY <3>1, <3>2
  <2> HIDE DEF e, word
  <2>5. ~IsLoginProbe(e(r))
    BY <2>3 DEF IsLoginProbe
  <2>6. CanaryProfileTags(e(r)) = DedupePreserve(RedisTags(e(r)))
    BY <2>3, <2>5 DEF CanaryProfileTags
  <2>7. RedisTags(e(r)) = RedisSays(word(r))
    BY <2>4 DEF RedisTags, RedisSays
  <2> QED
    BY <2>1, <2>6, <2>7, RedisSaysIs, DedupeIs
<1>3. CASE read # <<>> /\ Words(read) = <<>>
  <2>1. 1 \in DOMAIN read /\ <<read[1]>> # <<>>
    BY <1>3, PartsAreReads DEF IsRead
  <2>2. word(read) = ""
    BY <1>3
  <2> HIDE DEF e, word
  <2>3. ToSet(CanaryProfileTags(e(read))) \subseteq ToSet(CanaryProfileTags(e(<<read[1]>>)))
    BY <1>2, <1>3, <2>1, <2>2, RedisSaysIs
  <2> QED
    BY <1>2, <1>3, <2>1, <2>3 DEF OneSaysIt
<1>4. CASE read # <<>> /\ Words(read) # <<>>
  <2> DEFINE w == Words(read)[1]
  <2>1. w \in Said(read) \ {""}
    <3>1. IsSeq(Words(read)) /\ ToSet(Words(read)) = Said(read) \ {""}
      BY WordsAre
    <3> QED
      BY <1>4, <3>1, FirstIs
  <2>2. PICK i \in DOMAIN read : read[i].verb = w
    BY <2>1 DEF Said
  <2>3. IsSeq(Words(<<read[i]>>)) /\ ToSet(Words(<<read[i]>>)) = {w} /\ <<read[i]>> # <<>>
    <3>1. IsRead(<<read[i]>>) /\ Said(<<read[i]>>) = {w} /\ <<read[i]>> # <<>>
      BY <2>2, PartsAreReads
    <3>2. {w} \ {""} = {w}
      BY <2>1
    <3> QED
      BY <3>1, <3>2, WordsAre
  <2>4. Words(<<read[i]>>) # <<>> /\ Words(<<read[i]>>)[1] = w
    <3>1. Words(<<read[i]>>) # <<>>
      BY <2>3, NothingIsEmpty
    <3> QED
      BY <2>3, <3>1, FirstIs
  <2>5. word(read) = word(<<read[i]>>)
    BY <1>4, <2>4
  <2> HIDE DEF e, word
  <2> QED
    BY <1>2, <1>4, <2>3, <2>5 DEF OneSaysIt
<1> QED
  BY <1>1, <1>3, <1>4

\* MySQL: whether a packet counts as a login is what one of the packets says.
MysqlLogin(read) == ParseMysqlCommands(read) = <<"MYSQL_LOGIN">>

LEMMA MysqlLoginIn ==
  ASSUME NEW read, IsRead(read), read # <<>>
  PROVE  \E i \in DOMAIN read : MysqlLogin(<<read[i]>>) = MysqlLogin(read)
<1>1. 1 \in DOMAIN read
  BY DEF IsRead
<1>2. ASSUME NEW r, r # <<>>
      PROVE  ParseMysqlCommands(r) = IF MysqlPacket(r[1]) # <<>> THEN MysqlPacket(r[1])
                                     ELSE IF SqlVerbs(r) # <<>> THEN SqlVerbs(r)
                                     ELSE <<"MYSQL_LOGIN">>
  BY <1>2 DEF ParseMysqlCommands
<1>3. ASSUME NEW i \in DOMAIN read
      PROVE  ParseMysqlCommands(<<read[i]>>) =
               IF MysqlPacket(read[i]) # <<>> THEN MysqlPacket(read[i])
               ELSE IF SqlVerbs(<<read[i]>>) # <<>> THEN SqlVerbs(<<read[i]>>)
               ELSE <<"MYSQL_LOGIN">>
  BY <1>2, PartsAreReads
<1>4. ASSUME NEW r, IsRead(r), SqlVerbs(r) # <<>> PROVE SqlVerbs(r) # <<"MYSQL_LOGIN">>
  <2>1. ToSet(SqlVerbs(r)) \subseteq SqlCommands
    BY <1>4, SqlVerbsAre
  <2>2. ToSet(<<"MYSQL_LOGIN">>) = {"MYSQL_LOGIN"}
    BY FewAre
  <2> QED
    BY <2>1, <2>2 DEF SqlCommands
<1>5. CASE MysqlPacket(read[1]) # <<>>
  BY <1>1, <1>2, <1>3, <1>5 DEF MysqlLogin
<1>6. CASE MysqlPacket(read[1]) = <<>> /\ SqlVerbs(read) = <<>>
  <2>1. {read[i].verb : i \in {j \in DOMAIN read : read[j].packet = "text"
                                                  /\ read[j].verb \in SqlCommands}} = {}
    BY <1>6, SqlVerbsAre, FewAre
  <2>2. ~(read[1].packet = "text" /\ read[1].verb \in SqlCommands)
    BY <1>1, <2>1
  <2> DEFINE x == <<read[1]>>
  <2>3. IsRead(x) /\ DOMAIN x = {1} /\ x[1] = read[1]
    BY PartsAreReads
  <2> HIDE DEF x
  <2>4. IsSeq(SqlVerbs(x)) /\ ToSet(SqlVerbs(x)) = {}
    BY <2>2, <2>3, SqlVerbsAre
  <2>5. SqlVerbs(x) = <<>>
    BY <2>4, NothingIsEmpty
  <2> QED
    BY <1>1, <1>2, <1>3, <1>6, <2>5 DEF MysqlLogin, x
<1>7. CASE MysqlPacket(read[1]) = <<>> /\ SqlVerbs(read) # <<>>
  <2>1. ~MysqlLogin(read)
    BY <1>2, <1>4, <1>7 DEF MysqlLogin
  <2>2. ToSet(SqlVerbs(read)) # {}
    BY <1>7, SqlVerbsAre, NothingIsEmpty
  <2>3. PICK i \in DOMAIN read : read[i].packet = "text" /\ read[i].verb \in SqlCommands
    BY <2>2, SqlVerbsAre
  <2>4. MysqlPacket(read[i]) = <<>>
    BY <2>3 DEF MysqlPacket
  <2> DEFINE x == <<read[i]>>
  <2>5. IsRead(x) /\ DOMAIN x = {1} /\ x[1] = read[i]
    BY PartsAreReads
  <2> HIDE DEF x
  <2>6. read[i].verb \in ToSet(SqlVerbs(x))
    BY <2>3, <2>5, SqlVerbsAre
  <2>7. SqlVerbs(x) # <<>>
    BY <2>6, FewAre
  <2>8. ~MysqlLogin(x)
    <3>1. ParseMysqlCommands(x) = SqlVerbs(x)
      BY <1>3, <2>4, <2>7 DEF x
    <3>2. SqlVerbs(x) # <<"MYSQL_LOGIN">>
      BY <1>4, <2>5, <2>7
    <3> QED
      BY <3>1, <3>2 DEF MysqlLogin
  <2>9. ~MysqlLogin(<<read[i]>>)
    BY <2>8 DEF x
  <2> QED
    BY <2>1, <2>9 DEF MysqlLogin
<1> QED
  BY <1>5, <1>6, <1>7

LEMMA MysqlReads ==
  ASSUME NEW a, NEW port, ObservedService(a, port) = "mysql", NEW read, IsRead(read)
  PROVE  OneSaysIt(a, port, read)
<1> DEFINE e(r) == Observed(a, "mysql", ParsedCommands("mysql", r))
           said(r) == IF MysqlLogin(r) THEN CredentialAccess \o <<>> \o <<>> ELSE Discovery
<1>1. CASE read = <<>>
  BY <1>1, NothingSays DEF OneSaysIt
<1>2. ASSUME NEW r, r # <<>>
      PROVE  /\ ProtocolEvents(a, port, r) = {e(r)}
             /\ CanaryProfileTags(e(r)) = DedupePreserve(said(r))
  <2>1. ProtocolEvents(a, port, r) = {e(r)}
    BY <1>2, SpokenFor
  <2>2. ParsedCommands("mysql", r) = ParseMysqlCommands(r)
    BY DEF ParsedCommands
  <2>3. /\ e(r).service = "mysql" /\ ~e(r).login
        /\ e(r).username <=> MysqlLogin(r)
        /\ e(r).password <=> MysqlLogin(r)
    BY <2>2 DEF Observed, UsernameSeen, PasswordSeen, MysqlLogin
  <2> HIDE DEF e
  <2>4. CASE MysqlLogin(r)
    <3>1. CanaryProfileTags(e(r)) = DedupePreserve(CredentialAccess \o <<>> \o <<>>)
      BY <2>3, <2>4, LoginTags DEF LateralLoginServices
    <3> QED
      BY <2>1, <2>4, <3>1
  <2>5. CASE ~MysqlLogin(r)
    <3>1. ~IsLoginProbe(e(r))
      BY <2>3, <2>5 DEF IsLoginProbe
    <3>2. CanaryProfileTags(e(r)) = DedupePreserve(Discovery)
      BY <2>3, <3>1 DEF CanaryProfileTags
    <3> QED
      BY <2>1, <2>5, <3>2
  <2> QED
    BY <2>4, <2>5
<1>3. CASE read # <<>>
  <2>1. PICK i \in DOMAIN read : MysqlLogin(<<read[i]>>) = MysqlLogin(read)
    BY <1>3, MysqlLoginIn
  <2>2. <<read[i]>> # <<>>
    BY PartsAreReads
  <2>3. said(read) = said(<<read[i]>>)
    BY <2>1
  <2> HIDE DEF e, said
  <2> QED
    BY <1>2, <1>3, <2>2, <2>3 DEF OneSaysIt
<1> QED
  BY <1>1, <1>3

LEMMA ReadCoalesced ==
  ASSUME NEW a, NEW port, NEW read, IsRead(read)
  PROVE  LET whole == ProtocolEvents(a, port, read)
             parts == Parts(a, port, read)
         IN  /\ TagsOf(whole) \subseteq TagsOf(parts)
             /\ ObservedService(a, port) \in {"ftp", "smtp"} =>
                  VerbsOf(whole) = VerbsOf(parts) /\ LoginIn(whole) = LoginIn(parts)
<1> DEFINE service == ObservedService(a, port)
<1>1. service \in {"ftp", "smtp", "redis", "git", "mysql", "ssh", "telnet",
                  "dionaea", "honeytrap", "none"}
  BY DEF ObservedService
<1>2. CASE service = "ftp"
  BY <1>2, FtpCoalesced
<1>3. CASE service = "smtp"
  BY <1>3, SmtpCoalesced
<1>4. CASE service \in {"redis", "git", "mysql", "ssh", "telnet"}
  <2>1. OneSaysIt(a, port, read)
    BY <1>4, RedisReads, GitReads, MysqlReads, LoginReads
  <2> QED
    BY <1>4, <2>1, OneSaysItCoalesced
<1>5. CASE service \in {"dionaea", "honeytrap", "none"}
  <2>1. ProtocolEvents(a, port, read) = {}
    BY <1>5, EventsAre
  <2> QED
    BY <1>5, <2>1 DEF TagsOf
<1> QED
  BY <1>1, <1>2, <1>3, <1>4, <1>5

LEMMA CoalescedReads == CoalescedReadsInventNothing
<1> SUFFICES ASSUME NEW a \in DOMAIN Messages, NEW read \in BoundedSeq(Messages[a], MaxRead)
             PROVE
      LET whole == ProtocolEvents(a, PortOf[a], read)
          parts == UNION {ProtocolEvents(a, PortOf[a], <<read[i]>>) : i \in DOMAIN read}
          techniques(events) == UNION {AttackTechniques(CanaryProfileTags(e)) : e \in events}
          verbs(events) == UNION {ToSet(e.commands) : e \in events}
          login(events) == \E e \in events : CanaryPriority(e) = "medium"
      IN  /\ techniques(whole) \subseteq techniques(parts)
          /\ ObservedService(a, PortOf[a]) \in {"ftp", "smtp"} =>
               verbs(whole) = verbs(parts) /\ login(whole) = login(parts)
  BY DEF CoalescedReadsInventNothing
<1> DEFINE whole == ProtocolEvents(a, PortOf[a], read)
           parts == Parts(a, PortOf[a], read)
           techniques(events) == UNION {AttackTechniques(CanaryProfileTags(e)) : e \in events}
<1>1. IsRead(read)
  BY DEF BoundedSeq, SeqOf, IsRead
<1>2. /\ TagsOf(whole) \subseteq TagsOf(parts)
      /\ ObservedService(a, PortOf[a]) \in {"ftp", "smtp"} =>
           VerbsOf(whole) = VerbsOf(parts) /\ LoginIn(whole) = LoginIn(parts)
  BY <1>1, ReadCoalesced
<1> HIDE DEF whole, parts
<1>3. techniques(whole) \subseteq techniques(parts)
  <2>1. \A events : techniques(events) = {t.id : t \in {u \in TagsOf(events) : u.kind = "technique"}}
    BY DEF AttackTechniques, TagsOf
  <2> HIDE DEF techniques
  <2> QED
    BY <1>2, <2>1
<1> QED
  BY <1>2, <1>3 DEF VerbsOf, LoginIn, whole, parts, Parts

\* However many whole messages are read at once, a read claims no technique that its
\* messages apart would not, and by FTP and SMTP it names the same verbs and the
\* same attempts to log in (_protocol_observer, _profile_tags).
THEOREM CoalescedReadsInventNothingTheorem == Spec => []CoalescedReadsInventNothing
<1>1. CoalescedReadsInventNothing
  BY CoalescedReads
<1> QED
  BY <1>1, PTL

-------------------------------------------------------------------------------
(* Conditions.                                                               *)

\* A plan's selections hold, and those it excludes do not.
Fires(p, truth) == (\A n \in p.positives : truth[n]) /\ (\A n \in p.negatives : ~truth[n])

\* A detection the grammar covers, whose selections are finitely many.
Regular(detection) ==
  /\ Supported(detection) /\ IsFiniteSet(NamedSelections(detection))
  /\ \A b \in DOMAIN detection.condition : \A i \in DOMAIN detection.condition[b] :
       detection.condition[b][i].negated \in BOOLEAN

LEMMA PatternNames ==
  ASSUME NEW pattern, NEW names, NEW kept, kept \subseteq names
  PROVE  /\ NamesForPattern(pattern, names) \subseteq names
         /\ NamesForPattern(pattern, kept) = NamesForPattern(pattern, names) \cap kept
  BY DEF NamesForPattern

\* The terms of a branch of such a detection.
LEMMA BranchTerms ==
  ASSUME NEW detection, Regular(detection), NEW branch \in ToSet(detection.condition)
  PROVE  LET names == NamedSelections(detection)
             found(t) == NamesForPattern(t.pattern, names)
         IN  /\ \E t \in ToSet(branch) : ~t.negated
             /\ \A t \in ToSet(branch) :
                  /\ t.negated \in BOOLEAN
                  /\ t.negated => \E n \in names : found(t) = {n}
                  /\ ~t.negated => /\ found(t) # {}
                                   /\ NamesForPattern(t.pattern, {n \in names : ~IsFilterName(n)})
                                        = found(t)
<1> DEFINE names == NamedSelections(detection)
           found(t) == NamesForPattern(t.pattern, names)
           kept == {n \in names : ~IsFilterName(n)}
           terms == UNION {ToSet(b) : b \in ToSet(detection.condition)}
<1>1. \E t \in ToSet(branch) : ~t.negated
  BY DEF Regular, Supported
<1>2. ASSUME NEW t \in ToSet(branch)
      PROVE  /\ t.negated \in BOOLEAN
             /\ t.negated => \E n \in names : found(t) = {n}
             /\ ~t.negated => found(t) # {} /\ NamesForPattern(t.pattern, kept) = found(t)
  <2>1. t \in terms
    OBVIOUS
  <2>2. t.negated \in BOOLEAN
    BY DEF Regular, ToSet
  <2>3. IF t.negated THEN Cardinality(found(t)) = 1
                     ELSE found(t) # {} /\ \A n \in found(t) : ~IsFilterName(n)
    BY <2>1 DEF Regular, Supported
  <2>4. found(t) \subseteq names /\ NamesForPattern(t.pattern, kept) = found(t) \cap kept
    BY PatternNames
  <2>5. IsFiniteSet(names)
    BY DEF Regular
  <2> HIDE DEF names, found
  <2>6. ASSUME t.negated PROVE \E n \in names : found(t) = {n}
    <3>1. IsFiniteSet(found(t)) /\ Cardinality(found(t)) = 1
      BY <2>3, <2>4, <2>5, <2>6, FS_Subset
    <3>2. PICK n : found(t) = {n}
      BY <3>1, FS_Singleton
    <3> QED
      BY <2>4, <3>2
  <2>7. ASSUME ~t.negated PROVE found(t) # {} /\ NamesForPattern(t.pattern, kept) = found(t)
    <3>1. found(t) \subseteq kept
      BY <2>3, <2>4, <2>7
    <3> QED
      BY <2>3, <2>4, <2>7, <3>1
  <2> QED
    BY <2>2, <2>6, <2>7
<1> QED
  BY <1>1, <1>2

\* The plans of a branch are the ways to make all of its terms hold.
LEMMA BranchMeans ==
  ASSUME NEW detection, Regular(detection), NEW branch \in ToSet(detection.condition),
         NEW truth \in [NamedSelections(detection) -> BOOLEAN]
  PROVE  (\E p \in PlansFromAndBranch(branch, NamedSelections(detection)) : Fires(p, truth))
           <=> \A t \in ToSet(branch) : TermHolds(t, truth)
<1> DEFINE names == NamedSelections(detection)
           found(t) == NamesForPattern(t.pattern, names)
           positives == {t \in ToSet(branch) : ~t.negated}
           negatives == ToSet(branch) \ positives
           options == [t \in positives |-> PositiveOptions(t, names)]
           choices == {c \in [positives -> UNION {options[t] : t \in positives}] :
                         \A t \in positives : c[t] \in options[t]}
           excluded == UNION {NegatedNames(t, names) : t \in negatives}
           plans == {[positives |-> p, negatives |-> excluded] :
                       p \in {UNION {c[t] : t \in positives} : c \in choices} \ {{}}}
<1>1. /\ positives # {}
      /\ \A t \in ToSet(branch) :
           /\ t.negated \in BOOLEAN
           /\ t.negated => \E n \in names : found(t) = {n}
           /\ ~t.negated => /\ found(t) # {} /\ found(t) \subseteq names
                            /\ NamesForPattern(t.pattern, {n \in names : ~IsFilterName(n)}) = found(t)
  BY BranchTerms, PatternNames
<1>2. \A t \in positives :
        /\ t \in ToSet(branch) /\ ~t.negated /\ found(t) # {}
        /\ options[t] = IF t.how = "one" THEN {{n} : n \in found(t)} ELSE {found(t)}
  BY <1>1 DEF PositiveOptions
<1>3. \A t \in negatives : t \in ToSet(branch) /\ t.negated /\ NegatedNames(t, names) = found(t)
  BY <1>1 DEF NegatedNames
<1>4. PlansFromAndBranch(branch, names) = plans
  <2>1. \A t \in negatives : Cardinality(NegatedNames(t, names)) = 1
    BY <1>1, <1>3, FS_Singleton
  <2>2. ~(positives = {} \/ \E t \in negatives : Cardinality(NegatedNames(t, names)) # 1)
    BY <1>1, <2>1
  <2> QED
    BY <2>2 DEF PlansFromAndBranch
<1>5. DOMAIN truth = names /\ \A n \in names : truth[n] \in BOOLEAN
  OBVIOUS
<1>6. \A t \in positives :
        TermHolds(t, truth) <=> IF t.how = "one" THEN \E n \in found(t) : truth[n]
                                                 ELSE \A n \in found(t) : truth[n]
  BY <1>1, <1>2, <1>5 DEF TermHolds
<1>7. \A t \in negatives : TermHolds(t, truth) <=> \A n \in found(t) : ~truth[n]
  <2> TAKE t \in negatives
  <2>1. PICK n \in names : found(t) = {n}
    BY <1>1, <1>3
  <2>2. TermHolds(t, truth) <=> truth[n] # t.negated
    BY <1>5, <2>1 DEF TermHolds
  <2>3. t.negated = TRUE
    BY <1>1, <1>3
  <2> QED
    BY <1>5, <2>1, <2>2, <2>3
<1>8. \A t \in ToSet(branch) : t \in positives \/ t \in negatives
  OBVIOUS
<1>9. (\A n \in excluded : ~truth[n]) <=> \A t \in negatives : TermHolds(t, truth)
  BY <1>3, <1>7
<1> HIDE DEF names, found, positives, negatives, options
<1>10. ASSUME NEW c \in choices, \A n \in UNION {c[t] : t \in positives} : truth[n]
       PROVE  \A t \in positives : TermHolds(t, truth)
  <2> TAKE t \in positives
  <2>1. c[t] \in options[t] /\ \A n \in c[t] : truth[n]
    BY <1>10
  <2>2. CASE t.how = "one"
    <3>0. options[t] = {{n} : n \in found(t)}
      BY <1>2, <2>2
    <3>1. PICK n \in found(t) : c[t] = {n}
      BY <2>1, <3>0
    <3> QED
      BY <1>6, <2>1, <2>2, <3>1
  <2>3. CASE t.how # "one"
    <3>1. c[t] = found(t)
      BY <1>2, <2>1, <2>3
    <3> QED
      BY <1>6, <2>1, <2>3, <3>1
  <2> QED
    BY <2>2, <2>3
<1>11. ASSUME \A t \in positives : TermHolds(t, truth)
       PROVE  \E c \in choices : /\ UNION {c[t] : t \in positives} # {}
                                 /\ \A n \in UNION {c[t] : t \in positives} : truth[n]
  <2>1. \A t \in positives : \E o \in options[t] : o # {} /\ \A n \in o : truth[n]
    <3> TAKE t \in positives
    <3>1. CASE t.how = "one"
      <4>1. PICK n \in found(t) : truth[n]
        BY <1>6, <1>11, <3>1
      <4>2. {n} \in options[t]
        BY <1>2, <3>1
      <4> QED
        BY <4>1, <4>2
    <3>2. CASE t.how # "one"
      <4>1. \A n \in found(t) : truth[n]
        BY <1>6, <1>11, <3>2
      <4>2. found(t) \in options[t] /\ found(t) # {}
        BY <1>2, <3>2
      <4> QED
        BY <4>1, <4>2
    <3> QED
      BY <3>1, <3>2
  <2> DEFINE c == [t \in positives |-> CHOOSE o \in options[t] : o # {} /\ \A n \in o : truth[n]]
  <2>2. \A t \in positives : c[t] \in options[t] /\ c[t] # {} /\ \A n \in c[t] : truth[n]
    BY <2>1
  <2>3. c \in choices
    BY <2>2
  <2> HIDE DEF c
  <2>4. PICK t \in positives : TRUE
    BY <1>1
  <2>5. UNION {c[u] : u \in positives} # {}
    BY <2>2, <2>4
  <2> QED
    BY <2>2, <2>3, <2>5
<1> DEFINE all(c) == UNION {c[t] : t \in positives}
           plan(c) == [positives |-> all(c), negatives |-> excluded]
<1>14. \A p \in plans : \E c \in choices : all(c) # {} /\ p = plan(c)
  OBVIOUS
<1>15. \A c \in choices : all(c) # {} => plan(c) \in plans
  <2> TAKE c \in choices
  <2> HAVE all(c) # {}
  <2>1. all(c) \in {UNION {d[t] : t \in positives} : d \in choices} \ {{}}
    OBVIOUS
  <2> HIDE DEF all, choices
  <2> QED
    BY <2>1
<1> HIDE DEF choices, excluded, plans, all
<1>16. \A c : Fires(plan(c), truth) <=> /\ \A n \in all(c) : truth[n]
                                       /\ \A n \in excluded : ~truth[n]
  BY DEF Fires
<1> HIDE DEF plan
<1>12. (\E p \in plans : Fires(p, truth)) <=>
         /\ \E c \in choices : all(c) # {} /\ \A n \in all(c) : truth[n]
         /\ \A n \in excluded : ~truth[n]
  BY <1>14, <1>15, <1>16
<1>13. (\E p \in plans : Fires(p, truth)) <=>
         (\A t \in positives : TermHolds(t, truth)) /\ (\A t \in negatives : TermHolds(t, truth))
  BY <1>9, <1>10, <1>11, <1>12 DEF all
<1> USE DEF positives, negatives, names, plans, excluded, choices, options
<1> QED
  BY <1>4, <1>8, <1>13

\* The plans of a detection are the ways to make its condition hold.
LEMMA PlansMean ==
  ASSUME NEW detection, Regular(detection),
         NEW truth \in [NamedSelections(detection) -> BOOLEAN]
  PROVE  (\E p \in SelectionPlans(detection) : Fires(p, truth))
           <=> ConditionHolds(detection.condition, truth)
<1> DEFINE names == NamedSelections(detection)
<1>1. SelectionPlans(detection) =
        UNION {PlansFromAndBranch(branch, names) : branch \in ToSet(detection.condition)}
  BY DEF SelectionPlans, Regular, Supported
<1>2. (\E p \in SelectionPlans(detection) : Fires(p, truth)) <=>
        \E branch \in ToSet(detection.condition) :
          \E p \in PlansFromAndBranch(branch, names) : Fires(p, truth)
  BY <1>1
<1>3. ConditionHolds(detection.condition, truth) <=>
        \E branch \in ToSet(detection.condition) : \A t \in ToSet(branch) : TermHolds(t, truth)
  BY DEF ConditionHolds, ToSet
<1> QED
  BY <1>2, <1>3, BranchMeans

\* What a plan is made of.
LEMMA PlansAre ==
  ASSUME NEW detection, Regular(detection), NEW p \in SelectionPlans(detection)
  PROVE  LET names == NamedSelections(detection)
         IN  /\ p = [positives |-> p.positives, negatives |-> p.negatives]
             /\ p.positives # {} /\ p.positives \subseteq names /\ p.negatives \subseteq names
             /\ \E branch \in ToSet(detection.condition) :
                  p.negatives = UNION {NegatedNames(t, names) :
                                         t \in {u \in ToSet(branch) : u.negated}}
<1> DEFINE names == NamedSelections(detection)
<1>1. PICK branch \in ToSet(detection.condition) : p \in PlansFromAndBranch(branch, names)
  BY DEF SelectionPlans, Regular, Supported
<1> DEFINE positives == {t \in ToSet(branch) : ~t.negated}
           negatives == ToSet(branch) \ positives
           options == [t \in positives |-> PositiveOptions(t, names)]
           choices == {c \in [positives -> UNION {options[t] : t \in positives}] :
                         \A t \in positives : c[t] \in options[t]}
           excluded == UNION {NegatedNames(t, names) : t \in negatives}
<1>2. PICK c \in choices : /\ UNION {c[t] : t \in positives} # {}
                           /\ p = [positives |-> UNION {c[t] : t \in positives},
                                   negatives |-> excluded]
  BY <1>1 DEF PlansFromAndBranch
<1>3. \A t \in positives : c[t] \subseteq names
  <2> TAKE t \in positives
  <2>1. c[t] \in PositiveOptions(t, names)
    OBVIOUS
  <2>2. NamesForPattern(t.pattern, {n \in names : ~IsFilterName(n)}) \subseteq names
    BY PatternNames
  <2> QED
    BY <2>1, <2>2 DEF PositiveOptions
<1>4. excluded \subseteq names
  BY PatternNames DEF NegatedNames
<1>5. \A t \in ToSet(branch) : t.negated \in BOOLEAN
  BY BranchTerms
<1>6. negatives = {u \in ToSet(branch) : u.negated}
  BY <1>5
<1> QED
  BY <1>2, <1>3, <1>4, <1>6

-------------------------------------------------------------------------------
(* HTTP requests.                                                            *)

LEMMA FieldFound ==
  ASSUME NEW f, NEW event
  PROVE  FieldIndicators(f, event) # {} <=> FieldHolds(f, event)
<1> DEFINE hit == IF f.field \in DOMAIN event THEN f.values \cap event[f.field] ELSE {}
<1>1. FieldIndicators(f, event) # {} <=> hit # {} /\ (f.every => hit = f.values)
  BY DEF FieldIndicators
<1>2. CASE f.field \in DOMAIN event
  <2>1. hit = f.values \cap event[f.field]
    BY <1>2
  <2>2. hit = f.values <=> f.values \subseteq event[f.field]
    BY <2>1
  <2> HIDE DEF hit
  <2> QED
    BY <1>1, <1>2, <2>1, <2>2 DEF FieldHolds
<1>3. CASE f.field \notin DOMAIN event
  BY <1>1, <1>3 DEF FieldHolds
<1> QED
  BY <1>2, <1>3

LEMMA SelectionFound ==
  ASSUME NEW selection, NEW event
  PROVE  SelectionIndicators(selection, event) # {} <=> HttpHolds(selection, event)
<1>1. CASE selection.shape = "keywords"
  BY <1>1 DEF SelectionIndicators, KeywordIndicators, HttpHolds
<1>2. CASE selection.shape # "keywords"
  <2>1. SelectionIndicators(selection, event) # {} <=>
          /\ \A f \in selection.fields : FieldIndicators(f, event) # {}
          /\ \E f \in selection.fields : FieldIndicators(f, event) # {}
    BY <1>2 DEF SelectionIndicators
  <2>2. HttpHolds(selection, event) <=>
          selection.fields # {} /\ \A f \in selection.fields : FieldHolds(f, event)
    BY <1>2 DEF HttpHolds
  <2> QED
    BY <2>1, <2>2, FieldFound
<1> QED
  BY <1>1, <1>2

\* A rule's indicators are those of the plans that fire.
LEMMA IndicatorsMean ==
  ASSUME NEW rule, Regular(rule.detection), NEW event
  PROVE  LET names == NamedSelections(rule.detection)
             truth == [n \in names |-> HttpHolds(rule.detection.selections[n], event)]
         IN  /\ RuleIndicators(rule, event) # {} <=> ConditionHolds(rule.detection.condition, truth)
             /\ RuleIndicators(rule, event) # {} => SelectionPlans(rule.detection) # {}
<1> DEFINE names == NamedSelections(rule.detection)
           truth == [n \in names |-> HttpHolds(rule.detection.selections[n], event)]
           found == [n \in names |-> SelectionIndicators(rule.detection.selections[n], event)]
           fires(p) == /\ \A n \in p.positives : found[n] # {}
                       /\ \A n \in p.negatives : found[n] = {}
           plans == SelectionPlans(rule.detection)
<1>1. RuleIndicators(rule, event) = UNION {UNION {found[n] : n \in p.positives} :
                                             p \in {q \in plans : fires(q)}}
  BY DEF RuleIndicators
<1>2. truth \in [names -> BOOLEAN]
  BY DEF HttpHolds, FieldHolds
<1>3. \A n \in names : found[n] # {} <=> truth[n]
  BY SelectionFound
<1>4. \A p \in plans : p.positives # {} /\ p.positives \subseteq names /\ p.negatives \subseteq names
  BY PlansAre
<1>5. (\E p \in plans : Fires(p, truth)) <=> ConditionHolds(rule.detection.condition, truth)
  BY <1>2, PlansMean
<1> HIDE DEF names, truth, found, plans
<1>6. \A p \in plans : fires(p) <=> Fires(p, truth)
  BY <1>3, <1>4 DEF Fires
<1>7. \A p \in plans : fires(p) => UNION {found[n] : n \in p.positives} # {}
  BY <1>4
<1>8. RuleIndicators(rule, event) # {} <=> \E p \in plans : fires(p)
  BY <1>1, <1>7
<1> QED
  BY <1>5, <1>6, <1>8 DEF names, truth, plans

\* One of one is picked or not.
LEMMA PickedOfOne ==
  ASSUME NEW x, NEW P, P \subseteq {1}
  PROVE  /\ 1 \in P => Picked(<<x>>, P) = <<x>>
         /\ 1 \notin P => Picked(<<x>>, P) = <<>>
<1>1. P \subseteq 1 .. 1
  OBVIOUS
<1> DEFINE picked == Picked(<<x>>, P)
<1>2. IsSeq(picked) /\ ToSet(picked) = {<<x>>[i] : i \in P} /\ (picked = <<>> <=> P = {})
  BY <1>1, PickedIs
<1>3. ASSUME 1 \in P PROVE picked = <<x>>
  <2>1. P = {1}
    BY <1>3
  <2>2. Cardinality(P) = 1
    BY <2>1, FS_Singleton
  <2>3. DOMAIN picked = 1 .. 1
    BY <2>2 DEF Picked
  <2>4. ToSet(picked) = {x}
    BY <1>2, <2>1
  <2> HIDE DEF picked
  <2>5. picked[1] = x
    BY <2>3, <2>4 DEF ToSet
  <2>6. picked \in Seq({x}) /\ <<x>> \in Seq({x}) /\ Len(picked) = 1 /\ Len(<<x>>) = 1
    BY <1>2, <2>3, <2>4 DEF IsSeq
  <2>7. \A i \in 1 .. Len(picked) : picked[i] = <<x>>[i]
    BY <2>5, <2>6
  <2> QED
    BY <2>6, <2>7, SeqEqual
<1> QED
  BY <1>2, <1>3

\* The rule is deployed, and matches the requests for which its condition holds.
LEMMA HttpMeans ==
  ASSUME NEW event, Regular(HttpRule.detection)
  PROVE  MatchesFor(<<HttpRule>>, event) # <<>> <=>
           ConditionHolds(candidate, [n \in NamedSelections(HttpRule.detection) |->
                                        HttpHolds(HttpSelections[n], event)])
<1> DEFINE rules == <<HttpRule>>
           keeps == AttackProfileTags(HttpRule.tags) # <<>> /\ SelectionPlans(HttpRule.detection) # {}
           kept == {i \in DOMAIN rules : /\ AttackProfileTags(rules[i].tags) # <<>>
                                        /\ SelectionPlans(rules[i].detection) # {}}
           deployed == Deployed(rules)
           hit == {i \in DOMAIN deployed : RuleIndicators(deployed[i], event) # {}}
           matched == Picked(deployed, hit)
<1>1. DOMAIN rules = {1} /\ rules[1] = HttpRule
  OBVIOUS
<1>2. kept \subseteq {1} /\ (1 \in kept <=> keeps)
  BY <1>1
<1>3. deployed = Picked(rules, kept)
  BY DEF Deployed
<1>4. /\ HttpRule.tags = CandidateTags /\ HttpRule.detection.condition = candidate
      /\ HttpRule.detection.selections = HttpSelections
  BY DEF HttpRule
<1>5. AttackProfileTags(CandidateTags) # <<>>
  <2> DEFINE P == {i \in DOMAIN CandidateTags : CandidateTags[i].kind \in {"technique", "tactic"}}
  <2>1. PICK t \in ToSet(CandidateTags) : t.kind = "technique"
    BY DetectionAssumption DEF AttackTechniques
  <2>2. PICK i \in DOMAIN CandidateTags : CandidateTags[i].kind = "technique"
    BY <2>1 DEF ToSet
  <2>3. P # {} /\ P \subseteq 1 .. Len(CandidateTags) /\ Len(CandidateTags) \in Nat
    BY <2>2, DetectionAssumption
  <2> DEFINE picked == Picked(CandidateTags, P)
  <2> HIDE DEF P
  <2>4. IsSeq(picked) /\ picked # <<>>
    BY <2>3, PickedIs
  <2> QED
    BY <2>4, DedupeIs DEF AttackProfileTags, P
<1>6. MatchesFor(rules, event) # <<>> <=> matched # <<>>
  <2>1. DOMAIN MatchesFor(rules, event) = DOMAIN matched
    BY DEF MatchesFor
  <2>2. \E n \in Nat : hit \subseteq 1 .. n
    <3>1. deployed = <<>> \/ deployed = rules
      BY <1>2, <1>3, PickedOfOne
    <3>2. DOMAIN deployed \subseteq 1 .. 1
      BY <1>1, <3>1
    <3> QED
      BY <3>2
  <2> HIDE DEF hit, deployed, rules
  <2>3. IsSeq(matched)
    BY <2>2, PickedIs
  <2>4. matched = <<>> <=> DOMAIN matched = {}
    BY <2>3, FirstIs
  <2> HIDE DEF matched
  <2>5. MatchesFor(rules, event) = <<>> <=> DOMAIN MatchesFor(rules, event) = {}
    <3>1. MatchesFor(rules, event) = [i \in DOMAIN matched |-> MatchesFor(rules, event)[i]]
      BY DEF MatchesFor, matched, hit, deployed
    <3> QED
      BY <3>1
  <2> QED
    BY <2>1, <2>4, <2>5
<1>7. CASE keeps
  <2>1. deployed = rules
    BY <1>2, <1>3, <1>7, PickedOfOne
  <2>2. hit \subseteq {1} /\ (1 \in hit <=> RuleIndicators(HttpRule, event) # {})
    BY <1>1, <2>1
  <2>3. matched # <<>> <=> RuleIndicators(HttpRule, event) # {}
    BY <2>1, <2>2, PickedOfOne
  <2> QED
    BY <1>4, <1>6, <2>3, IndicatorsMean
<1>8. CASE ~keeps
  <2>1. deployed = <<>>
    BY <1>2, <1>3, <1>8, PickedOfOne
  <2>2. hit = {}
    BY <2>1
  <2>3. matched = <<>>
    <3>1. hit \subseteq 1 .. 0
      BY <2>2
    <3> HIDE DEF hit, deployed
    <3> QED
      BY <2>2, <3>1, PickedIs
  <2>4. RuleIndicators(HttpRule, event) = {}
    BY <1>4, <1>5, <1>8, IndicatorsMean
  <2> QED
    BY <1>4, <1>6, <2>3, <2>4, IndicatorsMean
<1> QED
  BY <1>7, <1>8

-------------------------------------------------------------------------------
(* Shell commands.                                                           *)

\* A payload has three groups.
IsPayload(m) == m = [processes |-> m.processes, contains |-> m.contains, regexes |-> m.regexes]

LEMMA PayloadAsks ==
  ASSUME NEW m, IsPayload(m)
  PROVE  m # NoMatch <=> m.processes # {} \/ m.contains # {} \/ m.regexes # {}
  BY DEF IsPayload, NoMatch

LEMMA KeywordsMean ==
  ASSUME NEW selection, NEW c \in Commands, TranslatedWhole(selection), selection.shape = "keywords"
  PROVE  /\ IsPayload(MatchFromSigmaSelection(selection))
         /\ CommandHas(c, MatchFromSigmaSelection(selection)) <=> ShellHolds(selection, c)
<1> DEFINE match == MatchFromSigmaSelection(selection)
           asked == {Regex("keyword", v) : v \in selection.values}
<1>1. match = [processes |-> {}, contains |-> {}, regexes |-> asked]
  BY DEF MatchFromSigmaSelection, NoMatch
<1>2. match # NoMatch
  BY DEF TranslatedWhole
<1> HIDE DEF match
<1>3. \A v : c \in Regex("keyword", v) <=> <<"keyword", v>> \in c.facts
  BY DEF Regex
<1>4. asked # {}
  BY <1>1, <1>2 DEF NoMatch
<1>5. c \in UNION asked <=> \E v \in selection.values : <<"keyword", v>> \in c.facts
  BY <1>3
<1> HIDE DEF asked
<1> QED
  BY <1>1, <1>2, <1>4, <1>5 DEF CommandHas, ShellHolds, match, IsPayload

\* A selection translated whole asks for one field of each part, of all of them.
LEMMA FieldsMean ==
  ASSUME NEW selection, NEW c \in Commands, TranslatedWhole(selection), selection.shape # "keywords"
  PROVE  /\ IsPayload(MatchFromSigmaSelection(selection))
         /\ CommandHas(c, MatchFromSigmaSelection(selection)) <=> ShellHolds(selection, c)
<1> DEFINE match == MatchFromSigmaSelection(selection)
           of(name) == {f \in selection.fields : f.field = name}
           lines(modifiers) == {f \in of("line") : f.modifier \in modifiers}
           args == {f.values : f \in of("arg")}
           singly == {"re", "startswith", "endswith", "is"}
           processes == UNION {f.values : f \in of("a0") \cup of("process")}
           contains == UNION {f.values : f \in lines({"contains"})}
           all == {ContainsAllRegex(f.values) : f \in lines({"contains all"})}
           single == UNION {{Regex(f.modifier, v) : v \in f.values} : f \in lines(singly)}
           each == IF args = {} THEN {} ELSE {ContainsEachGroupRegex(args)}
           regexes == all \cup single \cup each
           part(p) == {f \in selection.fields : PayloadPart(f) = p}
           hold(p) == \A f \in part(p) : CommandFieldHolds(f, c)
<1>1. match # NoMatch
  BY DEF TranslatedWhole
<1>2. \A f \in selection.fields : ~UnsupportedField(f)
  BY <1>1 DEF MatchFromSigmaSelection
<1>3. match = [processes |-> processes, contains |-> contains, regexes |-> regexes]
  <2> DEFINE payload == [processes |-> processes, contains |-> contains, regexes |-> regexes]
  <2>1. match = IF selection.shape = "keywords"
                  THEN [NoMatch EXCEPT !.regexes = {Regex("keyword", v) : v \in selection.values}]
                ELSE IF \E f \in selection.fields : UnsupportedField(f) THEN NoMatch
                ELSE payload
    BY Zenon DEF MatchFromSigmaSelection
  <2> HIDE DEF payload, match
  <2>2. match = payload
    BY <1>2, <2>1
  <2> QED
    BY <2>2 DEF payload
<1>4. \A f \in selection.fields : f.values # {}
  BY <1>2 DEF UnsupportedField
<1>5. \A f, g \in selection.fields :
        PayloadPart(f) = PayloadPart(g) =>
          f = g \/ PayloadPart(f) = "none" \/ (f.field = "arg" /\ g.field = "arg")
  BY DEF TranslatedWhole
<1>6. \A f \in selection.fields : PayloadPart(f) # "lost"
  BY DEF TranslatedWhole
<1>7. \A f : /\ PayloadPart(f) = "processes" <=> f.field \in {"a0", "process"}
             /\ PayloadPart(f) = "contains" <=> f.field = "line" /\ f.modifier = "contains"
             /\ PayloadPart(f) = "regexes" <=>
                  \/ f.field = "line" /\ f.modifier \in {"contains all"} \cup singly
                  \/ f.field = "arg"
             /\ PayloadPart(f) = "none" => f.field = "type"
             /\ PayloadPart(f) \in {"processes", "contains", "regexes", "none", "lost"}
  BY DEF PayloadPart
<1>8. \A modifier, v : c \in Regex(modifier, v) <=> <<modifier, v>> \in c.facts
  BY DEF Regex
<1>9. ShellHolds(selection, c) <=> hold("processes") /\ hold("contains") /\ hold("regexes")
  <2>1. ShellHolds(selection, c) <=> \A f \in selection.fields : CommandFieldHolds(f, c)
    BY DEF ShellHolds
  <2>2. \A f \in selection.fields : PayloadPart(f) = "none" => CommandFieldHolds(f, c)
    BY <1>7 DEF CommandFieldHolds
  <2> QED
    BY <2>1, <2>2, <1>6, <1>7
<1> HIDE DEF match
<1>10. (processes # {} => c.process \in processes) <=> hold("processes")
  <2>1. part("processes") = of("a0") \cup of("process")
    BY <1>7
  <2>2. \A f \in part("processes") : CommandFieldHolds(f, c) <=> c.process \in f.values
    BY <2>1 DEF CommandFieldHolds
  <2>3. \A f, g \in part("processes") : f = g
    BY <1>5, <2>1
  <2>4. processes = UNION {f.values : f \in part("processes")}
    BY <2>1
  <2>5. \A f \in part("processes") : f.values # {}
    BY <1>4
  <2> HIDE DEF part, processes
  <2>6. CASE part("processes") = {}
    BY <2>4, <2>6
  <2>7. CASE part("processes") # {}
    <3>1. PICK f : part("processes") = {f}
      BY <2>3, <2>7
    <3>2. processes = f.values /\ f.values # {}
      BY <2>4, <2>5, <3>1
    <3> QED
      BY <2>2, <3>1, <3>2
  <2> QED
    BY <2>6, <2>7
<1>11. (contains # {} => \E v \in contains : c \in Regex("contains", v)) <=> hold("contains")
  <2>1. part("contains") = lines({"contains"})
    BY <1>7
  <2>2. \A f \in part("contains") :
          CommandFieldHolds(f, c) <=> \E v \in f.values : c \in Regex("contains", v)
    BY <1>8, <2>1 DEF CommandFieldHolds
  <2>3. \A f, g \in part("contains") : f = g
    BY <1>5, <2>1
  <2>4. contains = UNION {f.values : f \in part("contains")}
    BY <2>1
  <2>5. \A f \in part("contains") : f.values # {}
    BY <1>4
  <2> HIDE DEF part, contains
  <2>6. CASE part("contains") = {}
    BY <2>4, <2>6
  <2>7. CASE part("contains") # {}
    <3>1. PICK f : part("contains") = {f}
      BY <2>3, <2>7
    <3>2. contains = f.values /\ f.values # {}
      BY <2>4, <2>5, <3>1
    <3> QED
      BY <2>2, <3>1, <3>2
  <2> QED
    BY <2>6, <2>7
<1>12. (regexes # {} => c \in UNION regexes) <=> hold("regexes")
  <2>0. regexes = all \cup single \cup each
    OBVIOUS
  <2>1. part("regexes") = lines({"contains all"}) \cup lines(singly) \cup of("arg")
    BY <1>7
  <2>2. \A f, g \in part("regexes") : f = g \/ (f.field = "arg" /\ g.field = "arg")
    BY <1>5, <2>1
  <2>3. CASE part("regexes") = {}
    <3>1. all = {} /\ single = {} /\ each = {}
      BY <2>1, <2>3
    <3> QED
      BY <2>0, <2>3, <3>1
  <2>4. CASE \E f \in part("regexes") : f.field # "arg"
    <3>1. PICK f \in part("regexes") : f.field # "arg"
      BY <2>4
    <3>2. part("regexes") = {f}
      BY <2>2, <3>1
    <3>3. args = {}
      BY <2>1, <3>1, <3>2
    <3>4. f.field = "line" /\ f.values # {}
      BY <1>4, <2>1, <3>1
    <3>5. CASE f.modifier = "contains all"
      <4>1. lines({"contains all"}) = {f} /\ lines(singly) = {}
        BY <2>1, <3>2, <3>4, <3>5
      <4>2. regexes = {ContainsAllRegex(f.values)}
        BY <2>0, <3>3, <4>1
      <4>3. c \in ContainsAllRegex(f.values) <=> CommandFieldHolds(f, c)
        BY <1>8, <3>4, <3>5 DEF ContainsAllRegex, CommandFieldHolds
      <4> HIDE DEF regexes, part
      <4> QED
        BY <3>2, <4>2, <4>3
    <3>6. CASE f.modifier # "contains all"
      <4>1. lines({"contains all"}) = {} /\ lines(singly) = {f}
        BY <2>1, <3>2, <3>4, <3>6
      <4>2. regexes = {Regex(f.modifier, v) : v \in f.values}
        <5>1. all = {} /\ each = {}
          BY <3>3, <4>1
        <5>2. single = {Regex(f.modifier, v) : v \in f.values}
          <6>1. single = UNION {{Regex(g.modifier, v) : v \in g.values} : g \in {f}}
            BY <4>1
          <6> HIDE DEF single
          <6> QED
            BY <6>1
        <5> HIDE DEF all, single, each
        <5> QED
          BY <2>0, <5>1, <5>2
      <4>3. (\E v \in f.values : c \in Regex(f.modifier, v)) <=> CommandFieldHolds(f, c)
        BY <1>8, <3>4, <3>6 DEF CommandFieldHolds
      <4> HIDE DEF regexes, part
      <4>4. regexes # {} /\ (c \in UNION regexes <=> \E v \in f.values : c \in Regex(f.modifier, v))
        BY <3>4, <4>2
      <4> QED
        BY <3>2, <4>3, <4>4
    <3> QED
      BY <3>5, <3>6
  <2>5. CASE part("regexes") # {} /\ \A f \in part("regexes") : f.field = "arg"
    <3>1. all = {} /\ single = {}
      BY <2>1, <2>5
    <3>2. part("regexes") = of("arg")
      BY <2>1, <2>5
    <3>3. args # {} /\ args = {f.values : f \in part("regexes")}
      BY <2>5, <3>2
    <3>4. regexes = {ContainsEachGroupRegex(args)}
      BY <2>0, <3>1, <3>3
    <3>5. \A f \in part("regexes") :
            CommandFieldHolds(f, c) <=> \E v \in f.values : c \in Regex("contains", v)
      BY <1>8, <2>5 DEF CommandFieldHolds
    <3> HIDE DEF regexes, part, args
    <3>6. c \in ContainsEachGroupRegex(args) <=> hold("regexes")
      BY <3>3, <3>5 DEF ContainsEachGroupRegex
    <3> QED
      BY <3>4, <3>6
  <2> HIDE DEF part, regexes
  <2> QED
    BY <2>3, <2>4, <2>5
<1> HIDE DEF processes, contains, regexes, hold
<1>13. /\ match.processes = processes /\ match.contains = contains /\ match.regexes = regexes
       /\ IsPayload(match)
  BY <1>3 DEF IsPayload
<1> QED
  BY <1>1, <1>9, <1>10, <1>11, <1>12, <1>13 DEF CommandHas, match

\* A selection translated whole is asked for as it is meant.
LEMMA SelectionMeans ==
  ASSUME NEW selection, NEW c \in Commands, TranslatedWhole(selection)
  PROVE  /\ IsPayload(MatchFromSigmaSelection(selection))
         /\ CommandHas(c, MatchFromSigmaSelection(selection)) <=> ShellHolds(selection, c)
  BY KeywordsMean, FieldsMean

\* What is merged asks for what everything asks for.
LEMMA MergedMeans ==
  ASSUME NEW matches, IsFiniteSet(matches), NEW c \in Commands, matches # {},
         \A m \in matches : IsPayload(m) /\ m # NoMatch
  PROVE  /\ IsPayload(MergeMatchPayloads(matches))
         /\ CommandHas(c, MergeMatchPayloads(matches)) <=> \A m \in matches : CommandHas(c, m)
<1> DEFINE merged == MergeMatchPayloads(matches)
           named == {m \in matches : m.processes # {}}
           processes == {p \in UNION {m.processes : m \in named} :
                           \A m \in named : p \in m.processes}
           contains == {m.contains : m \in matches} \ {{}}
           regexes == {m.regexes : m \in matches} \ {{}}
           simple == Cardinality(contains) = 1 /\ regexes = {}
           hasProcess(m) == m.processes # {} => c.process \in m.processes
           hasLine(m) == /\ m.contains # {} => \E v \in m.contains : c \in Regex("contains", v)
                         /\ m.regexes # {} => c \in UNION m.regexes
<1>1. \A m \in matches : CommandHas(c, m) <=> hasProcess(m) /\ hasLine(m)
  BY DEF CommandHas
<1>2. (\A m \in matches : hasProcess(m)) <=> \A m \in named : c.process \in m.processes
  OBVIOUS
<1>3. named # {} => (c.process \in processes <=> \A m \in named : c.process \in m.processes)
  OBVIOUS
<1>4. CASE named # {} /\ processes = {}
  <2>1. merged = NoMatch
    BY <1>4 DEF MergeMatchPayloads
  <2>2. ~CommandHas(c, merged) /\ IsPayload(merged)
    BY <2>1 DEF CommandHas, IsPayload, NoMatch
  <2> QED
    BY <1>1, <1>2, <1>3, <1>4, <2>2
<1>5. CASE ~(named # {} /\ processes = {})
  <2>1. merged = [processes |-> processes,
                  contains |-> IF simple THEN UNION contains ELSE {},
                  regexes |-> IF ~simple /\ contains \cup regexes # {}
                                THEN {CombinedCommandLineRegex(matches)} ELSE {}]
    BY <1>5 DEF MergeMatchPayloads
  <2>2. (merged.processes # {} => c.process \in merged.processes) <=>
          \A m \in matches : hasProcess(m)
    BY <1>2, <1>3, <1>5, <2>1
  <2>3. named # {} \/ contains \cup regexes # {}
    <3>1. PICK m \in matches : TRUE
      OBVIOUS
    <3>2. m.processes # {} \/ m.contains # {} \/ m.regexes # {}
      BY PayloadAsks
    <3> QED
      BY <3>2
  <2>4. named # {} => merged.processes # {}
    BY <1>5, <2>1
  <2>5. (\A m \in matches : hasLine(m)) <=> c \in CombinedCommandLineRegex(matches)
    BY DEF CombinedCommandLineRegex
  <2>6. CASE simple
    <3>1. IsFiniteSet(contains)
      <4> DEFINE lists == {m.contains : m \in matches}
                 f == [m \in matches |-> m.contains]
      <4>1. f \in Surjection(matches, lists)
        BY DEF Surjection
      <4> HIDE DEF f, lists
      <4>2. IsFiniteSet(lists)
        BY <4>1, FS_Surjection
      <4> QED
        BY <4>2, FS_Subset DEF lists
    <3> HIDE DEF contains
    <3>2. PICK k : contains = {k}
      BY <2>6, <3>1, FS_Singleton
    <3> USE DEF contains
    <3>3. k # {} /\ merged.contains = k /\ merged.regexes = {}
      <4>1. UNION {k} = k
        OBVIOUS
      <4> HIDE DEF regexes, processes
      <4> QED
        BY <2>1, <2>6, <3>2, <4>1
    <3>4. \A m \in matches : m.regexes = {} /\ m.contains \in {{}, k}
      BY <2>6, <3>2
    <3>5. \E m \in matches : m.contains = k
      BY <3>2
    <3>6. (\A m \in matches : hasLine(m)) <=> \E v \in k : c \in Regex("contains", v)
      BY <3>3, <3>4, <3>5
    <3> HIDE DEF hasLine, hasProcess
    <3>7. merged # NoMatch
      BY <3>3 DEF NoMatch
    <3>8. CommandHas(c, merged) <=> /\ merged.processes # {} => c.process \in merged.processes
                                    /\ \E v \in k : c \in Regex("contains", v)
      BY <3>3, <3>7 DEF CommandHas
    <3>9. IsPayload(merged)
      BY <2>1 DEF IsPayload
    <3> HIDE DEF merged
    <3> QED
      BY <1>1, <2>2, <3>6, <3>8, <3>9 DEF merged
  <2>7. CASE ~simple /\ contains \cup regexes # {}
    <3> DEFINE combined == CombinedCommandLineRegex(matches)
    <3>1. merged.contains = {} /\ merged.regexes = {combined}
      <4> HIDE DEF simple, processes, combined
      <4> QED
        BY <2>1, <2>7 DEF combined
    <3> HIDE DEF hasLine, hasProcess
    <3>7. merged # NoMatch
      BY <3>1 DEF NoMatch
    <3>8. CommandHas(c, merged) <=> /\ merged.processes # {} => c.process \in merged.processes
                                    /\ c \in combined
      BY <3>1, <3>7 DEF CommandHas
    <3>9. IsPayload(merged)
      BY <2>1 DEF IsPayload
    <3> HIDE DEF merged
    <3> QED
      BY <1>1, <2>2, <2>5, <3>8, <3>9 DEF merged
  <2>8. CASE ~simple /\ contains \cup regexes = {}
    <3>1. merged.contains = {} /\ merged.regexes = {}
      <4> HIDE DEF simple, processes
      <4> QED
        BY <2>1, <2>8
    <3>2. \A m \in matches : m.contains = {} /\ m.regexes = {}
      BY <2>8
    <3>3. \A m \in matches : hasLine(m)
      BY <3>2
    <3>4. merged.processes # {}
      BY <2>3, <2>4, <2>8
    <3> HIDE DEF hasLine, hasProcess
    <3>7. merged # NoMatch
      BY <3>4 DEF NoMatch
    <3>8. CommandHas(c, merged) <=> (merged.processes # {} => c.process \in merged.processes)
      BY <3>1, <3>7 DEF CommandHas
    <3>9. IsPayload(merged)
      BY <2>1 DEF IsPayload
    <3> HIDE DEF merged
    <3> QED
      BY <1>1, <2>2, <3>3, <3>8, <3>9 DEF merged
  <2> QED
    BY <2>6, <2>7, <2>8
<1> QED
  BY <1>4, <1>5

\* One exclusion at most is merged to itself.
LEMMA ExcludedMeans ==
  /\ MergeOrMatchPayloads({}) = NoMatch
  /\ \A m : IsPayload(m) => MergeOrMatchPayloads({m}) = m
<1>1. MergeOrMatchPayloads({}) = NoMatch
  BY DEF MergeOrMatchPayloads, NoMatch
<1>2. ASSUME NEW m, IsPayload(m) PROVE MergeOrMatchPayloads({m}) = m
  <2>1. /\ UNION {x.processes : x \in {m}} = m.processes
        /\ UNION {x.contains : x \in {m}} = m.contains
        /\ UNION {x.regexes : x \in {m}} = m.regexes
    OBVIOUS
  <2>2. MergeOrMatchPayloads({m}) =
          [processes |-> m.processes, contains |-> m.contains, regexes |-> m.regexes]
    BY <2>1 DEF MergeOrMatchPayloads
  <2> QED
    BY <1>2, <2>2 DEF IsPayload
<1> QED
  BY <1>1, <1>2

\* The selections of a rule are translated whole, and no branch excludes two.
Translated(detection) ==
  /\ \A n \in NamedSelections(detection) : TranslatedWhole(detection.selections[n])
  /\ \A b \in DOMAIN detection.condition : \A i, j \in DOMAIN detection.condition[b] :
       detection.condition[b][i].negated /\ detection.condition[b][j].negated => i = j

\* What a plan excludes is excluded alone.
LEMMA OneExcluded ==
  ASSUME NEW detection, Regular(detection), Translated(detection),
         NEW p \in SelectionPlans(detection)
  PROVE  p.negatives = {} \/ \E n : p.negatives = {n}
<1> DEFINE names == NamedSelections(detection)
<1>1. PICK branch \in ToSet(detection.condition) :
        p.negatives = UNION {NegatedNames(t, names) : t \in {u \in ToSet(branch) : u.negated}}
  BY PlansAre
<1>2. \A t \in ToSet(branch) : t.negated => \E n \in names : NegatedNames(t, names) = {n}
  BY BranchTerms DEF NegatedNames
<1>3. \A t, u \in ToSet(branch) : t.negated /\ u.negated => t = u
  BY DEF Translated, ToSet
<1>4. CASE \E t \in ToSet(branch) : t.negated
  <2>1. PICK t \in ToSet(branch) : t.negated
    BY <1>4
  <2>2. {u \in ToSet(branch) : u.negated} = {t}
    BY <1>3, <2>1
  <2>3. p.negatives = NegatedNames(t, names)
    BY <1>1, <2>2
  <2> QED
    BY <1>2, <2>1, <2>3
<1>5. CASE ~ \E t \in ToSet(branch) : t.negated
  BY <1>1, <1>5
<1> QED
  BY <1>4, <1>5

\* The payload of a plan, and the one of what it excludes, as they are meant.
LEMMA PlanMeans ==
  ASSUME NEW rule, Regular(rule.detection), Translated(rule.detection),
         NEW p \in SelectionPlans(rule.detection), NEW c \in Commands
  PROVE  LET names == NamedSelections(rule.detection)
             truth == [n \in names |-> ShellHolds(rule.detection.selections[n], c)]
             match(n) == MatchFromSigmaSelection(rule.detection.selections[n])
             merged == MergeMatchPayloads({match(n) : n \in p.positives})
             excluded == MergeOrMatchPayloads({match(n) : n \in p.negatives})
         IN  /\ NoMatch \notin {match(n) : n \in p.positives \cup p.negatives}
             /\ CommandHas(c, merged) => merged # NoMatch
             /\ CommandHas(c, merged) /\ ~CommandHas(c, excluded) <=> Fires(p, truth)
<1> DEFINE names == NamedSelections(rule.detection)
           truth == [n \in names |-> ShellHolds(rule.detection.selections[n], c)]
           match(n) == MatchFromSigmaSelection(rule.detection.selections[n])
           asked == {match(n) : n \in p.positives}
           merged == MergeMatchPayloads(asked)
           excluded == MergeOrMatchPayloads({match(n) : n \in p.negatives})
<1>1. p.positives # {} /\ p.positives \subseteq names /\ p.negatives \subseteq names
  BY PlansAre
<1>2. \A n \in names : /\ IsPayload(match(n)) /\ match(n) # NoMatch
                       /\ CommandHas(c, match(n)) <=> truth[n]
  BY SelectionMeans DEF Translated, TranslatedWhole
<1>3. IsFiniteSet(names)
  BY DEF Regular
<1>4. p.negatives = {} \/ \E n : p.negatives = {n}
  BY OneExcluded
<1> HIDE DEF names, truth, match
<1>5. IsFiniteSet(asked)
  <2> DEFINE f == [n \in p.positives |-> match(n)]
             image == {match(n) : n \in p.positives}
  <2>1. f \in Surjection(p.positives, image)
    BY DEF Surjection
  <2> HIDE DEF f, image
  <2>2. IsFiniteSet(p.positives)
    BY <1>1, <1>3, FS_Subset
  <2>3. IsFiniteSet(image)
    BY <2>1, <2>2, FS_Surjection
  <2> QED
    BY <2>3 DEF image
<1>6. asked # {} /\ \A m \in asked : IsPayload(m) /\ m # NoMatch
  BY <1>1, <1>2
<1>7. CommandHas(c, merged) <=> \A m \in asked : CommandHas(c, m)
  <2> HIDE DEF asked
  <2> QED
    BY <1>5, <1>6, MergedMeans
<1>8. CommandHas(c, merged) <=> \A n \in p.positives : truth[n]
  <2> HIDE DEF merged
  <2> QED
    BY <1>1, <1>2, <1>7
<1>9. CommandHas(c, excluded) <=> ~ \A n \in p.negatives : ~truth[n]
  <2>1. CASE p.negatives = {}
    <3>1. excluded = NoMatch
      BY <2>1, ExcludedMeans
    <3> QED
      BY <2>1, <3>1 DEF CommandHas
  <2>2. CASE \E n : p.negatives = {n}
    <3>1. PICK n : p.negatives = {n}
      BY <2>2
    <3>2. n \in names /\ {match(k) : k \in p.negatives} = {match(n)}
      BY <1>1, <3>1
    <3>3. excluded = match(n)
      BY <1>2, <3>2, ExcludedMeans
    <3> HIDE DEF excluded
    <3> QED
      BY <1>2, <3>1, <3>2, <3>3
  <2> QED
    BY <1>4, <2>1, <2>2
<1>10. CommandHas(c, merged) => merged # NoMatch
  BY DEF CommandHas
<1>11. NoMatch \notin {match(n) : n \in p.positives \cup p.negatives}
  BY <1>1, <1>2
<1> HIDE DEF merged, excluded, asked
<1>12. CommandHas(c, merged) /\ ~CommandHas(c, excluded) <=> Fires(p, truth)
  BY <1>8, <1>9 DEF Fires
<1> QED
  BY <1>10, <1>11, <1>12 DEF names, truth, match, asked, merged, excluded

\* The rules made of a Sigma rule match the commands for which its condition holds.
LEMMA CommandRulesMean ==
  ASSUME NEW rule, Regular(rule.detection), Translated(rule.detection), NEW c \in Commands,
         AttackTechniques(rule.tags) # {}
  PROVE  (\E r \in SigmaCommandRules(rule) : CommandMatchesRule(c, r)) <=>
           ConditionHolds(rule.detection.condition,
                          [n \in NamedSelections(rule.detection) |->
                             ShellHolds(rule.detection.selections[n], c)])
<1> DEFINE names == NamedSelections(rule.detection)
           plans == SelectionPlans(rule.detection)
           truth == [n \in names |-> ShellHolds(rule.detection.selections[n], c)]
           match(n) == MatchFromSigmaSelection(rule.detection.selections[n])
           merged(p) == MergeMatchPayloads({match(n) : n \in p.positives})
           excluded(p) == MergeOrMatchPayloads({match(n) : n \in p.negatives})
           made(p, t) == [name |-> <<rule.name, p, t>>, technique |-> t,
                          confidence |-> ConfidenceFromSigmaLevel(rule.level),
                          match |-> merged(p), excluded |-> excluded(p)]
           usable == {p \in plans :
                        /\ NoMatch \notin {match(n) : n \in p.positives \cup p.negatives}
                        /\ merged(p) # NoMatch}
           techniques == AttackTechniques(rule.tags)
<1>1. \A r : r \in SigmaCommandRules(rule) <=> \E p \in usable, t \in techniques : r = made(p, t)
  BY DEF SigmaCommandRules
<1>2. \A p \in plans : /\ NoMatch \notin {match(n) : n \in p.positives \cup p.negatives}
                       /\ CommandHas(c, merged(p)) => merged(p) # NoMatch
                       /\ (CommandHas(c, merged(p)) /\ ~CommandHas(c, excluded(p)))
                            <=> Fires(p, truth)
  BY PlanMeans
<1>3. truth \in [names -> BOOLEAN]
  <2>1. \A n \in names : ShellHolds(rule.detection.selections[n], c) \in BOOLEAN
    BY DEF ShellHolds, CommandFieldHolds
  <2> QED
    BY <2>1
<1>4. (\E p \in plans : Fires(p, truth)) <=> ConditionHolds(rule.detection.condition, truth)
  BY <1>3, PlansMean
<1>5. \A p, t : CommandMatchesRule(c, made(p, t)) <=>
                  CommandHas(c, merged(p)) /\ ~CommandHas(c, excluded(p))
  BY DEF CommandMatchesRule
<1>6. \A p : p \in usable <=>
        /\ p \in plans /\ merged(p) # NoMatch
        /\ NoMatch \notin {match(n) : n \in p.positives \cup p.negatives}
  OBVIOUS
<1> HIDE DEF plans, truth, usable, made, merged, excluded, techniques
<1>7. (\E r \in SigmaCommandRules(rule) : CommandMatchesRule(c, r)) <=>
        \E p \in usable, t \in techniques : CommandMatchesRule(c, made(p, t))
  BY <1>1
<1>8. \E t : t \in techniques
  BY DEF techniques
<1>9. (\E r \in SigmaCommandRules(rule) : CommandMatchesRule(c, r)) <=>
        \E p \in plans : Fires(p, truth)
  BY <1>2, <1>5, <1>6, <1>7, <1>8
<1> QED
  BY <1>4, <1>9 DEF truth

\* They are finitely many, and one of each name and technique.
LEMMA CommandRulesAre ==
  ASSUME NEW rule, Regular(rule.detection), IsFiniteSet(AttackTechniques(rule.tags))
  PROVE  /\ IsFiniteSet(SigmaCommandRules(rule))
         /\ \A r, s \in SigmaCommandRules(rule) : r.name = s.name => r = s
         /\ \A r \in SigmaCommandRules(rule) :
              r = [name |-> r.name, technique |-> r.technique, confidence |-> r.confidence,
                   match |-> r.match, excluded |-> r.excluded]
<1> DEFINE names == NamedSelections(rule.detection)
           techniques == AttackTechniques(rule.tags)
           match(n) == MatchFromSigmaSelection(rule.detection.selections[n])
           merged(p) == MergeMatchPayloads({match(n) : n \in p.positives})
           excluded(p) == MergeOrMatchPayloads({match(n) : n \in p.negatives})
           made(p, t) == [name |-> <<rule.name, p, t>>, technique |-> t,
                          confidence |-> ConfidenceFromSigmaLevel(rule.level),
                          match |-> merged(p), excluded |-> excluded(p)]
           rules == SigmaCommandRules(rule)
           named == ((SUBSET names) \X (SUBSET names)) \X techniques
           key(r) == <<<<r.name[2].positives, r.name[2].negatives>>, r.name[3]>>
<1>1. \A r \in rules : \E p \in SelectionPlans(rule.detection), t \in techniques : r = made(p, t)
  <2> DEFINE usable == {p \in SelectionPlans(rule.detection) :
                          /\ NoMatch \notin {match(n) : n \in p.positives \cup p.negatives}
                          /\ merged(p) # NoMatch}
  <2>1. \A r : r \in rules <=> \E p \in usable, t \in techniques : r = made(p, t)
    BY DEF SigmaCommandRules
  <2>2. usable \subseteq SelectionPlans(rule.detection)
    OBVIOUS
  <2> HIDE DEF usable, made, techniques, rules
  <2> QED
    BY <2>1, <2>2
<1> HIDE DEF rules, merged, excluded
<1>2. \A p, t : /\ made(p, t).name = <<rule.name, p, t>>
                /\ made(p, t) = [name |-> made(p, t).name, technique |-> made(p, t).technique,
                                 confidence |-> made(p, t).confidence,
                                 match |-> made(p, t).match, excluded |-> made(p, t).excluded]
  OBVIOUS
<1> HIDE DEF made
<1>3. \A r, s \in rules : r.name = s.name => r = s
  <2> SUFFICES ASSUME NEW r \in rules, NEW s \in rules, r.name = s.name PROVE r = s
    OBVIOUS
  <2>1. PICK p, t : r = made(p, t)
    BY <1>1
  <2>2. PICK q, u : s = made(q, u)
    BY <1>1
  <2>3. p = q /\ t = u
    BY <1>2, <2>1, <2>2
  <2> QED
    BY <2>1, <2>2, <2>3
<1>4. \A r \in rules : r = [name |-> r.name, technique |-> r.technique, confidence |-> r.confidence,
                            match |-> r.match, excluded |-> r.excluded]
  BY <1>1, <1>2
<1>5. \A r \in rules :
        /\ r.name = <<r.name[1], r.name[2], r.name[3]>> /\ r.name[1] = rule.name
        /\ r.name[2] = [positives |-> r.name[2].positives, negatives |-> r.name[2].negatives]
        /\ key(r) \in named
  <2> TAKE r \in rules
  <2>1. PICK p \in SelectionPlans(rule.detection), t \in techniques : r.name = <<rule.name, p, t>>
    BY <1>1, <1>2
  <2>2. /\ p = [positives |-> p.positives, negatives |-> p.negatives]
        /\ p.positives \subseteq names /\ p.negatives \subseteq names
    BY PlansAre
  <2>3. r.name[1] = rule.name /\ r.name[2] = p /\ r.name[3] = t
    BY <2>1
  <2>4. r.name = <<r.name[1], r.name[2], r.name[3]>>
    BY <2>1, <2>3
  <2>5. r.name[2] = [positives |-> r.name[2].positives, negatives |-> r.name[2].negatives]
    BY <2>2, <2>3
  <2>6. /\ r.name[2].positives \in SUBSET names /\ r.name[2].negatives \in SUBSET names
        /\ r.name[3] \in techniques
    BY <2>2, <2>3
  <2>7. key(r) \in named
    BY <2>6
  <2> QED
    BY <2>3, <2>4, <2>5, <2>7
<1>6. \A r, s \in rules : key(r) = key(s) => r = s
  <2> TAKE r, s \in rules
  <2> HAVE key(r) = key(s)
  <2>1. /\ r.name[2].positives = s.name[2].positives /\ r.name[2].negatives = s.name[2].negatives
        /\ r.name[3] = s.name[3]
    OBVIOUS
  <2>2. r.name = s.name
    BY <1>5, <2>1
  <2> QED
    BY <1>3, <2>2
<1>7. IsFiniteSet(names)
  BY DEF Regular
<1> HIDE DEF names, techniques, key
<1>8. IsFiniteSet(named)
  <2>1. IsFiniteSet(SUBSET names)
    BY <1>7, FS_SUBSET
  <2> HIDE DEF named
  <2>2. IsFiniteSet((SUBSET names) \X (SUBSET names))
    BY <2>1, FS_Product
  <2> QED
    BY <2>2, FS_Product DEF named, techniques
<1> DEFINE f == [r \in rules |-> key(r)]
<1> HIDE DEF named
<1>9. f \in Injection(rules, named)
  BY <1>5, <1>6 DEF Injection, IsInjective
<1>10. IsFiniteSet(rules)
  BY <1>8, <1>9, FS_Injection
<1> QED
  BY <1>3, <1>4, <1>10 DEF rules

LEMMA SetInSequence ==
  ASSUME NEW S, IsFiniteSet(S)
  PROVE  LET s == SetToSeq(S)
         IN  IsSeq(s) /\ ToSet(s) = S /\ \A i, j \in DOMAIN s : s[i] = s[j] => i = j
<1> DEFINE c == Cardinality(S)
           s == SetToSeq(S)
<1>1. c \in Nat /\ ExistsBijection(1 .. c, S)
  BY FS_CardinalityType
<1>2. \E f \in [1 .. c -> S] : IsInjective(f)
  BY <1>1 DEF ExistsBijection, Bijection, Injection
<1>3. s \in [1 .. c -> S] /\ IsInjective(s)
  BY <1>2 DEF SetToSeq
<1>4. IsFiniteSet(1 .. c) /\ Cardinality(1 .. c) = c
  BY <1>1, FS_Interval
<1>5. s \in Injection(1 .. c, S)
  BY <1>3 DEF Injection
<1> HIDE DEF s
<1>6. s \in Surjection(1 .. c, S)
  BY <1>4, <1>5, FS_Injection DEF c
<1> HIDE DEF c
<1>7. DOMAIN s = 1 .. c /\ ToSet(s) = S
  BY <1>3, <1>6 DEF Surjection, ToSet
<1>8. s \in Seq(S)
  BY <1>1, <1>3
<1>9. \A i, j \in DOMAIN s : s[i] = s[j] => i = j
  BY <1>3 DEF IsInjective
<1> QED
  BY <1>7, <1>8, <1>9 DEF IsSeq, s

LEMMA FlattenOne == ASSUME NEW q PROVE FlattenSeq([i \in DOMAIN <<q>> |-> q]) = q
<1> DEFINE seqs == [i \in DOMAIN <<q>> |-> q]
           step(f) == [i \in 1 .. 1 |-> IF i = 1 THEN seqs[i] ELSE f[i - 1] \o seqs[i]]
           flatten == CHOOSE f : f = step(f)
<1>1. seqs = <<q>> /\ Len(seqs) = 1 /\ seqs[1] = q
  OBVIOUS
<1>2. FlattenSeq(seqs) = flatten[1]
  BY <1>1 DEF FlattenSeq
<1> HIDE DEF seqs
<1>3. [i \in 1 .. 1 |-> q] = step([i \in 1 .. 1 |-> q])
  BY <1>1
<1>4. flatten = step(flatten)
  <2> HIDE DEF step
  <2> QED
    BY <1>3
<1>5. flatten[1] = q
  <2> HIDE DEF flatten
  <2> QED
    BY <1>1, <1>4
<1> QED
  BY <1>2, <1>5 DEF seqs

\* All that is picked of a sequence is the sequence's own.
LEMMA MatchedIs ==
  ASSUME NEW loaded, IsSeq(loaded), NEW c
  PROVE  LET matched == Picked(loaded, {i \in DOMAIN loaded : CommandMatchesRule(c, loaded[i])})
         IN  /\ IsSeq(matched)
             /\ matched # <<>> <=> \E r \in ToSet(loaded) : CommandMatchesRule(c, r)
<1> DEFINE P == {i \in DOMAIN loaded : CommandMatchesRule(c, loaded[i])}
<1>1. Len(loaded) \in Nat /\ P \subseteq 1 .. Len(loaded)
  BY DEF IsSeq
<1>2. P # {} <=> \E r \in ToSet(loaded) : CommandMatchesRule(c, r)
  BY DEF ToSet
<1> HIDE DEF P
<1>3. IsSeq(Picked(loaded, P)) /\ (Picked(loaded, P) = <<>> <=> P = {})
  BY <1>1, PickedIs
<1> QED
  BY <1>2, <1>3 DEF P

\* Loading a catalog loses rules, but not all of them, and none of one whose names differ.
LEMMA LoadedAre ==
  ASSUME NEW rules, IsSeq(rules)
  PROVE  /\ IsSeq(LoadedRules(rules))
         /\ LoadedRules(rules) = <<>> <=> rules = <<>>
         /\ (\A i, j \in DOMAIN rules : rules[i].name = rules[j].name => i = j)
              => ToSet(LoadedRules(rules)) = ToSet(rules)
<1> DEFINE keys == [i \in DOMAIN rules |-> <<rules[i].name, rules[i].technique>>]
           kept == {i \in DOMAIN rules : \A j \in 1 .. (i - 1) : keys[j] # keys[i]}
<1>1. Len(rules) \in Nat /\ DOMAIN rules = 1 .. Len(rules) /\ kept \subseteq 1 .. Len(rules)
  BY DEF IsSeq
<1>2. LoadedRules(rules) = Picked(rules, kept)
  BY DEF LoadedRules, DedupePreserveBy
<1>3. rules # <<>> => 1 \in kept
  <2> SUFFICES ASSUME rules # <<>> PROVE 1 \in kept
    OBVIOUS
  <2>1. 1 \in DOMAIN rules
    BY FirstIs
  <2>2. 1 .. (1 - 1) = {}
    OBVIOUS
  <2> QED
    BY <2>1, <2>2
<1>4. rules = <<>> => kept = {}
  OBVIOUS
<1>5. (\A i, j \in DOMAIN rules : rules[i].name = rules[j].name => i = j) => kept = DOMAIN rules
  <2> SUFFICES ASSUME \A i, j \in DOMAIN rules : rules[i].name = rules[j].name => i = j,
                      NEW i \in DOMAIN rules, NEW j \in 1 .. (i - 1)
               PROVE  keys[j] # keys[i]
    OBVIOUS
  <2>1. j \in DOMAIN rules /\ j # i
    BY <1>1
  <2>2. keys[i] = <<rules[i].name, rules[i].technique>> /\ keys[j] = <<rules[j].name, rules[j].technique>>
    BY <2>1
  <2>3. rules[i].name # rules[j].name
    BY <2>1
  <2> QED
    BY <2>2, <2>3
<1> HIDE DEF kept
<1>6. /\ IsSeq(Picked(rules, kept)) /\ ToSet(Picked(rules, kept)) = {rules[i] : i \in kept}
      /\ Picked(rules, kept) = <<>> <=> kept = {}
  BY <1>1, PickedIs
<1>7. ToSet(rules) = {rules[i] : i \in DOMAIN rules}
  BY DEF ToSet
<1> QED
  BY <1>2, <1>3, <1>4, <1>5, <1>6, <1>7

\* The rules made of one file, in some order, each with a name of its own.
LEMMA ImportedAre ==
  ASSUME NEW rule, Regular(rule.detection), IsFiniteSet(AttackTechniques(rule.tags))
  PROVE  LET rules == ImportSigmaCommandRules(<<rule>>)
         IN  /\ IsSeq(rules)
             /\ \A i, j \in DOMAIN rules : rules[i].name = rules[j].name => i = j
             /\ \A c : (\E r \in ToSet(rules) : CommandMatchesRule(c, r)) <=>
                         \E r \in SigmaCommandRules(rule) : CommandMatchesRule(c, r)
<1> DEFINE made == SigmaCommandRules(rule)
           q == SetToSeq(made)
           files == <<rule>>
           count(i) == Cardinality({j \in 1..i : q[j].name = q[i].name})
           rules == [i \in DOMAIN q |-> [q[i] EXCEPT !.name = <<@, count(i)>>]]
<1>1. /\ IsFiniteSet(made)
      /\ \A r, s \in made : r.name = s.name => r = s
      /\ \A r \in made : r = [name |-> r.name, technique |-> r.technique, confidence |-> r.confidence,
                              match |-> r.match, excluded |-> r.excluded]
  BY CommandRulesAre
<1> HIDE DEF made
<1>2. IsSeq(q) /\ ToSet(q) = made /\ \A i, j \in DOMAIN q : q[i] = q[j] => i = j
  BY <1>1, SetInSequence
<1>3. ImportSigmaCommandRules(files) = rules
  <2>1. \A i \in DOMAIN files : files[i] = rule
    OBVIOUS
  <2>2. [i \in DOMAIN files |-> SetToSeq(SigmaCommandRules(files[i]))] = [i \in DOMAIN <<q>> |-> q]
    BY <2>1 DEF made
  <2> HIDE DEF q, files
  <2>3. FlattenSeq([i \in DOMAIN files |-> SetToSeq(SigmaCommandRules(files[i]))]) = q
    BY <2>2, FlattenOne
  <2> QED
    BY <2>3 DEF ImportSigmaCommandRules, DedupeRuleNames
<1> HIDE DEF q, count
<1>4. \A i \in DOMAIN q : q[i] \in made
  BY <1>2 DEF ToSet
<1>5. ASSUME NEW i \in DOMAIN q
      PROVE  /\ rules[i].name = <<q[i].name, count(i)>>
             /\ rules[i].match = q[i].match /\ rules[i].excluded = q[i].excluded
  <2>1. /\ q[i] = [name |-> q[i].name, technique |-> q[i].technique, confidence |-> q[i].confidence,
                   match |-> q[i].match, excluded |-> q[i].excluded]
    BY <1>1, <1>4
  <2>2. rules[i] = [q[i] EXCEPT !.name = <<q[i].name, count(i)>>]
    OBVIOUS
  <2>3. rules[i] = [name |-> <<q[i].name, count(i)>>, technique |-> q[i].technique,
                    confidence |-> q[i].confidence, match |-> q[i].match, excluded |-> q[i].excluded]
    BY <2>1, <2>2
  <2> HIDE DEF rules
  <2> QED
    BY <2>3
<1>6. DOMAIN rules = DOMAIN q
  OBVIOUS
<1>7. IsSeq(rules)
  <2>1. Len(q) \in Nat /\ DOMAIN q = 1 .. Len(q)
    BY <1>2 DEF IsSeq
  <2>2. rules \in [1 .. Len(q) -> ToSet(rules)]
    BY <2>1 DEF ToSet
  <2> HIDE DEF rules
  <2> QED
    BY <2>1, <2>2 DEF IsSeq
<1> HIDE DEF rules
<1>8. \A i, j \in DOMAIN rules : rules[i].name = rules[j].name => i = j
  <2> SUFFICES ASSUME NEW i \in DOMAIN q, NEW j \in DOMAIN q, rules[i].name = rules[j].name
               PROVE  i = j
    BY <1>6
  <2>1. <<q[i].name, count(i)>> = <<q[j].name, count(j)>>
    BY <1>5
  <2>2. q[i].name = q[j].name
    BY <2>1
  <2> QED
    BY <1>1, <1>2, <1>4, <2>2
<1>9. \A c : (\E r \in ToSet(rules) : CommandMatchesRule(c, r)) <=>
               \E r \in made : CommandMatchesRule(c, r)
  <2> TAKE c
  <2>1. \A i \in DOMAIN q : CommandMatchesRule(c, rules[i]) <=> CommandMatchesRule(c, q[i])
    BY <1>5 DEF CommandMatchesRule
  <2>2. (\E r \in ToSet(rules) : CommandMatchesRule(c, r)) <=>
          \E i \in DOMAIN q : CommandMatchesRule(c, rules[i])
    BY <1>6 DEF ToSet
  <2>3. (\E r \in ToSet(q) : CommandMatchesRule(c, r)) <=>
          \E i \in DOMAIN q : CommandMatchesRule(c, q[i])
    BY DEF ToSet
  <2> QED
    BY <1>2, <2>1, <2>2, <2>3
<1> QED
  BY <1>3, <1>7, <1>8, <1>9 DEF made

\* A command alone on its line, given to the rules made of the rule alone.
LEMMA ShellMeans ==
  ASSUME NEW c \in Commands, Regular(ShellRule.detection), Translated(ShellRule.detection)
  PROVE  MatchCommand(<<>>, <<ShellRule>>, [path |-> <<c.process>>, facts |-> c.facts]) # <<>> <=>
           ConditionHolds(candidate, [n \in NamedSelections(ShellRule.detection) |->
                                        ShellHolds(ShellSelections[n], c)])
<1> DEFINE line == [path |-> <<c.process>>, facts |-> c.facts]
           rules == ImportSigmaCommandRules(<<ShellRule>>)
           loaded == LoadedRules(rules)
           matched == CatalogMatch(rules, line)
<1>1. /\ ShellRule.tags = CandidateTags /\ ShellRule.detection.condition = candidate
      /\ ShellRule.detection.selections = ShellSelections
  BY DEF ShellRule
<1>2. AttackTechniques(CandidateTags) # {} /\ IsFiniteSet(AttackTechniques(CandidateTags))
  <2> DEFINE positions == {i \in DOMAIN CandidateTags : CandidateTags[i].kind = "technique"}
             f == [i \in positions |-> CandidateTags[i].id]
             techniques == AttackTechniques(CandidateTags)
  <2>1. Len(CandidateTags) \in Nat /\ DOMAIN CandidateTags = 1 .. Len(CandidateTags)
    BY DetectionAssumption
  <2>2. IsFiniteSet(1 .. Len(CandidateTags))
    BY <2>1, FS_Interval
  <2>3. positions \subseteq 1 .. Len(CandidateTags)
    BY <2>1
  <2>4. f \in Surjection(positions, techniques)
    BY DEF Surjection, AttackTechniques, ToSet
  <2> HIDE DEF positions, f, techniques
  <2>5. IsFiniteSet(techniques)
    BY <2>2, <2>3, <2>4, FS_Subset, FS_Surjection
  <2> QED
    BY <2>5, DetectionAssumption DEF techniques
<1>3. NormalizeCommand(line) = {c}
  <2>1. line.path # <<>> /\ Last(line.path) = c.process
    BY DEF Last
  <2>2. NormalizeCommand(line) = {[process |-> c.process, facts |-> c.facts]}
    BY <2>1 DEF NormalizeCommand
  <2> QED
    BY <2>2, DetectionAssumption
<1> HIDE DEF line
<1>4. /\ IsSeq(rules)
      /\ \A i, j \in DOMAIN rules : rules[i].name = rules[j].name => i = j
      /\ (\E r \in ToSet(rules) : CommandMatchesRule(c, r)) <=>
           \E r \in SigmaCommandRules(ShellRule) : CommandMatchesRule(c, r)
  BY <1>1, <1>2, ImportedAre
<1> HIDE DEF rules
<1>5. IsSeq(loaded) /\ ToSet(loaded) = ToSet(rules)
  BY <1>4, LoadedAre
<1>6. ASSUME NEW some PROVE
        CatalogMatch(some, line) =
          Picked(LoadedRules(some), {i \in DOMAIN LoadedRules(some) :
                                       CommandMatchesRule(c, LoadedRules(some)[i])})
  BY <1>3 DEF CatalogMatch
<1>7. IsSeq(matched) /\ (matched # <<>> <=> \E r \in ToSet(rules) : CommandMatchesRule(c, r))
  <2> HIDE DEF loaded
  <2>1. matched = Picked(loaded, {i \in DOMAIN loaded : CommandMatchesRule(c, loaded[i])})
    BY <1>6 DEF loaded
  <2> QED
    BY <1>5, <2>1, MatchedIs
<1>8. CatalogMatch(<<>>, line) = <<>>
  <2>1. LoadedRules(<<>>) = <<>>
    BY FewAre, LoadedAre
  <2>2. CatalogMatch(<<>>, line) =
          Picked(<<>>, {i \in DOMAIN <<>> : CommandMatchesRule(c, <<>>[i])})
    BY <1>6, <2>1
  <2>3. ~ \E r \in ToSet(<<>>) : CommandMatchesRule(c, r)
    BY FewAre
  <2> QED
    BY <2>2, <2>3, FewAre, MatchedIs
<1> HIDE DEF matched
<1>9. IsSeq(<<>> \o matched) /\ (<<>> \o matched = <<>> <=> matched = <<>>)
  <2>1. IsSeq(<<>> \o matched) /\ ToSet(<<>> \o matched) = {} \cup ToSet(matched)
    BY <1>7, FewAre, ConcatIs
  <2> QED
    BY <1>7, <2>1, NothingIsEmpty
<1>10. MatchCommand(<<>>, <<ShellRule>>, line) = LoadedRules(<<>> \o matched)
  BY <1>8 DEF MatchCommand, matched, rules
<1>11. MatchCommand(<<>>, <<ShellRule>>, line) # <<>> <=> matched # <<>>
  <2> DEFINE all == <<>> \o matched
  <2> HIDE DEF all
  <2>1. LoadedRules(all) = <<>> <=> all = <<>>
    BY <1>9, LoadedAre DEF all
  <2> QED
    BY <1>9, <1>10, <2>1 DEF all
<1>12. MatchCommand(<<>>, <<ShellRule>>, line) # <<>> <=>
         ConditionHolds(candidate, [n \in NamedSelections(ShellRule.detection) |->
                                      ShellHolds(ShellSelections[n], c)])
  BY <1>1, <1>2, <1>4, <1>7, <1>11, CommandRulesMean
<1> QED
  BY <1>12 DEF line

\* The candidate is a rule of the conditions given, and its selections are finitely many.
LEMMA CandidateRegular ==
  ASSUME candidate \in Conditions
  PROVE  /\ Supported(HttpRule.detection) => Regular(HttpRule.detection)
         /\ Supported(ShellRule.detection) => Regular(ShellRule.detection)
<1>1. /\ HttpRule.detection.condition = candidate /\ ShellRule.detection.condition = candidate
      /\ HttpRule.detection.selections = HttpSelections
      /\ ShellRule.detection.selections = ShellSelections
  BY DEF HttpRule, ShellRule
<1>2. /\ NamedSelections(HttpRule.detection) \subseteq DOMAIN HttpSelections
      /\ NamedSelections(ShellRule.detection) \subseteq DOMAIN ShellSelections
  BY <1>1 DEF NamedSelections
<1>3. /\ IsFiniteSet(NamedSelections(HttpRule.detection))
      /\ IsFiniteSet(NamedSelections(ShellRule.detection))
  BY <1>2, DetectionAssumption, FS_Subset
<1>4. \A b \in DOMAIN candidate : \A i \in DOMAIN candidate[b] : candidate[b][i].negated \in BOOLEAN
  BY DetectionAssumption
<1> QED
  BY <1>1, <1>3, <1>4 DEF Regular

LEMMA RulesMean == candidate \in Conditions => RulesMeanTheirConditions
<1> SUFFICES ASSUME candidate \in Conditions PROVE RulesMeanTheirConditions
  OBVIOUS
<1> DEFINE names == NamedSelections(HttpRule.detection)
           named == NamedSelections(ShellRule.detection)
<1>1. ASSUME Supported(HttpRule.detection), NEW e \in HttpEvents
      PROVE  MatchesFor(<<HttpRule>>, e) # <<>>
               <=> ConditionHolds(candidate, [n \in names |-> HttpHolds(HttpSelections[n], e)])
  BY <1>1, HttpMeans, CandidateRegular
<1>2. ASSUME Supported(ShellRule.detection), \A n \in named : TranslatedWhole(ShellSelections[n]),
             \A b \in DOMAIN candidate : \A i, j \in DOMAIN candidate[b] :
               candidate[b][i].negated /\ candidate[b][j].negated => i = j,
             NEW c \in Commands
      PROVE  MatchCommand(<<>>, <<ShellRule>>, [path |-> <<c.process>>, facts |-> c.facts]) # <<>>
               <=> ConditionHolds(candidate, [n \in named |-> ShellHolds(ShellSelections[n], c)])
  <2>1. ShellRule.detection.condition = candidate /\ ShellRule.detection.selections = ShellSelections
    BY DEF ShellRule
  <2>2. Translated(ShellRule.detection)
    BY <1>2, <2>1 DEF Translated
  <2> QED
    BY <1>2, <2>2, ShellMeans, CandidateRegular
<1> HIDE DEF names, named
<1> QED
  BY <1>1, <1>2 DEF RulesMeanTheirConditions, names, named

\* A rule matches exactly the requests, and exactly the commands, for which its
\* condition holds: neither the plans made of it, nor the translation into command
\* payloads, nor the merging and numbering of command rules lose or add a case
\* (sigma_selection_plans, sigma_rule_to_command_rules, CowrieCommandRuleCatalog.match).
THEOREM RulesMeanTheirConditionsTheorem == Spec => []RulesMeanTheirConditions
<1>1. DetectionInv => RulesMeanTheirConditions
  BY RulesMean DEF DetectionInv
<1> QED
  BY <1>1, DetectionInvariant, PTL
================================================================================
