--------------------------- MODULE OrchestratorProofs ---------------------------
(***************************************************************************)
(* What the orchestrator guarantees for any number of bindings, catalog    *)
(* and bounds, whichever containers fail or die.  With any number of       *)
(* overlapping requests, and wherever it crashes: nothing is reachable or  *)
(* shown before it is unlocked, and what is shown as exposed has a route.  *)
(* With one request at a time: an asset has one running record, records    *)
(* only move on, and, if nothing crashes in the middle, a port leads to    *)
(* what its asset was revealed with and nothing unlocked is lost from the  *)
(* view.  All of it holds of RevealFiles too, and with one request at a    *)
(* time the clues of a reveal are served.                                  *)
(***************************************************************************)
EXTENDS RevealFiles, SequenceTheorems, FiniteSetTheorems, TLAPS

USE OrchestratorAssumption

-------------------------------------------------------------------------------
(* What can change, and what it leaves true.                                 *)

\* What was unlocked once was unlocked, and nothing loses its route.
Grows ==
  \A b \in Bindings : /\ opened[b] \subseteq opened'[b]
                      /\ \A x \in Assets : Routed(b, x) => routes'[b][x] > 0

\* A record or a handler that was in order stays so.
LEMMA OpenRecordStays ==
  ASSUME Grows, NEW r \in Record, OpenRecord(r)
  PROVE  OpenRecord(r)'
BY DEF Grows, OpenRecord, Record, Routed

LEMMA OpenCallStays ==
  ASSUME Grows, NEW c \in Call, OpenCall(c), Course(c)
  PROVE  OpenCall(c)'
<1>1. c.binding \in Bindings /\ c.seen \subseteq Assets
  BY DEF Call
<1>2. \A r \in c.hand \cup c.stops : r.copy \in Record
  BY DEF Call, Held
<1>3. \A r \in c.hand \cup c.stops : r.copy.status = "running" /\ OpenRecord(r.copy)'
  BY <1>2, OpenRecordStays DEF OpenCall
<1>4. ~c.warm => \A it \in (c.todo \cup {c.item}) \ {NoItem} : it.asset \in opened'[c.binding]
  BY <1>1 DEF OpenCall, Grows
<1>5. ASSUME ~c.warm, c.phase \in {"unhide", "record"}
      PROVE  Routed(c.binding, c.item.asset)'
  <2>1. c.item \in Item
    BY <1>5 DEF Course, AtItem, Call
  <2>2. c.item.asset \in Assets
    BY <2>1 DEF Item
  <2> QED
    BY <1>1, <1>5, <2>2 DEF OpenCall, Grows, Routed
<1>6. \A x \in c.seen : Routed(c.binding, x)'
  BY <1>1 DEF OpenCall, Grows, Routed
<1> QED
  BY <1>3, <1>4, <1>5, <1>6 DEF OpenCall

LEMMA RecordsStay ==
  ASSUME ExposureInv, Grows, records' = records
  PROVE  records' \in Seq(Record) /\ RecordsOpen'
<1>1. records \in Seq(Record)
  BY DEF ExposureInv, TypeOK
<1>2. \A i \in DOMAIN records : records[i] \in Record /\ OpenRecord(records[i])
  BY <1>1 DEF ExposureInv, RecordsOpen
<1>3. ASSUME NEW i \in DOMAIN records PROVE OpenRecord(records[i])'
  <2>1. PICK r : r = records[i]
    OBVIOUS
  <2>2. OpenRecord(r)'
    BY <1>2, <2>1, OpenRecordStays
  <2> QED
    BY <2>1, <2>2 DEF OpenRecord, Routed
<1> QED
  BY <1>1, <1>3 DEF RecordsOpen

LEMMA RoutesStay ==
  ASSUME ExposureInv, Grows, routes' = routes
  PROVE  RoutesOpen'
BY DEF ExposureInv, RoutesOpen, Grows, Routed

LEMMA ViewStays ==
  ASSUME ExposureInv, Grows, view' = view
  PROVE  ViewOpen'
<1>1. \A b \in Bindings : view[b].exposed \subseteq Assets
  BY DEF ExposureInv, TypeOK
<1> QED
  BY <1>1 DEF ExposureInv, ViewOpen, Grows, Routed

\* One handler goes on to c.
LEMMA CallsStay ==
  ASSUME ExposureInv, Grows, NEW h \in Handlers, NEW c \in {Idle} \cup Call,
         c # Idle => OpenCall(c)' /\ Course(c),
         call' = [call EXCEPT ![h] = c]
  PROVE  call' \in [Handlers -> {Idle} \cup Call] /\ CallsOpen'
<1>1. call \in [Handlers -> {Idle} \cup Call]
  BY DEF ExposureInv, TypeOK
<1>2. call' \in [Handlers -> {Idle} \cup Call]
  BY <1>1
<1>3. ASSUME NEW k \in Handlers, call'[k] # Idle PROVE (OpenCall(call[k]) /\ Course(call[k]))'
  <2>1. CASE k = h
    <3>1. call'[k] = c
      BY <1>1, <2>1
    <3> QED
      BY <1>3, <3>1 DEF OpenCall, Course, OpenRecord, Routed
  <2>2. CASE k # h
    <3>1. call'[k] = call[k]
      BY <1>1, <2>2
    <3>2. PICK d : d = call[k]
      OBVIOUS
    <3>3. d \in Call /\ OpenCall(d) /\ Course(d)
      BY <1>1, <1>3, <3>1, <3>2 DEF ExposureInv, CallsOpen
    <3>4. OpenCall(d)'
      BY <3>3, OpenCallStays
    <3> QED
      BY <3>1, <3>2, <3>3, <3>4 DEF OpenCall, Course, OpenRecord, Routed
  <2> QED
    BY <2>1, <2>2
<1> QED
  BY <1>2, <1>3 DEF CallsOpen

\* A step of one handler keeps the invariant if its own call and whatever it
\* writes are in order.
LEMMA HandlerStep ==
  ASSUME ExposureInv, Grows, NEW h \in Handlers, NEW c \in {Idle} \cup Call,
         c # Idle => OpenCall(c)' /\ Course(c),
         call' = [call EXCEPT ![h] = c],
         unlocked' \in [Bindings -> SUBSET Assets], opened' \in [Bindings -> SUBSET Assets],
         containers' \in [Bindings -> [Assets -> {"missing", "exited"} \cup Images]],
         records' \in Seq(Record), RecordsOpen',
         routes' \in [Bindings -> [Assets -> Nat]], now' \in Nat, RoutesOpen',
         view' \in [Bindings -> [exposed : SUBSET Assets, failed : SUBSET Assets]], ViewOpen'
  PROVE  ExposureInv'
<1>1. call' \in [Handlers -> {Idle} \cup Call] /\ CallsOpen'
  BY CallsStay
<1> QED
  BY <1>1 DEF ExposureInv, TypeOK

\* One that writes no file.
LEMMA QuietStep ==
  ASSUME ExposureInv, NEW h \in Handlers, NEW c \in {Idle} \cup Call,
         c # Idle => OpenCall(c) /\ Course(c),
         call' = [call EXCEPT ![h] = c],
         UNCHANGED <<unlocked, opened, records, routes, view, now>>,
         containers' \in [Bindings -> [Assets -> {"missing", "exited"} \cup Images]]
  PROVE  ExposureInv'
<1>1. Grows
  BY DEF Grows, Routed, ExposureInv, TypeOK
<1>2. c # Idle => OpenCall(c)' /\ Course(c)
  BY <1>1, OpenCallStays
<1>3. records' \in Seq(Record) /\ RecordsOpen'
  BY <1>1, RecordsStay
<1>4. RoutesOpen' /\ ViewOpen'
  BY <1>1, RoutesStay, ViewStays
<1> QED
  BY <1>1, <1>2, <1>3, <1>4, HandlerStep DEF ExposureInv, TypeOK

\* A handler that is busy.
LEMMA Busy ==
  ASSUME ExposureInv, NEW h \in Handlers, call[h].phase # "idle"
  PROVE  call[h] \in Call /\ OpenCall(call[h]) /\ Course(call[h])
<1>1. call[h] # Idle
  BY DEF Idle
<1> QED
  BY <1>1 DEF ExposureInv, TypeOK, CallsOpen

\* It goes from one step of starting a runtime to the next.
Working == AtItem \ {"attach", "unhide", "record"}
LEMMA ItemStep ==
  ASSUME ExposureInv, NEW h \in Handlers, call[h].phase \in Working \cup {"marking"},
         call[h].item # NoItem, NEW p \in Working, Goto(h, p),
         UNCHANGED <<unlocked, opened, records, routes, view, now>>,
         containers' \in [Bindings -> [Assets -> {"missing", "exited"} \cup Images]]
  PROVE  ExposureInv'
<1>1. call[h] \in Call /\ OpenCall(call[h]) /\ Course(call[h])
  BY Busy DEF Working, AtItem
<1>2. PICK c : c = [call[h] EXCEPT !.phase = p]
  OBVIOUS
<1>3. call' = [call EXCEPT ![h] = c]
  BY <1>2 DEF Goto
<1>4. c \in Call
  BY <1>1, <1>2 DEF Call, Working, AtItem, Phases
<1>5. OpenCall(c)
  BY <1>1, <1>2 DEF Call, OpenCall, Working, AtItem
<1>6. Course(c)
  BY <1>1, <1>2 DEF Call, Course, Working, AtItem
<1> QED
  BY <1>3, <1>4, <1>5, <1>6, QuietStep

LEMMA ContainerSet ==
  ASSUME ExposureInv, NEW b, NEW x, NEW state \in {"missing", "exited"} \cup Images,
         SetContainer(b, x, state)
  PROVE  containers' \in [Bindings -> [Assets -> {"missing", "exited"} \cup Images]]
BY DEF ExposureInv, TypeOK, SetContainer

-------------------------------------------------------------------------------
(* Requests and their actions.                                               *)

LEMMA HeadAction ==
  ASSUME NEW c \in Call, c.acts # <<>>
  PROVE  /\ Head(c.acts) \in Actions /\ Tail(c.acts) \in Seq(Actions)
         /\ Head(c.acts).kind = "unlock" => Head(c.acts).asset \in Assets
         /\ Head(c.acts).kind = "configure" => Head(c.acts).variant \in Variants
<1>1. c.acts \in Seq(Actions)
  BY DEF Call
<1>2. Head(c.acts) \in Actions /\ Tail(c.acts) \in Seq(Actions)
  BY <1>1, HeadTailProperties
<1> QED
  BY <1>2 DEF Actions

\* A new call holds nothing yet.
LEMMA NewCallInOrder ==
  ASSUME ExposureInv, NEW b \in Bindings, NEW warm \in BOOLEAN, NEW acts \in Seq(Actions),
         NEW todo \in SUBSET Item, NEW phase \in {"acting", "starting", "resolving"},
         phase = "starting" <=> warm, ~warm => todo = {}
  PROVE  LET c == NewCall(b, warm, acts, todo, phase)
         IN c \in Call /\ OpenCall(c) /\ Course(c)
<1> DEFINE c == NewCall(b, warm, acts, todo, phase)
<1>1. unlocked[b] \subseteq Assets
  BY DEF ExposureInv, TypeOK
<1>2. c \in Call
  BY <1>1 DEF NewCall, Call, Phases
<1>3. OpenCall(c)
  BY DEF NewCall, OpenCall
<1>4. Course(c)
  BY DEF NewCall, Course, AtItem
<1> QED
  BY <1>2, <1>3, <1>4

LEMMA ApplyStep ==
  ASSUME ExposureInv, NEW h \in Handlers, NEW b \in Bindings, NEW acts \in Seq(Actions),
         Apply(h, b, acts)
  PROVE  ExposureInv'
<1>1. PICK c : c = NewCall(b, FALSE, acts, {}, "acting")
  OBVIOUS
<1>2. c \in Call /\ OpenCall(c) /\ Course(c)
  BY <1>1, NewCallInOrder
<1>3. call' = [call EXCEPT ![h] = c]
  BY <1>1 DEF Apply
<1> QED
  BY <1>2, <1>3, QuietStep DEF Apply, ExposureInv, TypeOK

LEMMA PrewarmStep ==
  ASSUME ExposureInv, NEW h \in Handlers, NEW b \in Bindings, NEW assets \in SUBSET Warm,
         Prewarm(h, b, assets)
  PROVE  ExposureInv'
<1>1. PICK c : c = NewCall(b, TRUE, <<>>, {[asset |-> x, image |-> Base] : x \in assets}, "starting")
  OBVIOUS
<1>2. {[asset |-> x, image |-> Base] : x \in assets} \in SUBSET Item
  BY DEF Item, Images
<1>3. <<>> \in Seq(Actions)
  OBVIOUS
<1>4. c \in Call /\ OpenCall(c) /\ Course(c)
  BY <1>1, <1>2, <1>3, NewCallInOrder
<1>5. call' = [call EXCEPT ![h] = c]
  BY <1>1 DEF Prewarm
<1> QED
  BY <1>4, <1>5, QuietStep DEF Prewarm, ExposureInv, TypeOK

\* A call on the binding service begins.
LEMMA ReadBindingStep ==
  ASSUME ExposureInv, NEW h \in Handlers, call[h].phase # "idle", ~call[h].warm,
         call[h].acts # <<>>, NEW p \in {"unlocking", "revealing", "recycling"},
         NEW new \in SUBSET Assets, ReadBinding(h, p, new),
         p = "revealing" => Head(call[h].acts).kind = "configure",
         p = "unlocking" => Asked(Head(call[h].acts)) \in new
  PROVE  ExposureInv'
<1> DEFINE copy == unlocked[call[h].binding] \cup new
<1>1. call[h] \in Call /\ OpenCall(call[h]) /\ Course(call[h])
  BY Busy
<1>2. copy \subseteq Assets /\ new \subseteq copy
  BY <1>1 DEF ExposureInv, TypeOK, Call
<1>3. call' = [call EXCEPT ![h].phase = p, ![h].merged = copy]
  BY DEF ReadBinding
<1> HIDE DEF copy
<1>4. PICK c : c = [call[h] EXCEPT !.phase = p, !.merged = copy]
  OBVIOUS
<1>5. call' = [call EXCEPT ![h] = c]
  BY <1>3, <1>4
<1>6. c \in Call
  BY <1>1, <1>2, <1>4 DEF Call, Phases
<1>7. OpenCall(c)
  BY <1>1, <1>4 DEF Call, OpenCall
<1>8. c.phase = p /\ c.merged = copy /\ c.acts = call[h].acts /\ c.warm = call[h].warm
  BY <1>1, <1>4 DEF Call
<1>9. Course(c)
  BY <1>2, <1>8 DEF Course, AtItem
<1> QED
  BY <1>5, <1>6, <1>7, <1>9, QuietStep DEF ReadBinding, ExposureInv, TypeOK

\* It ends: one handler writes the binding record and goes on to c.
LEMMA BindingWritten ==
  ASSUME ExposureInv, NEW h \in Handlers, call[h] \in Call, WriteBinding(h),
         UNCHANGED <<containers, records, routes, view, now>>
  PROVE  /\ unlocked' \in [Bindings -> SUBSET Assets] /\ opened' \in [Bindings -> SUBSET Assets]
         /\ call[h].merged \subseteq opened'[call[h].binding]
         /\ Grows
<1>1. call[h].binding \in Bindings /\ call[h].merged \subseteq Assets
  BY DEF Call
<1>2. unlocked \in [Bindings -> SUBSET Assets] /\ opened \in [Bindings -> SUBSET Assets]
  BY DEF ExposureInv, TypeOK
<1>3. /\ unlocked' \in [Bindings -> SUBSET Assets] /\ opened' \in [Bindings -> SUBSET Assets]
      /\ \A d \in Bindings : opened[d] \subseteq opened'[d]
      /\ call[h].merged \subseteq opened'[call[h].binding]
  BY <1>1, <1>2 DEF WriteBinding
<1>4. Grows
  BY <1>3 DEF Grows, Routed
<1> QED
  BY <1>3, <1>4

LEMMA WriteBindingStep ==
  ASSUME ExposureInv, NEW h \in Handlers, call[h].phase # "idle", WriteBinding(h),
         UNCHANGED <<containers, records, routes, view, now>>,
         NEW c \in {Idle} \cup Call, c # Idle => OpenCall(c)' /\ Course(c),
         call' = [call EXCEPT ![h] = c]
  PROVE  ExposureInv'
<1>1. call[h] \in Call
  BY Busy
<1>2. Grows /\ unlocked' \in [Bindings -> SUBSET Assets] /\ opened' \in [Bindings -> SUBSET Assets]
  BY <1>1, BindingWritten
<1>3. records' \in Seq(Record) /\ RecordsOpen' /\ ViewOpen' /\ RoutesOpen'
  BY <1>2, RecordsStay, ViewStays, RoutesStay
<1> QED
  BY <1>2, <1>3, HandlerStep DEF ExposureInv, TypeOK

LEMMA ResolveStep ==
  ASSUME ExposureInv, NEW h \in Handlers, NEW b \in Bindings, Resolve(h, b)
  PROVE  ExposureInv'
<1>1. PICK d : d = NewCall(b, FALSE, <<>>, {}, "resolving")
  OBVIOUS
<1>2. <<>> \in Seq(Actions)
  OBVIOUS
<1>3. d \in Call /\ OpenCall(d) /\ Course(d) /\ d.phase = "resolving"
  BY <1>1, <1>2, NewCallInOrder DEF NewCall
<1>4. PICK c : c = [d EXCEPT !.merged = unlocked[b]]
  OBVIOUS
<1>5. unlocked[b] \subseteq Assets
  BY DEF ExposureInv, TypeOK
<1>6. c \in Call
  BY <1>3, <1>4, <1>5 DEF Call
<1>7. OpenCall(c)
  BY <1>3, <1>4 DEF Call, OpenCall
<1>8. Course(c)
  BY <1>3, <1>4 DEF Call, Course, AtItem
<1>9. call' = [call EXCEPT ![h] = c]
  BY <1>1, <1>4 DEF Resolve
<1> QED
  BY <1>6, <1>7, <1>8, <1>9, QuietStep DEF Resolve, ExposureInv, TypeOK

LEMMA WriteResolvedStep ==
  ASSUME ExposureInv, NEW h \in Handlers, WriteResolved(h)
  PROVE  ExposureInv'
BY WriteBindingStep DEF WriteResolved, At

LEMMA RevealStep ==
  ASSUME ExposureInv, NEW h \in Handlers, Reveal(h)
  PROVE  ExposureInv'
<1>1. call[h].phase = "acting" /\ call[h].acts # <<>> /\ Head(call[h].acts).kind = "configure"
  BY DEF Reveal, At, Doing, Action
<1>2. ~call[h].warm
  BY <1>1, Busy DEF Course, AtItem
<1>3. ReadBinding(h, "revealing", {})
  BY DEF Reveal
<1> QED
  BY <1>1, <1>2, <1>3, ReadBindingStep

LEMMA WriteRevealedStep ==
  ASSUME ExposureInv, NEW h \in Handlers, WriteRevealed(h)
  PROVE  ExposureInv'
<1> DEFINE v == Action(h).variant
           p == IF v.swap /\ v.target # None THEN "target" ELSE "configure"
<1>1. call[h] \in Call /\ OpenCall(call[h]) /\ Course(call[h]) /\ call[h].phase = "revealing"
  BY Busy DEF WriteRevealed, At
<1>2. PICK c : c = [call[h] EXCEPT !.known = call[h].merged, !.merged = {}, !.phase = p]
  OBVIOUS
<1>3. call' = [call EXCEPT ![h] = c]
  BY <1>2 DEF WriteRevealed
<1>4. c \in Call
  BY <1>1, <1>2 DEF Call, Phases
<1>5. WriteBinding(h) /\ UNCHANGED <<containers, records, routes, view, now>>
  BY DEF WriteRevealed
<1>6. OpenCall(call[h]) /\ Grows
  BY <1>1, <1>5, BindingWritten
<1>7. OpenCall(c) /\ ~c.warm
  BY <1>1, <1>2 DEF Call, OpenCall, Course, AtItem
<1>8. Course(c)
  BY <1>1, <1>2, <1>7 DEF Call, Course, Action, AtItem
<1>9. OpenCall(c)'
  BY <1>4, <1>6, <1>7, <1>8, OpenCallStays
<1> QED
  BY <1>1, <1>3, <1>4, <1>5, <1>8, <1>9, WriteBindingStep

\* An action is done, or a variant goes on to its target.
LEMMA DoneInOrder ==
  ASSUME NEW c \in Call, OpenCall(c), ~c.warm, c.acts # <<>>
  PROVE  Done(c) \in Call /\ OpenCall(Done(c)) /\ Course(Done(c))
<1>1. Tail(c.acts) \in Seq(Actions)
  BY HeadAction
<1>2. Done(c) \in Call
  BY <1>1 DEF Done, Call, Phases
<1>3. OpenCall(Done(c))
  BY DEF Done, Call, OpenCall
<1>4. Course(Done(c))
  BY DEF Done, Call, Course, AtItem
<1> QED
  BY <1>2, <1>3, <1>4

LEMMA ConfiguredInOrder ==
  ASSUME NEW c \in Call, OpenCall(c), Course(c), c.phase \in {"configure", "configuring"}
  PROVE  LET d == Configured(c, Head(c.acts).variant)
         IN d \in Call /\ OpenCall(d) /\ Course(d)
<1> DEFINE v == Head(c.acts).variant
<1>1. c.acts # <<>> /\ Head(c.acts).kind = "configure" /\ ~c.warm
  BY DEF Course, Call, AtItem
<1>2. CASE v.swap \/ v.target = None
  BY <1>1, <1>2, DoneInOrder DEF Configured
<1>3. CASE ~(v.swap \/ v.target = None)
  <2> DEFINE d == [c EXCEPT !.phase = "target", !.hand = {}]
  <2>1. Configured(c, v) = d
    BY <1>3 DEF Configured
  <2>2. d \in Call
    BY DEF Call, Phases
  <2>3. OpenCall(d)
    BY DEF Call, OpenCall
  <2>4. Course(d)
    BY <1>1, <1>3 DEF Call, Course, AtItem
  <2> HIDE DEF d
  <2> QED
    BY <2>1, <2>2, <2>3, <2>4
<1> QED
  BY <1>2, <1>3

\* What a handler has read of a running record is in order.
LEMMA HeldInOrder ==
  ASSUME ExposureInv, NEW i \in DOMAIN records
  PROVE  /\ records[i] \in Record /\ OpenRecord(records[i])
         /\ [at |-> i, copy |-> records[i]] \in Held
<1>1. records \in Seq(Record)
  BY DEF ExposureInv, TypeOK
<1>2. records[i] \in Record /\ i \in Nat
  BY <1>1
<1> QED
  BY <1>2 DEF ExposureInv, RecordsOpen, Held

LEMMA FindConfiguredStep ==
  ASSUME ExposureInv, NEW h \in Handlers, FindConfigured(h)
  PROVE  ExposureInv'
<1> DEFINE v == Action(h).variant
<1>1. call[h] \in Call /\ OpenCall(call[h]) /\ Course(call[h])
  BY Busy DEF FindConfigured, At
<1>2. CASE call' = [call EXCEPT ![h] = Configured(call[h], v)]
  <2>1. PICK c : c = Configured(call[h], v)
    OBVIOUS
  <2>2. c \in Call /\ OpenCall(c) /\ Course(c)
    BY <1>1, <2>1, ConfiguredInOrder DEF FindConfigured, At, Action
  <2> QED
    BY <1>2, <2>1, <2>2, QuietStep DEF FindConfigured, ExposureInv, TypeOK
<1>3. ASSUME NEW i \in DOMAIN records, FirstRunning(call[h].binding, v.source, i),
             call' = [call EXCEPT ![h] =
               [call[h] EXCEPT !.phase = "configuring", !.hand = {[at |-> i, copy |-> records[i]]}]]
      PROVE  ExposureInv'
  <2>1. PICK c : c = [call[h] EXCEPT !.phase = "configuring",
                                     !.hand = {[at |-> i, copy |-> records[i]]}]
    OBVIOUS
  <2>2. [at |-> i, copy |-> records[i]] \in Held /\ OpenRecord(records[i])
    BY HeldInOrder
  <2>3. records[i].status = "running"
    BY <1>3 DEF FirstRunning, Running
  <2>4. c \in Call
    BY <1>1, <2>1, <2>2 DEF Call, Phases
  <2>5. OpenCall(c)
    BY <1>1, <2>1, <2>2, <2>3 DEF Call, OpenCall
  <2>6. Course(c)
    BY <1>1, <2>1 DEF Call, Course, AtItem, FindConfigured, At
  <2> QED
    BY <1>3, <2>1, <2>4, <2>5, <2>6, QuietStep DEF FindConfigured, ExposureInv, TypeOK
<1> QED
  BY <1>2, <1>3 DEF FindConfigured

-------------------------------------------------------------------------------
(* Writing a file.                                                           *)

LEMMA RouteWritten ==
  ASSUME ExposureInv, opened' = opened,
         NEW b \in Bindings, NEW x \in Assets, x \in opened[b], WriteRoute(b, x)
  PROVE  /\ routes' \in [Bindings -> [Assets -> Nat]] /\ now' \in Nat
         /\ Grows /\ RoutesOpen' /\ routes'[b][x] > 0
<1>1. routes \in [Bindings -> [Assets -> Nat]] /\ now \in Nat
  BY DEF ExposureInv, TypeOK
<1>2. routes' \in [Bindings -> [Assets -> Nat]] /\ now' \in Nat
  BY <1>1 DEF WriteRoute
<1>3. \A d \in Bindings : \A y \in Assets :
        routes'[d][y] = IF d = b /\ y = x THEN now + 1 ELSE routes[d][y]
  BY <1>1 DEF WriteRoute
<1>4. Grows
  BY <1>1, <1>3 DEF Grows, Routed
<1>5. RoutesOpen'
  BY <1>1, <1>3 DEF ExposureInv, RoutesOpen, Routed
<1> QED
  BY <1>1, <1>2, <1>3, <1>4, <1>5

LEMMA RecordPut ==
  ASSUME ExposureInv, Grows, NEW r \in Held, NEW copy \in Record, OpenRecord(copy)', Put(r, copy)
  PROVE  records' \in Seq(Record) /\ RecordsOpen'
<1>1. records \in Seq(Record)
  BY DEF ExposureInv, TypeOK
<1>2. CASE r.at \in DOMAIN records
  <2>1. /\ records' \in Seq(Record) /\ Len(records') = Len(records)
        /\ \A k \in 1..Len(records) : records'[k] = IF k = r.at THEN copy ELSE records[k]
    BY <1>1, <1>2, ExceptSeq DEF Put
  <2>2. ASSUME NEW k \in DOMAIN records' PROVE OpenRecord(records[k])'
    <3>1. PICK d : d = records'[k]
      OBVIOUS
    <3>2. k \in 1..Len(records)
      BY <1>1, <2>1
    <3>3. OpenRecord(d)'
      <4>1. CASE k = r.at
        BY <2>1, <3>1, <3>2, <4>1
      <4>2. CASE k # r.at
        <5>1. d = records[k] /\ k \in DOMAIN records
          BY <1>1, <2>1, <3>1, <3>2, <4>2
        <5>2. d \in Record /\ OpenRecord(d)
          BY <5>1, HeldInOrder
        <5> QED
          BY <5>2, OpenRecordStays
      <4> QED
        BY <4>1, <4>2
    <3> QED
      BY <3>1, <3>3 DEF OpenRecord, Routed
  <2> QED
    BY <2>1, <2>2 DEF RecordsOpen
<1>3. CASE r.at \notin DOMAIN records
  <2>1. records' = records
    BY <1>1, <1>3 DEF Put
  <2> QED
    BY <2>1, RecordsStay
<1> QED
  BY <1>2, <1>3

LEMMA RecordAppended ==
  ASSUME ExposureInv, Grows, NEW new \in Record, OpenRecord(new)',
         records' = Append(records, new)
  PROVE  records' \in Seq(Record) /\ RecordsOpen'
<1>1. records \in Seq(Record)
  BY DEF ExposureInv, TypeOK
<1>2. /\ records' \in Seq(Record) /\ Len(records') = Len(records) + 1
      /\ \A k \in 1..Len(records) : records'[k] = records[k]
      /\ records'[Len(records) + 1] = new
  BY <1>1, AppendProperties
<1>3. ASSUME NEW k \in DOMAIN records' PROVE OpenRecord(records[k])'
  <2>1. PICK d : d = records'[k]
    OBVIOUS
  <2>2. k \in 1..Len(records) \/ k = Len(records) + 1
    BY <1>1, <1>2
  <2>3. OpenRecord(d)'
    <3>1. CASE k = Len(records) + 1
      BY <1>2, <2>1, <3>1
    <3>2. CASE k \in 1..Len(records)
      <4>1. d = records[k] /\ k \in DOMAIN records
        BY <1>1, <1>2, <2>1, <3>2
      <4>2. d \in Record /\ OpenRecord(d)
        BY <4>1, HeldInOrder
      <4> QED
        BY <4>2, OpenRecordStays
    <3> QED
      BY <2>2, <3>1, <3>2
  <2> QED
    BY <2>1, <2>3 DEF OpenRecord, Routed
<1> QED
  BY <1>2, <1>3 DEF RecordsOpen

\* Nothing but records is written.
LEMMA RecordStep ==
  ASSUME ExposureInv, NEW h \in Handlers, NEW c \in Call, OpenCall(c), Course(c),
         call' = [call EXCEPT ![h] = c],
         UNCHANGED <<unlocked, opened, containers, routes, view, now>>,
         records' \in Seq(Record), RecordsOpen'
  PROVE  ExposureInv'
<1>1. Grows
  BY DEF Grows, Routed, ExposureInv, TypeOK
<1>2. OpenCall(c)'
  BY <1>1, OpenCallStays
<1>3. RoutesOpen' /\ ViewOpen'
  BY <1>1, RoutesStay, ViewStays
<1> QED
  BY <1>1, <1>2, <1>3, HandlerStep DEF ExposureInv, TypeOK

LEMMA WriteConfiguredStep ==
  ASSUME ExposureInv, NEW h \in Handlers, WriteConfigured(h)
  PROVE  ExposureInv'
<1> DEFINE v == Action(h).variant
<1>1. call[h] \in Call /\ OpenCall(call[h]) /\ Course(call[h])
  BY Busy DEF WriteConfigured, At
<1>2. v \in Variants
  BY <1>1, HeadAction DEF WriteConfigured, At, Course, Action
<1>3. PICK c : c = Configured(call[h], v)
  OBVIOUS
<1>4. c \in Call /\ OpenCall(c) /\ Course(c) /\ call' = [call EXCEPT ![h] = c]
  BY <1>1, <1>3, ConfiguredInOrder DEF WriteConfigured, At, Action
<1>5. PICK r \in call[h].hand : Put(r, [r.copy EXCEPT !.configs = @ \cup {v.id}])
  BY DEF WriteConfigured
<1>6. r \in Held /\ r.copy \in Record /\ OpenRecord(r.copy)
  BY <1>1, <1>5 DEF Call, Held, OpenCall
<1>7. PICK d : d = [r.copy EXCEPT !.configs = @ \cup {v.id}]
  OBVIOUS
<1>8. d \in Record /\ OpenRecord(d)
  BY <1>2, <1>6, <1>7 DEF Record, OpenRecord, Configs
<1>9. Grows
  BY DEF Grows, Routed, ExposureInv, TypeOK, WriteConfigured
<1>10. records' \in Seq(Record) /\ RecordsOpen'
  BY <1>5, <1>6, <1>7, <1>8, <1>9, OpenRecordStays, RecordPut
<1> QED
  BY <1>4, <1>10, RecordStep DEF WriteConfigured

-------------------------------------------------------------------------------
(* Starting a runtime.                                                       *)

LEMMA FindRunningStep ==
  ASSUME ExposureInv, NEW h \in Handlers, FindRunning(h)
  PROVE  ExposureInv'
<1>1. call[h] \in Call /\ OpenCall(call[h]) /\ Course(call[h])
  BY Busy DEF FindRunning, At
<1>2. PICK it \in call[h].todo :
        \/ call' = [call EXCEPT ![h] =
             [call[h] EXCEPT !.todo = @ \ {it}, !.item = it, !.phase = "inspect"]]
        \/ \E i \in DOMAIN records :
             /\ FirstRunning(call[h].binding, it.asset, i)
             /\ call' = [call EXCEPT ![h] =
                  [call[h] EXCEPT !.todo = @ \ {it}, !.item = it,
                                  !.phase = IF it.image = Base THEN "attach" ELSE "removing",
                                  !.hand = {[at |-> i, copy |-> records[i]]}]]
  BY DEF FindRunning
<1>3. it \in Item /\ it # NoItem
  BY <1>1 DEF Call, Item, NoItem
<1>4. ~call[h].warm => it.asset \in opened[call[h].binding]
  BY <1>1, <1>3 DEF OpenCall
<1>5. ~call[h].warm => call[h].acts # <<>>
  BY <1>1 DEF Course, FindRunning, At
<1>6. CASE call' = [call EXCEPT ![h] =
             [call[h] EXCEPT !.todo = @ \ {it}, !.item = it, !.phase = "inspect"]]
  <2>1. PICK c : c = [call[h] EXCEPT !.todo = @ \ {it}, !.item = it, !.phase = "inspect"]
    OBVIOUS
  <2>2. c \in Call
    BY <1>1, <1>3, <2>1 DEF Call, Phases
  <2>3. OpenCall(c)
    BY <1>1, <1>4, <2>1 DEF Call, OpenCall
  <2>4. Course(c)
    BY <1>1, <1>3, <1>5, <2>1 DEF Call, Course, AtItem
  <2> QED
    BY <1>6, <2>1, <2>2, <2>3, <2>4, QuietStep DEF FindRunning, ExposureInv, TypeOK
<1>7. ASSUME NEW i \in DOMAIN records, FirstRunning(call[h].binding, it.asset, i),
             NEW p \in {"attach", "removing"},
             call' = [call EXCEPT ![h] =
                  [call[h] EXCEPT !.todo = @ \ {it}, !.item = it, !.phase = p,
                                  !.hand = {[at |-> i, copy |-> records[i]]}]]
      PROVE  ExposureInv'
  <2>1. PICK c : c = [call[h] EXCEPT !.todo = @ \ {it}, !.item = it, !.phase = p,
                                     !.hand = {[at |-> i, copy |-> records[i]]}]
    OBVIOUS
  <2>2. [at |-> i, copy |-> records[i]] \in Held /\ OpenRecord(records[i])
    BY HeldInOrder
  <2>3. /\ records[i].status = "running" /\ records[i].binding = call[h].binding
        /\ records[i].asset = it.asset
    BY <1>7 DEF FirstRunning, Running
  <2>4. c \in Call
    BY <1>1, <1>3, <2>1, <2>2 DEF Call, Phases
  <2>5. OpenCall(c)
    BY <1>1, <1>4, <2>1, <2>2, <2>3 DEF Call, OpenCall
  <2>6. Course(c)
    BY <1>1, <1>3, <1>5, <2>1, <2>3 DEF Call, Course, AtItem
  <2> QED
    BY <1>7, <2>1, <2>4, <2>5, <2>6, QuietStep DEF FindRunning, ExposureInv, TypeOK
<1> QED
  BY <1>2, <1>6, <1>7

\* The handler is through with a runtime.
LEMMA StartedInOrder ==
  ASSUME NEW c \in Call, OpenCall(c), Course(c), c.phase \in AtItem
  PROVE  Started(c) \in Call /\ OpenCall(Started(c)) /\ Course(Started(c))
<1>1. Started(c) \in Call
  BY DEF Started, Call, Phases
<1>2. OpenCall(Started(c))
  BY DEF Started, Call, OpenCall
<1>3. Course(Started(c))
  BY DEF Started, Call, Course, AtItem
<1> QED
  BY <1>1, <1>2, <1>3

\* A route of the item in hand.
LEMMA ItemRouted ==
  ASSUME ExposureInv, NEW h \in Handlers, call[h].phase \in AtItem, ~call[h].warm,
         opened' = opened, WriteRoute(call[h].binding, call[h].item.asset)
  PROVE  /\ routes' \in [Bindings -> [Assets -> Nat]] /\ now' \in Nat
         /\ Grows /\ RoutesOpen' /\ routes'[call[h].binding][call[h].item.asset] > 0
<1>1. call[h] \in Call /\ OpenCall(call[h]) /\ Course(call[h])
  BY Busy DEF AtItem
<1>2. call[h].item \in Item /\ call[h].item # NoItem
  BY <1>1 DEF Course, Call
<1>3. call[h].item.asset \in Assets /\ call[h].binding \in Bindings
  BY <1>1, <1>2 DEF Item, Call
<1>4. call[h].item.asset \in opened[call[h].binding]
  BY <1>1, <1>2 DEF OpenCall
<1> QED
  BY <1>3, <1>4, RouteWritten

LEMMA AttachStep ==
  ASSUME ExposureInv, NEW h \in Handlers, Attach(h)
  PROVE  ExposureInv'
<1>1. call[h].phase \in AtItem /\ call[h].phase = "attach"
  BY DEF Attach, At, AtItem
<1>2. call[h] \in Call /\ OpenCall(call[h]) /\ Course(call[h])
  BY <1>1, Busy
<1>3. Started(call[h]) \in Call /\ OpenCall(Started(call[h])) /\ Course(Started(call[h]))
  BY <1>1, <1>2, StartedInOrder
<1>4. CASE call[h].warm
  <2>1. PICK c : c = Started(call[h])
    OBVIOUS
  <2> QED
    BY <1>3, <1>4, <2>1, QuietStep DEF Attach, ExposureInv, TypeOK
<1>5. CASE ~call[h].warm
  <2>1. WriteRoute(call[h].binding, call[h].item.asset)
    BY <1>5 DEF Attach
  <2>2. UNCHANGED <<unlocked, opened>> /\ records' = records /\ view' = view /\ containers' = containers
    BY DEF Attach
  <2>3. /\ routes' \in [Bindings -> [Assets -> Nat]] /\ now' \in Nat
        /\ Grows /\ RoutesOpen' /\ routes'[call[h].binding][call[h].item.asset] > 0
    BY <1>1, <1>5, <2>1, <2>2, ItemRouted
  <2>4. records' \in Seq(Record) /\ RecordsOpen' /\ ViewOpen'
    BY <2>2, <2>3, RecordsStay, ViewStays
  <2>5. \E c \in Call : OpenCall(c)' /\ Course(c) /\ call' = [call EXCEPT ![h] = c]
    <3>1. CASE call' = [call EXCEPT ![h] = Started(call[h])]
      <4>1. PICK c : c = Started(call[h])
        OBVIOUS
      <4>2. c \in Call /\ OpenCall(c) /\ Course(c)
        BY <1>3, <4>1
      <4> QED
        BY <2>3, <3>1, <4>1, <4>2, OpenCallStays
    <3>2. CASE call' = [call EXCEPT ![h] = [call[h] EXCEPT !.phase = "unhide"]]
      <4>1. PICK c : c = [call[h] EXCEPT !.phase = "unhide"]
        OBVIOUS
      <4>2. PICK d : d = call[h]
        OBVIOUS
      <4>3. c \in Call
        BY <1>2, <4>1 DEF Call, Phases
      <4>4. Course(c)
        BY <1>1, <1>2, <1>5, <4>1 DEF Call, Course, AtItem
      <4>5. d \in Call /\ OpenCall(d)'
        BY <1>2, <2>3, <4>2, OpenCallStays
      <4>6. /\ c.binding = d.binding /\ c.item = d.item /\ c.hand = d.hand /\ c.stops = d.stops
            /\ c.warm = d.warm /\ c.todo = d.todo /\ c.seen = d.seen
        BY <1>2, <4>1, <4>2 DEF Call
      <4>7. Routed(c.binding, c.item.asset)'
        BY <2>3, <4>2, <4>6 DEF Routed
      <4>8. OpenCall(c)'
        BY <4>5, <4>6, <4>7 DEF OpenCall
      <4> QED
        BY <3>2, <4>1, <4>3, <4>4, <4>8
    <3> QED
      BY <1>5, <3>1, <3>2 DEF Attach
  <2> QED
    BY <2>2, <2>3, <2>4, <2>5, HandlerStep DEF ExposureInv, TypeOK
<1> QED
  BY <1>4, <1>5

LEMMA UnhideStep ==
  ASSUME ExposureInv, NEW h \in Handlers, Unhide(h)
  PROVE  ExposureInv'
<1>1. call[h].phase \in AtItem /\ call[h].phase = "unhide"
  BY DEF Unhide, At, AtItem
<1>2. call[h] \in Call /\ OpenCall(call[h]) /\ Course(call[h])
  BY <1>1, Busy
<1>3. PICK r \in call[h].hand : Put(r, [r.copy EXCEPT !.hidden = FALSE])
  BY DEF Unhide
<1>4. r \in Held /\ r.copy \in Record
  BY <1>2, <1>3 DEF Call, Held
<1>5. /\ ~call[h].warm /\ call[h].item # NoItem
      /\ r.copy.binding = call[h].binding /\ r.copy.asset = call[h].item.asset
  BY <1>1, <1>2, <1>3 DEF Course
<1>6. Routed(r.copy.binding, r.copy.asset) /\ r.copy.asset \in opened[r.copy.binding]
  BY <1>1, <1>2, <1>5 DEF OpenCall
<1>7. PICK d : d = [r.copy EXCEPT !.hidden = FALSE]
  OBVIOUS
<1>8. d \in Record /\ OpenRecord(d)
  BY <1>4, <1>6, <1>7 DEF Record, OpenRecord
<1>9. Grows
  BY DEF Grows, Routed, ExposureInv, TypeOK, Unhide
<1>10. records' \in Seq(Record) /\ RecordsOpen'
  BY <1>3, <1>4, <1>7, <1>8, <1>9, OpenRecordStays, RecordPut
<1>11. PICK c : c = Started(call[h])
  OBVIOUS
<1>12. c \in Call /\ OpenCall(c) /\ Course(c) /\ call' = [call EXCEPT ![h] = c]
  BY <1>1, <1>2, <1>11, StartedInOrder DEF Unhide
<1> QED
  BY <1>10, <1>12, RecordStep DEF Unhide

\* Whether the container is removed for a swap or a recycle, it is marked next.
LEMMA RemoveContainerStep ==
  ASSUME ExposureInv, NEW h \in Handlers, RemoveContainer(h)
  PROVE  ExposureInv'
<1>1. call[h] \in Call /\ OpenCall(call[h]) /\ Course(call[h])
  BY Busy DEF RemoveContainer, At
<1>2. PICK c : c = [call[h] EXCEPT !.phase = "marking"]
  OBVIOUS
<1>3. call' = [call EXCEPT ![h] = c]
  BY <1>2 DEF RemoveContainer, Goto
<1>4. c \in Call
  BY <1>1, <1>2 DEF Call, Phases
<1>5. OpenCall(c)
  BY <1>1, <1>2 DEF Call, OpenCall
<1>6. Course(c)
  BY <1>1, <1>2 DEF Call, Course, AtItem, RemoveContainer, At
<1>7. containers' \in [Bindings -> [Assets -> {"missing", "exited"} \cup Images]]
  BY ContainerSet DEF RemoveContainer
<1> QED
  BY <1>3, <1>4, <1>5, <1>6, <1>7, QuietStep DEF RemoveContainer

LEMMA MarkStoppedStep ==
  ASSUME ExposureInv, NEW h \in Handlers, MarkStopped(h)
  PROVE  ExposureInv'
<1> DEFINE p == IF call[h].item = NoItem THEN "stopping" ELSE "inspect"
<1>1. call[h] \in Call /\ OpenCall(call[h]) /\ Course(call[h])
  BY Busy DEF MarkStopped, At
<1>2. PICK r \in call[h].hand : Put(r, [r.copy EXCEPT !.status = "stopped"])
  BY DEF MarkStopped
<1>3. r \in Held /\ r.copy \in Record /\ r.copy.status = "running" /\ OpenRecord(r.copy)
  BY <1>1, <1>2 DEF Call, Held, OpenCall
<1>4. PICK d : d = [r.copy EXCEPT !.status = "stopped"]
  OBVIOUS
<1>5. d \in Record /\ OpenRecord(d)
  BY <1>3, <1>4 DEF Record, OpenRecord
<1>6. Grows
  BY DEF Grows, Routed, ExposureInv, TypeOK, MarkStopped
<1>7. records' \in Seq(Record) /\ RecordsOpen'
  BY <1>2, <1>3, <1>4, <1>5, <1>6, OpenRecordStays, RecordPut
<1>8. PICK c : c = [call[h] EXCEPT !.phase = p, !.hand = {}]
  OBVIOUS
<1>9. call' = [call EXCEPT ![h] = c]
  BY <1>8 DEF MarkStopped
<1>10. c \in Call
  BY <1>1, <1>8 DEF Call, Phases
<1>11. OpenCall(c)
  BY <1>1, <1>8 DEF Call, OpenCall
<1>12. Course(c)
  BY <1>1, <1>8 DEF Call, Course, AtItem, MarkStopped, At
<1> QED
  BY <1>7, <1>9, <1>10, <1>11, <1>12, RecordStep DEF MarkStopped

LEMMA ItemInHand ==
  ASSUME ExposureInv, NEW h \in Handlers, call[h].phase \in AtItem
  PROVE  /\ call[h] \in Call /\ OpenCall(call[h]) /\ Course(call[h])
         /\ call[h].item # NoItem /\ call[h].item \in Item
         /\ call[h].binding \in Bindings /\ call[h].item.asset \in Assets
         /\ call[h].item.image \in Images
<1>1. call[h] \in Call /\ OpenCall(call[h]) /\ Course(call[h])
  BY Busy DEF AtItem
<1> QED
  BY <1>1 DEF Course, Call, Item

LEMMA InspectStep ==
  ASSUME ExposureInv, NEW h \in Handlers, Inspect(h)
  PROVE  ExposureInv'
<1>1. call[h].phase \in AtItem /\ call[h].phase \in Working
  BY DEF Inspect, At, AtItem, Working
<1>2. PICK p \in Working : Goto(h, p)
  BY DEF Inspect, Working, AtItem
<1> QED
  BY <1>1, <1>2, ItemInHand, ItemStep DEF Inspect, ExposureInv, TypeOK

LEMMA RemoveDeadStep ==
  ASSUME ExposureInv, NEW h \in Handlers, RemoveDead(h)
  PROVE  ExposureInv'
<1>1. call[h].phase \in AtItem /\ call[h].phase \in Working /\ "run" \in Working
  BY DEF RemoveDead, At, AtItem, Working
<1>2. containers' \in [Bindings -> [Assets -> {"missing", "exited"} \cup Images]]
  BY ContainerSet DEF RemoveDead
<1> QED
  BY <1>1, <1>2, ItemInHand, ItemStep DEF RemoveDead

LEMMA RunStep ==
  ASSUME ExposureInv, NEW h \in Handlers, Run(h)
  PROVE  ExposureInv'
<1>1. call[h].phase \in AtItem /\ call[h].phase \in Working
  BY DEF Run, At, AtItem, Working
<1>2. PICK p \in Working : Goto(h, p)
  BY DEF Run, Working, AtItem
<1>3. call[h].item.image \in {"missing", "exited"} \cup Images
  BY <1>1, ItemInHand
<1>4. \/ SetContainer(call[h].binding, call[h].item.asset, call[h].item.image)
      \/ containers' = containers
  BY DEF Run
<1>5. containers' \in [Bindings -> [Assets -> {"missing", "exited"} \cup Images]]
  BY <1>3, <1>4, ContainerSet DEF ExposureInv, TypeOK
<1> QED
  BY <1>1, <1>2, <1>5, ItemInHand, ItemStep DEF Run

LEMMA VerifyStep ==
  ASSUME ExposureInv, NEW h \in Handlers, Verify(h)
  PROVE  ExposureInv'
<1>1. call[h].phase \in AtItem /\ call[h].phase \in Working
  BY DEF Verify, At, AtItem, Working
<1>2. PICK p \in Working : Goto(h, p)
  BY DEF Verify, Working, AtItem
<1> QED
  BY <1>1, <1>2, ItemInHand, ItemStep DEF Verify, ExposureInv, TypeOK

LEMMA StartSidecarsStep ==
  ASSUME ExposureInv, NEW h \in Handlers, StartSidecars(h)
  PROVE  ExposureInv'
<1>1. call[h].phase \in AtItem /\ call[h].phase \in Working
  BY DEF StartSidecars, At, AtItem, Working
<1>2. PICK p \in Working : Goto(h, p)
  BY DEF StartSidecars, Working, AtItem
<1> QED
  BY <1>1, <1>2, ItemInHand, ItemStep DEF StartSidecars, ExposureInv, TypeOK

LEMMA CleanStep ==
  ASSUME ExposureInv, NEW h \in Handlers, Clean(h)
  PROVE  ExposureInv'
<1>1. call[h].phase \in AtItem /\ call[h].phase \in Working /\ "fail" \in Working
  BY DEF Clean, At, AtItem, Working
<1>2. containers' \in [Bindings -> [Assets -> {"missing", "exited"} \cup Images]]
  BY ContainerSet DEF Clean
<1> QED
  BY <1>1, <1>2, ItemInHand, ItemStep DEF Clean

\* The route comes before the record, so that the record can rely on it.
LEMMA RouteStep ==
  ASSUME ExposureInv, NEW h \in Handlers, Route(h)
  PROVE  ExposureInv'
<1>1. call[h].phase \in AtItem /\ call[h].phase = "route"
  BY DEF Route, At, AtItem
<1>2. call[h] \in Call /\ OpenCall(call[h]) /\ Course(call[h])
  BY <1>1, ItemInHand
<1>3. PICK c : c = [call[h] EXCEPT !.phase = "record"]
  OBVIOUS
<1>4. PICK d : d = call[h]
  OBVIOUS
<1>5. call' = [call EXCEPT ![h] = c]
  BY <1>3 DEF Route, Goto
<1>6. c \in Call /\ Course(c)
  <2>1. c \in Call
    BY <1>2, <1>3 DEF Call, Phases
  <2>2. Course(c)
    BY <1>1, <1>2, <1>3 DEF Call, Course, AtItem
  <2> QED
    BY <2>1, <2>2
<1>7. /\ c.binding = d.binding /\ c.item = d.item /\ c.hand = d.hand /\ c.stops = d.stops
      /\ c.warm = d.warm /\ c.todo = d.todo /\ c.seen = d.seen
  BY <1>2, <1>3, <1>4 DEF Call
<1>8. UNCHANGED <<unlocked, opened>> /\ records' = records /\ view' = view /\ containers' = containers
  BY DEF Route
<1>9. /\ routes' \in [Bindings -> [Assets -> Nat]] /\ now' \in Nat
      /\ Grows /\ RoutesOpen'
      /\ ~d.warm => routes'[d.binding][d.item.asset] > 0
  <2>1. CASE d.warm
    <3>1. routes' = routes /\ now' = now
      BY <1>4, <2>1 DEF Route
    <3>2. Grows
      BY <1>8, <3>1 DEF Grows, Routed
    <3> QED
      BY <2>1, <3>1, <3>2, RoutesStay DEF ExposureInv, TypeOK
  <2>2. CASE ~d.warm
    <3>1. WriteRoute(call[h].binding, call[h].item.asset)
      BY <1>4, <2>2 DEF Route
    <3> QED
      BY <1>1, <1>4, <1>8, <2>2, <3>1, ItemRouted
  <2> QED
    BY <2>1, <2>2
<1>10. OpenCall(d)'
  BY <1>2, <1>4, <1>9, OpenCallStays
<1>11. OpenCall(c)'
  <2>1. ~c.warm => Routed(c.binding, c.item.asset)'
    BY <1>7, <1>9 DEF Routed
  <2> QED
    BY <1>7, <1>10, <2>1 DEF OpenCall
<1>12. records' \in Seq(Record) /\ RecordsOpen' /\ ViewOpen'
  BY <1>8, <1>9, RecordsStay, ViewStays
<1> QED
  BY <1>5, <1>6, <1>8, <1>9, <1>11, <1>12, HandlerStep DEF ExposureInv, TypeOK

LEMMA RecordRunningStep ==
  ASSUME ExposureInv, NEW h \in Handlers, RecordRunning(h)
  PROVE  ExposureInv'
<1>1. call[h].phase \in AtItem /\ call[h].phase = "record"
  BY DEF RecordRunning, At, AtItem
<1>2. /\ call[h] \in Call /\ OpenCall(call[h]) /\ Course(call[h])
      /\ call[h].item # NoItem /\ call[h].item.asset \in Assets /\ call[h].item.image \in Images
      /\ call[h].binding \in Bindings /\ call[h].warm \in BOOLEAN
  BY <1>1, ItemInHand DEF Call
<1>3. PICK new : new = NewRecord(call[h], "running", call[h].item.image)
  OBVIOUS
<1>4. new \in Record
  BY <1>2, <1>3 DEF NewRecord, Record
<1>5. OpenRecord(new)
  BY <1>1, <1>2, <1>3 DEF NewRecord, OpenRecord, OpenCall
<1>6. Grows
  BY DEF Grows, Routed, ExposureInv, TypeOK, RecordRunning
<1>7. records' = Append(records, new)
  BY <1>3 DEF RecordRunning
<1>8. records' \in Seq(Record) /\ RecordsOpen'
  BY <1>4, <1>5, <1>6, <1>7, OpenRecordStays, RecordAppended
<1>9. PICK c : c = Started(call[h])
  OBVIOUS
<1>10. c \in Call /\ OpenCall(c) /\ Course(c) /\ call' = [call EXCEPT ![h] = c]
  BY <1>1, <1>2, <1>9, StartedInOrder DEF RecordRunning
<1> QED
  BY <1>8, <1>10, RecordStep DEF RecordRunning

LEMMA RecordFailedStep ==
  ASSUME ExposureInv, NEW h \in Handlers, RecordFailed(h)
  PROVE  ExposureInv'
<1>1. call[h].phase \in AtItem
  BY DEF RecordFailed, At, AtItem
<1>2. /\ call[h] \in Call /\ OpenCall(call[h]) /\ Course(call[h])
      /\ call[h].item # NoItem /\ call[h].item.asset \in Assets
      /\ call[h].binding \in Bindings /\ call[h].warm \in BOOLEAN
  BY <1>1, ItemInHand DEF Call
<1>3. PICK new : new = NewRecord(call[h], "failed", Base)
  OBVIOUS
<1>4. new \in Record
  BY <1>2, <1>3 DEF NewRecord, Record, Images
<1>5. OpenRecord(new)
  BY <1>1, <1>2, <1>3 DEF NewRecord, OpenRecord, OpenCall
<1>6. Grows
  BY DEF Grows, Routed, ExposureInv, TypeOK, RecordFailed
<1>7. records' = Append(records, new)
  BY <1>3 DEF RecordFailed
<1>8. records' \in Seq(Record) /\ RecordsOpen'
  BY <1>4, <1>5, <1>6, <1>7, OpenRecordStays, RecordAppended
<1>9. PICK c : c = Started(call[h])
  OBVIOUS
<1>10. c \in Call /\ OpenCall(c) /\ Course(c) /\ call' = [call EXCEPT ![h] = c]
  BY <1>1, <1>2, <1>9, StartedInOrder DEF RecordFailed
<1> QED
  BY <1>8, <1>10, RecordStep DEF RecordFailed

LEMMA AllStartedStep ==
  ASSUME ExposureInv, NEW h \in Handlers, AllStarted(h)
  PROVE  ExposureInv'
<1>1. call[h] \in Call /\ OpenCall(call[h]) /\ Course(call[h]) /\ call[h].phase = "starting"
  BY Busy DEF AllStarted, At
<1>2. CASE call[h].warm
  BY <1>2, QuietStep DEF AllStarted, ExposureInv, TypeOK
<1>3. CASE ~call[h].warm /\ Doing(h, "configure") /\ Action(h).variant.swap
  <2>1. PICK c : c = [call[h] EXCEPT !.phase = "configure"]
    OBVIOUS
  <2>2. c \in Call
    BY <1>1, <2>1 DEF Call, Phases
  <2>3. OpenCall(c)
    BY <1>1, <2>1 DEF Call, OpenCall
  <2>4. Course(c)
    BY <1>1, <1>3, <2>1 DEF Call, Course, AtItem, Doing, Action
  <2>5. call' = [call EXCEPT ![h] = c]
    BY <1>3, <2>1 DEF AllStarted
  <2> QED
    BY <2>2, <2>3, <2>4, <2>5, QuietStep DEF AllStarted, ExposureInv, TypeOK
<1>4. CASE ~call[h].warm /\ ~(Doing(h, "configure") /\ Action(h).variant.swap)
  <2>1. PICK c : c = Done(call[h])
    OBVIOUS
  <2>2. call[h].acts # <<>>
    BY <1>1, <1>4 DEF Course
  <2>3. c \in Call /\ OpenCall(c) /\ Course(c)
    BY <1>1, <1>4, <2>1, <2>2, DoneInOrder
  <2>4. call' = [call EXCEPT ![h] = c]
    BY <1>4, <2>1 DEF AllStarted
  <2> QED
    BY <2>3, <2>4, QuietStep DEF AllStarted, ExposureInv, TypeOK
<1> QED
  BY <1>2, <1>3, <1>4

-------------------------------------------------------------------------------
(* Unlocking, recycling and the end of an apply.                             *)

LEMMA AskedInOrder ==
  ASSUME NEW c \in Call, Course(c), c.acts # <<>>,
         c.phase = "target" \/ Head(c.acts).kind = "unlock"
  PROVE  Asked(Head(c.acts)) \in Assets
BY HeadAction DEF Course, Asked

LEMMA UnlockStep ==
  ASSUME ExposureInv, NEW h \in Handlers, Unlock(h)
  PROVE  ExposureInv'
<1>1. call[h].phase = "acting" /\ call[h].acts # <<>> /\ Head(call[h].acts).kind = "unlock"
  BY DEF Unlock, At, Doing, Action
<1>2. call[h] \in Call /\ Course(call[h]) /\ ~call[h].warm
  BY <1>1, Busy DEF Course, AtItem
<1>3. Asked(Head(call[h].acts)) \in Assets
  BY <1>1, <1>2, AskedInOrder
<1>4. ReadBinding(h, "unlocking", {Asked(Head(call[h].acts))})
  BY DEF Unlock, Action
<1> QED
  BY <1>1, <1>2, <1>3, <1>4, ReadBindingStep

LEMMA UnlockTargetStep ==
  ASSUME ExposureInv, NEW h \in Handlers, UnlockTarget(h)
  PROVE  ExposureInv'
<1>1. call[h].phase = "target"
  BY DEF UnlockTarget, At
<1>2. call[h] \in Call /\ Course(call[h]) /\ ~call[h].warm /\ call[h].acts # <<>>
  BY <1>1, Busy DEF Course, AtItem
<1>3. Asked(Head(call[h].acts)) \in Assets
  BY <1>1, <1>2, AskedInOrder
<1>4. ReadBinding(h, "unlocking", {Asked(Head(call[h].acts))})
  BY DEF UnlockTarget, Action
<1> QED
  BY <1>1, <1>2, <1>3, <1>4, ReadBindingStep

LEMMA AskedImageInOrder ==
  ASSUME NEW c \in Call, c.acts # <<>>
  PROVE  AskedImage(Head(c.acts)) \in Images
BY HeadAction DEF AskedImage, Images, Configs

LEMMA WriteUnlockedStep ==
  ASSUME ExposureInv, NEW h \in Handlers, WriteUnlocked(h)
  PROVE  ExposureInv'
<1> DEFINE b == call[h].binding
           x == Asked(Action(h))
           image == AskedImage(Action(h))
           open == call[h].merged
           todo == {[asset |-> y, image |-> IF y = x THEN image ELSE Base] :
                      y \in Starts(open, call[h].known, x)}
<1>1. call[h] \in Call /\ OpenCall(call[h]) /\ Course(call[h]) /\ call[h].phase = "unlocking"
  BY Busy DEF WriteUnlocked, At
<1>2. ~call[h].warm /\ call[h].acts # <<>>
  BY <1>1 DEF Course, AtItem
<1>3. b \in Bindings /\ open \subseteq Assets /\ x \in open /\ image \in Images /\ Base \in Images
  BY <1>1, <1>2, AskedImageInOrder DEF Call, Course, Action, Images
<1>4. WriteBinding(h) /\ UNCHANGED <<containers, records, routes, view, now>>
  BY DEF WriteUnlocked
<1>5. Grows /\ open \subseteq opened'[b]
  BY <1>1, <1>4, BindingWritten
<1>6. Starts(open, call[h].known, x) \subseteq open
  BY <1>3 DEF Starts
<1>7. call' = [call EXCEPT ![h] = [call[h] EXCEPT !.phase = "starting", !.known = open,
                                                  !.merged = {}, !.todo = todo]]
  BY DEF WriteUnlocked
<1> HIDE DEF b, x, image, open
<1>8. todo \in SUBSET Item /\ \A it \in todo : it.asset \in open
  <2> SUFFICES ASSUME NEW y \in Starts(open, call[h].known, x)
               PROVE  /\ [asset |-> y, image |-> IF y = x THEN image ELSE Base] \in Item
                      /\ [asset |-> y, image |-> IF y = x THEN image ELSE Base].asset \in open
    OBVIOUS
  <2> QED
    BY <1>3, <1>6 DEF Item
<1> HIDE DEF todo
<1>9. PICK c : c = [call[h] EXCEPT !.phase = "starting", !.known = open, !.merged = {}, !.todo = todo]
  OBVIOUS
<1>10. PICK d : d = call[h]
  OBVIOUS
<1>11. c \in Call
  BY <1>1, <1>3, <1>8, <1>9 DEF Call, Phases
<1>12. Course(c)
  BY <1>1, <1>2, <1>9 DEF Call, Course, AtItem
<1>13. /\ c.binding = d.binding /\ c.item = d.item /\ c.hand = d.hand /\ c.stops = d.stops
       /\ c.warm = d.warm /\ c.seen = d.seen /\ c.todo = todo /\ c.phase = "starting"
       /\ d.binding = b
  BY <1>1, <1>9, <1>10 DEF Call, b
<1>14. OpenCall(d)' /\ d \in Call
  BY <1>1, <1>5, <1>10, OpenCallStays
<1>15. \A it \in (c.todo \cup {c.item}) \ {NoItem} : it.asset \in opened'[c.binding]
  <2>1. \A it \in {d.item} \ {NoItem} : it.asset \in opened'[d.binding]
    BY <1>2, <1>10, <1>14 DEF OpenCall
  <2> QED
    BY <1>5, <1>8, <1>13, <2>1
<1>16. OpenCall(c)'
  BY <1>13, <1>14, <1>15 DEF OpenCall
<1> QED
  BY <1>1, <1>4, <1>7, <1>9, <1>11, <1>12, <1>16, WriteBindingStep

LEMMA CopiesInOrder ==
  ASSUME ExposureInv, NEW b \in Bindings
  PROVE  /\ RunningCopies(b) \subseteq Held
         /\ \A r \in RunningCopies(b) : r.copy.status = "running" /\ OpenRecord(r.copy)
<1>1. RunningCopies(b) \subseteq Held
  BY HeldInOrder DEF RunningCopies
<1>2. \A r \in RunningCopies(b) : r.copy.status = "running" /\ OpenRecord(r.copy)
  <2> SUFFICES ASSUME NEW i \in DOMAIN records, records[i].status = "running"
               PROVE  OpenRecord([at |-> i, copy |-> records[i]].copy)
    BY DEF RunningCopies
  <2> QED
    BY HeldInOrder
<1> QED
  BY <1>1, <1>2

LEMMA ListRunningStep ==
  ASSUME ExposureInv, NEW h \in Handlers, call[h].phase # "idle", ~call[h].warm,
         call[h].acts # <<>>, NEW p \in {"stopping", "forgetting"}, ListRunning(h, p)
  PROVE  ExposureInv'
<1> DEFINE stops == RunningCopies(call[h].binding)
<1>1. call[h] \in Call /\ OpenCall(call[h]) /\ Course(call[h])
  BY Busy
<1>2. call[h].binding \in Bindings
  BY <1>1 DEF Call
<1>3. stops \subseteq Held /\ \A r \in stops : r.copy.status = "running" /\ OpenRecord(r.copy)
  BY <1>2, CopiesInOrder
<1>4. call' = [call EXCEPT ![h].phase = p, ![h].stops = stops]
  BY DEF ListRunning
<1> HIDE DEF stops
<1>5. PICK c : c = [call[h] EXCEPT !.phase = p, !.stops = stops]
  OBVIOUS
<1>6. call' = [call EXCEPT ![h] = c]
  BY <1>4, <1>5
<1>7. c \in Call
  BY <1>1, <1>3, <1>5 DEF Call, Phases
<1>8. OpenCall(c)
  BY <1>1, <1>3, <1>5 DEF Call, OpenCall
<1>9. Course(c)
  BY <1>1, <1>5 DEF Call, Course, AtItem
<1> QED
  BY <1>6, <1>7, <1>8, <1>9, QuietStep DEF ListRunning, ExposureInv, TypeOK

LEMMA BeginRecycleStep ==
  ASSUME ExposureInv, NEW h \in Handlers, BeginRecycle(h)
  PROVE  ExposureInv'
<1>1. call[h].phase = "acting" /\ call[h].acts # <<>>
  BY DEF BeginRecycle, At, Doing
<1>2. ~call[h].warm
  BY <1>1, Busy DEF Course, AtItem
<1> QED
  BY <1>1, <1>2, ListRunningStep DEF BeginRecycle

LEMMA StopNextStep ==
  ASSUME ExposureInv, NEW h \in Handlers, StopNext(h)
  PROVE  ExposureInv'
<1>1. call[h] \in Call /\ OpenCall(call[h]) /\ Course(call[h])
  BY Busy DEF StopNext, At
<1>2. PICK r \in call[h].stops :
        call' = [call EXCEPT ![h] =
          [call[h] EXCEPT !.phase = "removing", !.hand = {r}, !.stops = @ \ {r}]]
  BY DEF StopNext
<1>3. PICK c : c = [call[h] EXCEPT !.phase = "removing", !.hand = {r}, !.stops = @ \ {r}]
  OBVIOUS
<1>4. c \in Call
  BY <1>1, <1>2, <1>3 DEF Call, Phases
<1>5. OpenCall(c)
  BY <1>1, <1>2, <1>3 DEF Call, OpenCall
<1>6. Course(c)
  BY <1>1, <1>3 DEF Call, Course, AtItem, StopNext, At
<1> QED
  BY <1>2, <1>3, <1>4, <1>5, <1>6, QuietStep DEF StopNext, ExposureInv, TypeOK

LEMMA RecyclingCourse ==
  ASSUME ExposureInv, NEW h \in Handlers, call[h].phase \in {"stopping", "forgetting", "recycling"}
  PROVE  ~call[h].warm /\ call[h].acts # <<>>
BY Busy DEF Course, AtItem

LEMMA ListAgainStep ==
  ASSUME ExposureInv, NEW h \in Handlers, ListAgain(h)
  PROVE  ExposureInv'
BY RecyclingCourse, ListRunningStep DEF ListAgain, At

LEMMA ForgetNextStep ==
  ASSUME ExposureInv, NEW h \in Handlers, ForgetNext(h)
  PROVE  ExposureInv'
<1>1. call[h] \in Call /\ OpenCall(call[h]) /\ Course(call[h]) /\ call[h].phase = "forgetting"
  BY Busy DEF ForgetNext, At
<1>2. PICK r \in call[h].stops : /\ Put(r, [r.copy EXCEPT !.status = "stopped"])
                                 /\ call' = [call EXCEPT ![h].stops = @ \ {r}]
  BY DEF ForgetNext
<1>3. r \in Held /\ r.copy \in Record /\ OpenRecord(r.copy) /\ r.copy.status = "running"
  BY <1>1 DEF Call, Held, OpenCall
<1>4. PICK copy : copy = [r.copy EXCEPT !.status = "stopped"]
  OBVIOUS
<1>5. copy \in Record /\ OpenRecord(copy)
  BY <1>3, <1>4 DEF Record, OpenRecord
<1>6. UNCHANGED <<unlocked, opened, containers, routes, view, now>>
  BY DEF ForgetNext
<1>7. Grows
  BY <1>6 DEF Grows, Routed, ExposureInv, TypeOK
<1>8. records' \in Seq(Record) /\ RecordsOpen'
  BY <1>2, <1>3, <1>4, <1>5, <1>7, OpenRecordStays, RecordPut
<1>9. PICK c : c = [call[h] EXCEPT !.stops = @ \ {r}]
  OBVIOUS
<1>10. call' = [call EXCEPT ![h] = c]
  BY <1>2, <1>9
<1>11. c \in Call
  BY <1>1, <1>9 DEF Call
<1>12. OpenCall(c)
  BY <1>1, <1>9 DEF Call, OpenCall
<1>13. Course(c)
  BY <1>1, <1>9 DEF Call, Course
<1> QED
  BY <1>6, <1>8, <1>10, <1>11, <1>12, <1>13, RecordStep

LEMMA RecycleBindingStep ==
  ASSUME ExposureInv, NEW h \in Handlers, RecycleBinding(h)
  PROVE  ExposureInv'
<1>1. call[h].phase = "forgetting" /\ ReadBinding(h, "recycling", {})
  BY DEF RecycleBinding, At
<1> QED
  BY <1>1, RecyclingCourse, ReadBindingStep

LEMMA WriteRecycledStep ==
  ASSUME ExposureInv, NEW h \in Handlers, WriteRecycled(h)
  PROVE  ExposureInv'
<1>1. call[h] \in Call /\ OpenCall(call[h]) /\ call[h].phase = "recycling"
  BY Busy DEF WriteRecycled, At
<1>2. PICK d : d = [call[h] EXCEPT !.known = call[h].merged, !.merged = {}]
  OBVIOUS
<1>3. d \in Call
  BY <1>1, <1>2 DEF Call
<1>4. OpenCall(d) /\ ~d.warm /\ d.acts # <<>>
  BY <1>1, <1>2, RecyclingCourse DEF Call, OpenCall
<1>5. PICK c : c = Done(d)
  OBVIOUS
<1>6. c \in Call /\ OpenCall(c) /\ Course(c)
  BY <1>3, <1>4, <1>5, DoneInOrder
<1>7. call' = [call EXCEPT ![h] = c]
  BY <1>2, <1>5 DEF WriteRecycled
<1>8. WriteBinding(h) /\ UNCHANGED <<containers, records, routes, view, now>>
  BY DEF WriteRecycled
<1>9. OpenCall(c)'
  BY <1>1, <1>6, <1>8, BindingWritten, OpenCallStays
<1> QED
  BY <1>1, <1>6, <1>7, <1>8, <1>9, WriteBindingStep

\* What is found accessible has a route, what is found failed was unlocked.
LEMMA ListsInOrder ==
  ASSUME ExposureInv, NEW b \in Bindings
  PROVE  /\ Accessible(b) \subseteq Assets /\ Failed(b) \subseteq Assets
         /\ \A x \in Accessible(b) : Routed(b, x)
         /\ Failed(b) \subseteq opened[b]
<1>1. \A i \in Shown(b) : /\ records[i] \in Record /\ records[i].binding = b
                          /\ records[i].asset \in opened[b]
                          /\ records[i].status # "failed" => Routed(b, records[i].asset)
  BY HeldInOrder DEF Shown, OpenRecord
<1>2. \A i \in Shown(b) : records[i].asset \in Assets
  BY <1>1 DEF Record
<1> QED
  BY <1>1, <1>2 DEF Accessible, Failed

LEMMA ReadAccessibleStep ==
  ASSUME ExposureInv, NEW h \in Handlers, ReadAccessible(h)
  PROVE  ExposureInv'
<1>1. call[h] \in Call /\ OpenCall(call[h]) /\ Course(call[h]) /\ call[h].phase = "acting"
  BY Busy DEF ReadAccessible, At
<1>2. call[h].binding \in Bindings
  BY <1>1 DEF Call
<1>3. PICK c : c = [call[h] EXCEPT !.phase = "syncing", !.seen = Accessible(call[h].binding)]
  OBVIOUS
<1>4. call' = [call EXCEPT ![h] = c]
  BY <1>3 DEF ReadAccessible
<1>5. c \in Call
  BY <1>1, <1>2, <1>3, ListsInOrder DEF Call, Phases
<1>6. OpenCall(c)
  BY <1>1, <1>2, <1>3, ListsInOrder DEF Call, OpenCall
<1>7. Course(c)
  BY <1>1, <1>3 DEF Call, Course, AtItem
<1> QED
  BY <1>4, <1>5, <1>6, <1>7, QuietStep DEF ReadAccessible, ExposureInv, TypeOK

LEMMA SyncStep ==
  ASSUME ExposureInv, NEW h \in Handlers, Sync(h)
  PROVE  ExposureInv'
<1> DEFINE b == call[h].binding
<1>1. call[h] \in Call /\ OpenCall(call[h])
  BY Busy DEF Sync, At
<1>2. b \in Bindings /\ call[h].seen \subseteq Assets /\ \A x \in call[h].seen : Routed(b, x)
  BY <1>1 DEF Call, OpenCall
<1>3. Failed(b) \subseteq Assets /\ Failed(b) \subseteq opened[b]
  BY <1>2, ListsInOrder
<1>4. view \in [Bindings -> [exposed : SUBSET Assets, failed : SUBSET Assets]]
  BY DEF ExposureInv, TypeOK
<1>5. /\ view' \in [Bindings -> [exposed : SUBSET Assets, failed : SUBSET Assets]]
      /\ view'[b] = [exposed |-> call[h].seen, failed |-> Failed(b)]
      /\ \A d \in Bindings : d # b => view'[d] = view[d]
  BY <1>2, <1>3, <1>4 DEF Sync
<1>6. UNCHANGED <<unlocked, opened, containers, records, routes, now>> /\ call' = [call EXCEPT ![h] = Idle]
  BY DEF Sync
<1>7. ASSUME NEW d \in Bindings
      PROVE  (\A x \in view'[d].exposed : Routed(d, x)) /\ view'[d].failed \subseteq opened[d]
  <2>1. CASE d = b
    BY <1>2, <1>3, <1>5, <2>1
  <2>2. CASE d # b
    BY <1>5, <2>2 DEF ExposureInv, ViewOpen
  <2> QED
    BY <2>1, <2>2
<1>8. ViewOpen'
  BY <1>6, <1>7 DEF ViewOpen, Routed
<1>9. Grows
  BY <1>6 DEF Grows, Routed
<1>10. records' \in Seq(Record) /\ RecordsOpen' /\ RoutesOpen'
  BY <1>6, <1>9, RecordsStay, RoutesStay
<1> QED
  BY <1>5, <1>6, <1>8, <1>9, <1>10, HandlerStep DEF ExposureInv, TypeOK

-------------------------------------------------------------------------------
(* Steps of the environment, and the theorems.                               *)

LEMMA ContainerExitsStep ==
  ASSUME ExposureInv, NEW b \in Bindings, NEW x \in Assets, ContainerExits(b, x)
  PROVE  ExposureInv'
<1>1. SetContainer(b, x, "exited")
  BY DEF ContainerExits
<1>2. PICK state : state = "exited"
  OBVIOUS
<1>3. containers' \in [Bindings -> [Assets -> {"missing", "exited"} \cup Images]]
  BY <1>1, <1>2, ContainerSet
<1>4. UNCHANGED <<unlocked, opened, records, routes, view, call, now>>
  BY DEF ContainerExits
<1>5. TypeOK'
  BY <1>3, <1>4 DEF ExposureInv, TypeOK
<1>6. RoutesOpen' /\ ViewOpen'
  BY <1>4 DEF ExposureInv, RoutesOpen, ViewOpen, Routed
<1>7. RecordsOpen' /\ CallsOpen'
  BY <1>4 DEF ExposureInv, RecordsOpen, CallsOpen, OpenRecord, OpenCall, Course, Routed
<1> QED
  BY <1>5, <1>6, <1>7 DEF ExposureInv

\* A crash leaves no handler with anything to write, but adapters.
LEMMA CrashStep ==
  ASSUME ExposureInv, Crash
  PROVE  ExposureInv'
<1>1. UNCHANGED <<unlocked, opened, containers, records, routes, view, now>>
      /\ call' = [h \in Handlers |-> IF call[h].phase = "resolving" THEN call[h] ELSE Idle]
  BY DEF Crash, At
<1>2. TypeOK'
  BY <1>1 DEF ExposureInv, TypeOK
<1>3. RoutesOpen' /\ ViewOpen'
  BY <1>1 DEF ExposureInv, RoutesOpen, ViewOpen, Routed
<1>4. RecordsOpen'
  BY <1>1 DEF ExposureInv, RecordsOpen, OpenRecord, Routed
<1>5. ASSUME NEW h \in Handlers, call'[h] # Idle PROVE (OpenCall(call[h]) /\ Course(call[h]))'
  <2>1. call'[h] = call[h] /\ OpenCall(call[h]) /\ Course(call[h])
    BY <1>1, <1>5 DEF ExposureInv, CallsOpen
  <2> QED
    BY <1>1, <2>1 DEF OpenCall, Course, OpenRecord, Routed
<1> QED
  BY <1>2, <1>3, <1>4, <1>5 DEF ExposureInv, CallsOpen

LEMMA StutterStep ==
  ASSUME ExposureInv, UNCHANGED vars
  PROVE  ExposureInv'
<1>1. UNCHANGED <<unlocked, opened, containers, records, routes, view, now, call>>
  BY DEF vars
<1>2. TypeOK'
  BY <1>1 DEF ExposureInv, TypeOK
<1>3. RoutesOpen' /\ ViewOpen'
  BY <1>1 DEF ExposureInv, RoutesOpen, ViewOpen, Routed
<1>4. RecordsOpen' /\ CallsOpen'
  BY <1>1 DEF ExposureInv, RecordsOpen, CallsOpen, OpenRecord, OpenCall, Course, Routed
<1> QED
  BY <1>2, <1>3, <1>4 DEF ExposureInv

LEMMA RequestsStep ==
  ASSUME ExposureInv, NEW h \in Handlers, Requests(h)
  PROVE  ExposureInv'
<1> SUFFICES ASSUME NEW b \in Bindings,
                    \/ \E n \in 1..MaxActions : \E acts \in [1..n -> Actions] : Apply(h, b, acts)
                    \/ \E assets \in SUBSET Warm : Prewarm(h, b, assets)
                    \/ Resolve(h, b)
             PROVE  ExposureInv'
  BY DEF Requests
<1>1. ASSUME NEW n \in 1..MaxActions, NEW acts \in [1..n -> Actions], Apply(h, b, acts)
      PROVE  ExposureInv'
  <2>1. n \in Nat
    OBVIOUS
  <2>2. acts \in UNION {[1..m -> Actions] : m \in Nat}
    BY <2>1
  <2>3. acts \in Seq(Actions)
    BY <2>2, SeqDef, Zenon
  <2> QED
    BY <1>1, <2>3, ApplyStep
<1> QED
  BY <1>1, PrewarmStep, ResolveStep

LEMMA HandlersStep ==
  ASSUME ExposureInv, NEW h \in Handlers, Step(h)
  PROVE  ExposureInv'
BY UnlockStep, UnlockTargetStep, WriteUnlockedStep, RevealStep, WriteRevealedStep,
   WriteResolvedStep, FindConfiguredStep, WriteConfiguredStep,
   FindRunningStep, AttachStep, UnhideStep, RemoveContainerStep, MarkStoppedStep,
   InspectStep, RemoveDeadStep, RunStep, VerifyStep, StartSidecarsStep,
   RouteStep, RecordRunningStep, CleanStep, RecordFailedStep, AllStartedStep,
   BeginRecycleStep, StopNextStep, ListAgainStep, ForgetNextStep, RecycleBindingStep,
   WriteRecycledStep, ReadAccessibleStep, SyncStep
DEF Step

LEMMA InitOpen == Init => ExposureInv
<1> SUFFICES ASSUME Init PROVE ExposureInv
  OBVIOUS
<1>1. TypeOK
  BY DEF Init, TypeOK, Images
<1>2. RoutesOpen /\ ViewOpen
  BY DEF Init, RoutesOpen, ViewOpen, Routed
<1>3. RecordsOpen /\ CallsOpen
  BY DEF Init, RecordsOpen, CallsOpen
<1> QED
  BY <1>1, <1>2, <1>3 DEF ExposureInv

LEMMA StepOpen == ExposureInv /\ [Next]_vars => ExposureInv'
<1> SUFFICES ASSUME ExposureInv, [Next]_vars PROVE ExposureInv'
  OBVIOUS
<1>1. ASSUME NEW h \in Handlers, Requests(h) \/ Step(h) PROVE ExposureInv'
  BY <1>1, RequestsStep, HandlersStep
<1>2. ASSUME NEW b \in Bindings, NEW x \in Assets, ContainerExits(b, x) PROVE ExposureInv'
  BY <1>2, ContainerExitsStep
<1>3. CASE Crash
  BY <1>3, CrashStep
<1>4. CASE UNCHANGED vars
  BY <1>4, StutterStep
<1> QED
  BY <1>1, <1>2, <1>3, <1>4 DEF Next

\* Whatever requests overlap in the thread pool, fail or are cut off by a crash:
\* every record that is not hidden, every copy a handler may still write back and
\* every asset it is about to route belongs to what the binding record has called
\* unlocked, if only until another call wrote that away, and is routed unless its
\* start failed.
THEOREM ExposureInvariant == Spec => []ExposureInv
BY InitOpen, StepOpen, PTL DEF Spec

\* In all of that, every file holds records of the shape domain.py declares: a
\* handler's stale copy never turns one into something else.
THEOREM OrchestratorTypeCorrect == Spec => []TypeOK
<1>1. ExposureInv => TypeOK
  BY DEF ExposureInv
<1> QED
  BY <1>1, ExposureInvariant, PTL

\* Only assets that the binding record has called unlocked have a route of the gateway
\* or a name in its view: no prewarm or recycle, alone or across another request or a
\* lost unlock, exposes one early.
THEOREM HiddenUntilRevealedTheorem == Spec => []HiddenUntilRevealed
<1>1. ExposureInv => HiddenUntilRevealed
  BY DEF ExposureInv, TypeOK, RoutesOpen, ViewOpen, HiddenUntilRevealed
<1> QED
  BY <1>1, ExposureInvariant, PTL

\* What a binding's gateway view calls exposed has a route that leads an attacker
\* there, however old the list was that the view was written from.
THEOREM ReachableIfExposedTheorem == Spec => []ReachableIfExposed
<1>1. ExposureInv => ReachableIfExposed
  BY DEF ExposureInv, ViewOpen, ReachableIfExposed
<1> QED
  BY <1>1, ExposureInvariant, PTL

-------------------------------------------------------------------------------
(* Requests that do not overlap: one handler.                                *)

\* What a step can do to the records that are there: only stop them, show them or
\* add configurations.
Moved ==
  /\ DOMAIN records' = DOMAIN records
  /\ \A i \in DOMAIN records :
       /\ records'[i].binding = records[i].binding /\ records'[i].asset = records[i].asset
       /\ \/ records'[i].status = records[i].status
          \/ records[i].status = "running" /\ records'[i].status = "stopped"
       /\ ~records[i].hidden => ~records'[i].hidden
       /\ records[i].configs \subseteq records'[i].configs

LEMMA UnchangedMoved ==
  ASSUME records' = records
  PROVE  Moved
BY DEF Moved

LEMMA MovedKeepsLast ==
  ASSUME Moved
  PROVE  /\ \A b, x, i : LastRecord(b, x, i) /\ i \in DOMAIN records => LastRecord(b, x, i)'
         /\ \A b, x : Running(b, x)' \subseteq Running(b, x)
BY DEF Moved, LastRecord, Running

LEMMA MovedKeeps ==
  ASSUME Moved, RunningIsLast
  PROVE  RunningIsLast'
<1>1. \A b \in Bindings : \A x \in Assets : \A i \in Running(b, x) : i \in DOMAIN records
  BY DEF Running
<1> QED
  BY <1>1, MovedKeepsLast DEF RunningIsLast

\* A copy that is still what the list holds is written back with a change.
LEMMA PutMoves ==
  ASSUME ExposureInv, NEW r \in Held, Current(r), NEW d \in Record, Put(r, d),
         d.binding = r.copy.binding, d.asset = r.copy.asset,
         d.status = r.copy.status \/ (r.copy.status = "running" /\ d.status = "stopped"),
         ~r.copy.hidden => ~d.hidden, r.copy.configs \subseteq d.configs
  PROVE  /\ Moved /\ records'[r.at] = d
         /\ \A i \in DOMAIN records : i # r.at => records'[i] = records[i]
<1>1. records \in Seq(Record) /\ r.at \in DOMAIN records /\ r.copy = records[r.at]
  BY DEF ExposureInv, TypeOK, Current
<1>2. /\ Len(records') = Len(records) /\ records' \in Seq(Record)
      /\ \A k \in 1..Len(records) : records'[k] = IF k = r.at THEN d ELSE records[k]
  BY <1>1, ExceptSeq DEF Put
<1>3. DOMAIN records' = DOMAIN records /\ DOMAIN records = 1..Len(records)
  BY <1>1, <1>2
<1>4. records'[r.at] = d /\ \A i \in DOMAIN records : i # r.at => records'[i] = records[i]
  BY <1>1, <1>2, <1>3
<1> QED
  BY <1>1, <1>3, <1>4 DEF Moved

\* A record is added.
LEMMA Added ==
  ASSUME ExposureInv, NEW new \in Record, records' = Append(records, new)
  PROVE  /\ DOMAIN records = 1..Len(records) /\ Len(records) \in Nat
         /\ DOMAIN records' = 1..(Len(records) + 1)
         /\ \A i \in DOMAIN records : records'[i] = records[i]
         /\ records'[Len(records) + 1] = new
<1>1. records \in Seq(Record)
  BY DEF ExposureInv, TypeOK
<1>2. /\ records' \in Seq(Record) /\ Len(records') = Len(records) + 1
      /\ \A k \in 1..Len(records) : records'[k] = records[k]
      /\ records'[Len(records) + 1] = new
  BY <1>1, AppendProperties
<1> QED
  BY <1>1, <1>2

LEMMA AddedKeeps ==
  ASSUME ExposureInv, RunningIsLast, NEW new \in Record, records' = Append(records, new),
         Running(new.binding, new.asset) = {}
  PROVE  RunningIsLast'
<1> DEFINE n == Len(records) + 1
<1>1. /\ DOMAIN records = 1..Len(records) /\ Len(records) \in Nat
      /\ DOMAIN records' = 1..n
      /\ \A i \in DOMAIN records : records'[i] = records[i]
      /\ records'[n] = new
  BY Added
<1> SUFFICES ASSUME NEW b \in Bindings, NEW x \in Assets, NEW i \in Running(b, x)'
             PROVE  LastRecord(b, x, i)'
  BY DEF RunningIsLast
<1>2. i \in 1..n /\ records'[i].binding = b /\ records'[i].asset = x /\ records'[i].status = "running"
  BY <1>1 DEF Running
<1>3. CASE i = n
  BY <1>1, <1>2, <1>3 DEF LastRecord
<1>4. CASE i # n
  <2>1. i \in DOMAIN records /\ i \in Running(b, x)
    BY <1>1, <1>2, <1>4 DEF Running
  <2>2. ~(new.binding = b /\ new.asset = x)
    BY <2>1
  <2>3. LastRecord(b, x, i)
    BY <2>1 DEF RunningIsLast
  <2> QED
    BY <1>1, <1>2, <2>1, <2>2, <2>3 DEF LastRecord
<1> QED
  BY <1>3, <1>4

-------------------------------------------------------------------------------
(* The hand of the one handler.                                              *)

LEMMA SerialCall ==
  ASSUME OneByOneInv, NEW h \in Handlers, call[h].phase # "idle"
  PROVE  HoldsCurrent(call[h])
BY DEF OneByOneInv

\* It goes on with nothing in hand and nothing to start.
LEMMA FreeHand ==
  ASSUME NEW h, Handlers = {h}, RunningIsLast',
         call'[h].phase \notin Holding \cup Starting, call'[h].item = NoItem,
         call'[h].hand = {}, call'[h].stops = {}
  PROVE  OneByOneInv'
<1>1. HoldsCurrent(call[h])'
  BY DEF HoldsCurrent, Holding, Starting
<1> QED
  BY <1>1 DEF OneByOneInv

\* It goes from one step of starting a runtime to the next.
LEMMA StaysAtWork ==
  ASSUME ExposureInv, OneByOneInv, NEW h, Handlers = {h}, records' = records,
         call[h].phase \in Starting, NEW p \in Starting, Goto(h, p)
  PROVE  OneByOneInv'
<1>1. call[h] \in Call
  BY Busy DEF Starting
<1>2. /\ call'[h].phase = p /\ call'[h].item = call[h].item /\ call'[h].hand = call[h].hand
      /\ call'[h].stops = call[h].stops /\ call'[h].binding = call[h].binding
  BY <1>1 DEF Goto, Call, ExposureInv, TypeOK
<1>3. HoldsCurrent(call[h])
  BY SerialCall DEF Starting
<1>4. call[h].hand = {} /\ call[h].stops = {} /\ Running(call[h].binding, call[h].item.asset) = {}
  BY <1>3 DEF HoldsCurrent, Starting, Holding, Recycling
<1>5. HoldsCurrent(call[h])'
  BY <1>2, <1>4 DEF HoldsCurrent, Starting, Holding, Between, Running
<1>6. RunningIsLast'
  BY UnchangedMoved, MovedKeeps DEF OneByOneInv
<1> QED
  BY <1>5, <1>6 DEF OneByOneInv

\* Where an unchanged list leaves the records.
LEMMA QuietRecords ==
  ASSUME OneByOneInv, records' = records
  PROVE  RunningIsLast'
BY UnchangedMoved, MovedKeeps DEF OneByOneInv

LEMMA OneByOneApply ==
  ASSUME ExposureInv, OneByOneInv, NEW h, Handlers = {h},
         NEW b \in Bindings, NEW acts \in Seq(Actions), Apply(h, b, acts)
  PROVE  OneByOneInv'
<1>1. /\ call'[h].phase = "acting" /\ call'[h].item = NoItem
      /\ call'[h].hand = {} /\ call'[h].stops = {}
  BY DEF Apply, NewCall, ExposureInv, TypeOK
<1>2. RunningIsLast'
  BY QuietRecords DEF Apply
<1> QED
  BY <1>1, <1>2, FreeHand DEF Holding, Starting

LEMMA OneByOnePrewarm ==
  ASSUME ExposureInv, OneByOneInv, NEW h, Handlers = {h},
         NEW b \in Bindings, NEW assets \in SUBSET Warm, Prewarm(h, b, assets)
  PROVE  OneByOneInv'
<1>1. /\ call'[h].phase = "starting" /\ call'[h].item = NoItem
      /\ call'[h].hand = {} /\ call'[h].stops = {}
  BY DEF Prewarm, NewCall, ExposureInv, TypeOK
<1>2. RunningIsLast'
  BY QuietRecords DEF Prewarm
<1> QED
  BY <1>1, <1>2, FreeHand DEF Holding, Starting

LEMMA OneByOneResolve ==
  ASSUME ExposureInv, OneByOneInv, NEW h, Handlers = {h}, NEW b \in Bindings, Resolve(h, b)
  PROVE  OneByOneInv'
<1>1. call' = [call EXCEPT ![h] =
        [NewCall(b, FALSE, <<>>, {}, "resolving") EXCEPT !.merged = unlocked[b]]]
  BY DEF Resolve
<1>2. call'[h] = [NewCall(b, FALSE, <<>>, {}, "resolving") EXCEPT !.merged = unlocked[b]]
  BY <1>1 DEF ExposureInv, TypeOK
<1>3. /\ call'[h].phase = "resolving" /\ call'[h].item = NoItem
      /\ call'[h].hand = {} /\ call'[h].stops = {}
  BY <1>2 DEF NewCall
<1>4. RunningIsLast'
  BY QuietRecords DEF Resolve
<1> QED
  BY <1>3, <1>4, FreeHand DEF Holding, Starting

\* A call on the binding service: with nothing in hand the handler makes a copy of
\* the record, and writes it back, after which it knows what it has written.
Reads(h) == Unlock(h) \/ UnlockTarget(h) \/ Reveal(h) \/ RecycleBinding(h)
Rewrites(h) == WriteRevealed(h) \/ WriteRecycled(h)

LEMMA ReadFields ==
  ASSUME ExposureInv, OneByOneInv, NEW h, Handlers = {h}, Reads(h)
  PROVE  /\ call[h].phase \in {"acting", "target", "forgetting"} /\ call[h].item = NoItem
         /\ call'[h].phase \in {"unlocking", "revealing", "recycling"}
         /\ call'[h].item = NoItem /\ call'[h].hand = {} /\ call'[h].stops = {}
         /\ call'[h].binding = call[h].binding /\ call'[h].todo = call[h].todo
         /\ call'[h].warm = call[h].warm /\ call'[h].known = call[h].known
         /\ call'[h].merged = unlocked[call[h].binding] \cup
              (IF call'[h].phase = "unlocking" THEN {Asked(Head(call'[h].acts))} ELSE {})
         /\ UNCHANGED <<unlocked, opened, containers, records, routes, view, now, spent, wanted>>
<1>1. call[h].phase \in {"acting", "target", "forgetting"}
  BY DEF Reads, Unlock, UnlockTarget, Reveal, RecycleBinding, At
<1>2. call[h] \in Call /\ HoldsCurrent(call[h])
  BY <1>1, Busy, SerialCall
<1>3. call[h].item = NoItem /\ call[h].hand = {}
  BY <1>1, <1>2 DEF HoldsCurrent, Holding, Between
<1>4. call[h].stops = {}
  BY <1>1, <1>2 DEF HoldsCurrent, Recycling, Reads, Unlock, UnlockTarget, Reveal, RecycleBinding, At
<1>5. PICK p \in {"unlocking", "revealing", "recycling"} :
        ReadBinding(h, p, IF p = "unlocking" THEN {Asked(Head(call[h].acts))} ELSE {})
  BY DEF Reads, Unlock, UnlockTarget, Reveal, RecycleBinding, Action
<1>6. PICK merged : merged = unlocked[call[h].binding] \cup
                      (IF p = "unlocking" THEN {Asked(Head(call[h].acts))} ELSE {})
  OBVIOUS
<1>7. call' = [call EXCEPT ![h].phase = p, ![h].merged = merged]
  BY <1>5, <1>6 DEF ReadBinding
<1>8. call'[h] = [call[h] EXCEPT !.phase = p, !.merged = merged]
  BY <1>7 DEF ExposureInv, TypeOK
<1>9. /\ call'[h].phase = p /\ call'[h].item = call[h].item /\ call'[h].hand = call[h].hand
      /\ call'[h].stops = call[h].stops /\ call'[h].acts = call[h].acts
      /\ call'[h].binding = call[h].binding /\ call'[h].todo = call[h].todo
      /\ call'[h].warm = call[h].warm /\ call'[h].known = call[h].known
      /\ call'[h].merged = merged
  BY <1>2, <1>8 DEF Call
<1>10. UNCHANGED <<unlocked, opened, containers, records, routes, view, now, spent, wanted>>
  BY <1>5 DEF ReadBinding
<1> QED
  BY <1>1, <1>3, <1>4, <1>6, <1>9, <1>10

LEMMA OneByOneReads ==
  ASSUME ExposureInv, OneByOneInv, NEW h, Handlers = {h}, Reads(h)
  PROVE  OneByOneInv'
BY ReadFields, QuietRecords, FreeHand DEF Holding, Starting

LEMMA RewriteFields ==
  ASSUME ExposureInv, OneByOneInv, NEW h, Handlers = {h}, Rewrites(h)
  PROVE  /\ call[h].phase \in {"revealing", "recycling"} /\ call[h].binding \in Bindings
         /\ call'[h].phase \in {"acting", "target", "configure"}
         /\ call[h].item = NoItem /\ call'[h].item = NoItem
         /\ call'[h].hand = {} /\ call'[h].stops = {}
         /\ call'[h].binding = call[h].binding /\ call'[h].todo = call[h].todo
         /\ call'[h].warm = call[h].warm /\ call'[h].known = call[h].merged
         /\ unlocked' = [unlocked EXCEPT ![call[h].binding] = call[h].merged]
         /\ UNCHANGED <<containers, records, routes, view, now, spent, wanted>>
<1>1. call[h].phase \in {"revealing", "recycling"}
  BY DEF Rewrites, WriteRevealed, WriteRecycled, At
<1>2. call[h] \in Call /\ HoldsCurrent(call[h])
  BY <1>1, Busy, SerialCall
<1>3. call[h].item = NoItem /\ call[h].hand = {} /\ call[h].stops = {}
  BY <1>1, <1>2 DEF HoldsCurrent, Holding, Between, Recycling
<1>4. PICK m : m = call[h].merged
  OBVIOUS
<1>5. CASE WriteRevealed(h)
  <2>1. PICK p \in {"target", "configure"} :
          call' = [call EXCEPT ![h].known = m, ![h].merged = {}, ![h].phase = p]
    BY <1>4, <1>5 DEF WriteRevealed
  <2>2. call'[h] = [call[h] EXCEPT !.known = m, !.merged = {}, !.phase = p]
    BY <2>1 DEF ExposureInv, TypeOK
  <2>3. /\ call'[h].phase = p /\ call'[h].item = call[h].item /\ call'[h].hand = call[h].hand
        /\ call'[h].stops = call[h].stops /\ call'[h].known = m
        /\ call'[h].binding = call[h].binding /\ call'[h].todo = call[h].todo
        /\ call'[h].warm = call[h].warm
    BY <1>2, <2>2 DEF Call
  <2>4. /\ unlocked' = [unlocked EXCEPT ![call[h].binding] = call[h].merged]
        /\ UNCHANGED <<containers, records, routes, view, now, spent, wanted>>
    BY <1>5 DEF WriteRevealed, WriteBinding
  <2> QED
    BY <1>1, <1>2, <1>3, <1>4, <2>3, <2>4 DEF Call
<1>6. CASE WriteRecycled(h)
  <2>1. PICK d : d = [call[h] EXCEPT !.known = m, !.merged = {}]
    OBVIOUS
  <2>2. call'[h] = Done(d)
    BY <1>4, <1>6, <2>1 DEF WriteRecycled, ExposureInv, TypeOK
  <2>3. /\ d \in Call /\ d.item = call[h].item /\ d.stops = call[h].stops
        /\ d.binding = call[h].binding /\ d.todo = call[h].todo
        /\ d.warm = call[h].warm /\ d.known = m
    BY <1>2, <1>4, <2>1 DEF Call
  <2>4. /\ call'[h].phase = "acting" /\ call'[h].item = d.item /\ call'[h].hand = {}
        /\ call'[h].stops = d.stops /\ call'[h].known = d.known
        /\ call'[h].binding = d.binding /\ call'[h].todo = d.todo /\ call'[h].warm = d.warm
    BY <2>2, <2>3 DEF Done, Call
  <2>5. /\ unlocked' = [unlocked EXCEPT ![call[h].binding] = call[h].merged]
        /\ UNCHANGED <<containers, records, routes, view, now, spent, wanted>>
    BY <1>6 DEF WriteRecycled, WriteBinding
  <2> QED
    BY <1>1, <1>2, <1>3, <1>4, <2>3, <2>4, <2>5 DEF Call
<1> QED
  BY <1>5, <1>6 DEF Rewrites

LEMMA OneByOneRewrites ==
  ASSUME ExposureInv, OneByOneInv, NEW h, Handlers = {h}, Rewrites(h)
  PROVE  OneByOneInv'
BY RewriteFields, QuietRecords, FreeHand DEF Holding, Starting

\* What the handler starts is in the list of what it has just written.
LEMMA UnlockedFields ==
  ASSUME ExposureInv, OneByOneInv, NEW h, Handlers = {h}, WriteUnlocked(h)
  PROVE  \E todo :
           /\ todo = {[asset |-> y, image |-> IF y = Asked(Action(h)) THEN AskedImage(Action(h)) ELSE Base] :
                        y \in Starts(call[h].merged, call[h].known, Asked(Action(h)))}
           /\ call[h].phase = "unlocking" /\ call[h].item = NoItem
           /\ call'[h].phase = "starting" /\ call'[h].item = NoItem
           /\ call'[h].hand = {} /\ call'[h].stops = {}
           /\ call'[h].binding = call[h].binding /\ call'[h].todo = todo
           /\ call'[h].warm = call[h].warm /\ call'[h].known = call[h].merged
<1>1. call[h].phase = "unlocking"
  BY DEF WriteUnlocked, At
<1>2. call[h] \in Call /\ HoldsCurrent(call[h])
  BY <1>1, Busy, SerialCall
<1>3. call[h].item = NoItem /\ call[h].hand = {} /\ call[h].stops = {}
  BY <1>1, <1>2 DEF HoldsCurrent, Holding, Between, Recycling
<1>4. PICK todo :
        todo = {[asset |-> y, image |-> IF y = Asked(Action(h)) THEN AskedImage(Action(h)) ELSE Base] :
                  y \in Starts(call[h].merged, call[h].known, Asked(Action(h)))}
  OBVIOUS
<1>5. PICK m : m = call[h].merged
  OBVIOUS
<1>6. call' = [call EXCEPT ![h] =
        [call[h] EXCEPT !.phase = "starting", !.known = m, !.merged = {}, !.todo = todo]]
  BY <1>4, <1>5 DEF WriteUnlocked
<1>7. call'[h] = [call[h] EXCEPT !.phase = "starting", !.known = m, !.merged = {}, !.todo = todo]
  BY <1>6 DEF ExposureInv, TypeOK
<1>8. /\ call'[h].phase = "starting" /\ call'[h].item = call[h].item
      /\ call'[h].hand = call[h].hand /\ call'[h].stops = call[h].stops
      /\ call'[h].binding = call[h].binding /\ call'[h].todo = todo
      /\ call'[h].warm = call[h].warm /\ call'[h].known = m
  BY <1>2, <1>7 DEF Call
<1> QED
  BY <1>1, <1>3, <1>4, <1>5, <1>8

LEMMA OneByOneWriteUnlocked ==
  ASSUME ExposureInv, OneByOneInv, NEW h, Handlers = {h}, WriteUnlocked(h)
  PROVE  OneByOneInv'
<1>1. RunningIsLast'
  BY QuietRecords DEF WriteUnlocked
<1> QED
  BY <1>1, UnlockedFields, FreeHand DEF Holding, Starting

\* What a variant that has been recorded, or an action that is done, leaves.
LEMMA ConfiguredFields ==
  ASSUME NEW c \in Call, NEW v
  PROVE  LET d == Configured(c, v)
         IN /\ d.phase \in {"acting", "target"} /\ d.hand = {}
            /\ d.item = c.item /\ d.stops = c.stops /\ d.todo = c.todo /\ d.known = c.known
            /\ d.binding = c.binding /\ d.warm = c.warm /\ d.seen = c.seen
BY DEF Configured, Done, Call

LEMMA OneByOneFindConfigured ==
  ASSUME ExposureInv, OneByOneInv, NEW h, Handlers = {h}, FindConfigured(h)
  PROVE  OneByOneInv'
<1> DEFINE v == Action(h).variant
<1>1. call[h].phase = "configure"
  BY DEF FindConfigured, At
<1>2. call[h] \in Call /\ HoldsCurrent(call[h])
  BY <1>1, Busy, SerialCall
<1>3. call[h].item = NoItem /\ call[h].hand = {} /\ call[h].stops = {}
  BY <1>1, <1>2 DEF HoldsCurrent, Holding, Between, Recycling
<1>4. RunningIsLast'
  BY QuietRecords DEF FindConfigured
<1>5. CASE call' = [call EXCEPT ![h] = Configured(call[h], v)]
  <2>1. call'[h] = Configured(call[h], v)
    BY <1>5 DEF ExposureInv, TypeOK
  <2> HIDE DEF v
  <2>2. /\ call'[h].phase \in {"acting", "target"} /\ call'[h].item = NoItem
        /\ call'[h].hand = {} /\ call'[h].stops = {}
    BY <1>2, <1>3, <2>1, ConfiguredFields
  <2> QED
    BY <1>4, <2>2, FreeHand DEF Holding, Starting
<1>6. ASSUME NEW i \in DOMAIN records, FirstRunning(call[h].binding, v.source, i),
             call' = [call EXCEPT ![h] =
               [call[h] EXCEPT !.phase = "configuring", !.hand = {[at |-> i, copy |-> records[i]]}]]
      PROVE  OneByOneInv'
  <2> DEFINE r == [at |-> i, copy |-> records[i]]
  <2>1. r.at = i /\ r.copy = records[i] /\ records[i].binding = call[h].binding
    BY <1>6 DEF FirstRunning, Running
  <2>2. /\ call'[h].phase = "configuring" /\ call'[h].item = NoItem /\ call'[h].hand = {r}
        /\ call'[h].stops = {} /\ call'[h].binding = call[h].binding
    BY <1>2, <1>3, <1>6 DEF Call, ExposureInv, TypeOK
  <2>3. records' = records
    BY DEF FindConfigured
  <2> HIDE DEF r
  <2>4. HoldsCurrent(call[h])'
    BY <2>1, <2>2, <2>3 DEF HoldsCurrent, Holding, Starting, Current
  <2> QED
    BY <1>4, <2>4 DEF OneByOneInv
<1> QED
  BY <1>5, <1>6 DEF FindConfigured

\* The one record in hand.
LEMMA InHand ==
  ASSUME ExposureInv, OneByOneInv, NEW h \in Handlers, call[h].phase \in Holding
  PROVE  /\ call[h] \in Call /\ HoldsCurrent(call[h])
         /\ \E r \in Held : /\ call[h].hand = {r} /\ r \notin call[h].stops /\ Current(r)
                            /\ r.copy \in Record /\ r.copy.binding = call[h].binding
                            /\ r.copy.status = "running"
<1>1. call[h] \in Call /\ OpenCall(call[h]) /\ HoldsCurrent(call[h])
  BY Busy, SerialCall DEF Holding
<1>2. PICK r \in call[h].hand : call[h].hand = {r}
  BY <1>1 DEF HoldsCurrent
<1>3. r \in Held /\ r.copy \in Record
  BY <1>1, <1>2 DEF Call, Held
<1>4. Current(r) /\ r.copy.binding = call[h].binding /\ r \notin call[h].stops
  BY <1>1, <1>2 DEF HoldsCurrent
<1>5. r.copy.status = "running"
  BY <1>1, <1>2 DEF OpenCall
<1> QED
  BY <1>1, <1>2, <1>3, <1>4, <1>5

LEMMA ConfiguredMoves ==
  ASSUME ExposureInv, OneByOneInv, NEW h, Handlers = {h}, WriteConfigured(h)
  PROVE  Moved
<1> DEFINE v == Action(h).variant
<1>1. call[h].phase = "configuring"
  BY DEF WriteConfigured, At
<1>2. PICK r \in Held : /\ call[h].hand = {r} /\ Current(r) /\ r.copy \in Record
  BY <1>1, InHand DEF Holding
<1>3. v \in Variants
  BY <1>1, Busy, HeadAction DEF Course, Action
<1>4. PICK d : d = [r.copy EXCEPT !.configs = @ \cup {v.id}]
  OBVIOUS
<1>5. Put(r, d)
  BY <1>2, <1>4 DEF WriteConfigured
<1>6. /\ d \in Record /\ d.binding = r.copy.binding /\ d.asset = r.copy.asset
      /\ d.status = r.copy.status /\ d.hidden = r.copy.hidden /\ r.copy.configs \subseteq d.configs
  BY <1>2, <1>3, <1>4 DEF Record, Configs
<1> QED
  BY <1>2, <1>5, <1>6, PutMoves

LEMMA OneByOneWriteConfigured ==
  ASSUME ExposureInv, OneByOneInv, NEW h, Handlers = {h}, WriteConfigured(h)
  PROVE  OneByOneInv'
<1> DEFINE v == Action(h).variant
<1>1. call[h].phase = "configuring"
  BY DEF WriteConfigured, At
<1>2. call[h] \in Call /\ HoldsCurrent(call[h])
  BY <1>1, Busy, SerialCall
<1>3. call[h].item = NoItem /\ call[h].stops = {}
  BY <1>1, <1>2 DEF HoldsCurrent, Holding, Between, Recycling
<1>4. call'[h] = Configured(call[h], v)
  BY DEF WriteConfigured, ExposureInv, TypeOK
<1> HIDE DEF v
<1>5. /\ call'[h].phase \in {"acting", "target"} /\ call'[h].item = NoItem
      /\ call'[h].hand = {} /\ call'[h].stops = {}
  BY <1>2, <1>3, <1>4, ConfiguredFields
<1>6. RunningIsLast'
  BY ConfiguredMoves, MovedKeeps DEF OneByOneInv
<1> QED
  BY <1>5, <1>6, FreeHand DEF Holding, Starting

\* A runtime is picked: either there is no running record, or one is in hand.
LEMMA FindRunningPicks ==
  ASSUME ExposureInv, OneByOneInv, NEW h, Handlers = {h}, FindRunning(h)
  PROVE  \E it \in call[h].todo :
           /\ it \in Item /\ it # NoItem
           /\ call'[h].item = it /\ call'[h].todo = call[h].todo \ {it}
           /\ call'[h].stops = {} /\ call'[h].binding = call[h].binding
           /\ call'[h].warm = call[h].warm /\ call'[h].known = call[h].known
           /\ \/ /\ Running(call[h].binding, it.asset) = {}
                 /\ call'[h].phase = "inspect" /\ call'[h].hand = {}
              \/ \E i \in Running(call[h].binding, it.asset) :
                   /\ call'[h].phase \in {"attach", "removing"}
                   /\ call'[h].hand = {[at |-> i, copy |-> records[i]]}
<1>1. call[h].phase = "starting"
  BY DEF FindRunning, At
<1>2. call[h] \in Call /\ HoldsCurrent(call[h])
  BY <1>1, Busy, SerialCall
<1>3. call[h].hand = {} /\ call[h].stops = {}
  BY <1>1, <1>2 DEF HoldsCurrent, Holding, Recycling
<1>4. PICK it \in call[h].todo :
        LET picked == [call[h] EXCEPT !.todo = @ \ {it}, !.item = it]
        IN \/ /\ Running(call[h].binding, it.asset) = {}
              /\ call' = [call EXCEPT ![h] = [picked EXCEPT !.phase = "inspect"]]
           \/ \E i \in DOMAIN records :
                /\ FirstRunning(call[h].binding, it.asset, i)
                /\ call' = [call EXCEPT ![h] =
                     [picked EXCEPT !.phase = IF it.image = Base THEN "attach" ELSE "removing",
                                    !.hand = {[at |-> i, copy |-> records[i]]}]]
  BY DEF FindRunning
<1>5. it \in Item /\ it # NoItem
  <2>1. call[h] \in Call
    BY <1>2
  <2>2. it \in Item
    BY <2>1 DEF Call
  <2> QED
    BY <2>2 DEF Item, NoItem
<1>6. PICK picked : picked = [call[h] EXCEPT !.todo = @ \ {it}, !.item = it]
  OBVIOUS
<1>7. /\ picked \in Call
      /\ picked.item = it /\ picked.todo = call[h].todo \ {it} /\ picked.hand = {}
      /\ picked.stops = {} /\ picked.binding = call[h].binding
      /\ picked.warm = call[h].warm /\ picked.known = call[h].known
  BY <1>2, <1>3, <1>5, <1>6 DEF Call
<1>8. CASE /\ Running(call[h].binding, it.asset) = {}
           /\ call' = [call EXCEPT ![h] = [picked EXCEPT !.phase = "inspect"]]
  <2>1. call'[h] = [picked EXCEPT !.phase = "inspect"]
    BY <1>8 DEF ExposureInv, TypeOK
  <2> QED
    BY <1>5, <1>7, <1>8, <2>1 DEF Call
<1>9. ASSUME NEW i \in DOMAIN records, FirstRunning(call[h].binding, it.asset, i),
             NEW p \in {"attach", "removing"},
             call' = [call EXCEPT ![h] =
                  [picked EXCEPT !.phase = p, !.hand = {[at |-> i, copy |-> records[i]]}]]
      PROVE  /\ call'[h].item = it /\ call'[h].todo = call[h].todo \ {it}
             /\ call'[h].stops = {} /\ call'[h].binding = call[h].binding
             /\ call'[h].warm = call[h].warm /\ call'[h].known = call[h].known
             /\ i \in Running(call[h].binding, it.asset)
             /\ call'[h].phase \in {"attach", "removing"}
             /\ call'[h].hand = {[at |-> i, copy |-> records[i]]}
  <2>1. i \in Running(call[h].binding, it.asset)
    BY <1>9 DEF FirstRunning
  <2>2. PICK hand : hand = {[at |-> i, copy |-> records[i]]}
    OBVIOUS
  <2>3. call'[h] = [picked EXCEPT !.phase = p, !.hand = hand]
    BY <1>9, <2>2 DEF ExposureInv, TypeOK
  <2> QED
    BY <1>7, <2>1, <2>2, <2>3 DEF Call
<1> QED
  BY <1>4, <1>5, <1>6, <1>8, <1>9

LEMMA OneByOneFindRunning ==
  ASSUME ExposureInv, OneByOneInv, NEW h, Handlers = {h}, FindRunning(h)
  PROVE  OneByOneInv'
<1>1. PICK it \in call[h].todo :
           /\ it # NoItem
           /\ call'[h].item = it /\ call'[h].stops = {} /\ call'[h].binding = call[h].binding
           /\ \/ /\ Running(call[h].binding, it.asset) = {}
                 /\ call'[h].phase = "inspect" /\ call'[h].hand = {}
              \/ \E i \in Running(call[h].binding, it.asset) :
                   /\ call'[h].phase \in {"attach", "removing"}
                   /\ call'[h].hand = {[at |-> i, copy |-> records[i]]}
  BY FindRunningPicks
<1>2. records' = records
  BY DEF FindRunning
<1>3. RunningIsLast'
  BY <1>2, QuietRecords
<1>4. CASE /\ Running(call[h].binding, it.asset) = {}
           /\ call'[h].phase = "inspect" /\ call'[h].hand = {}
  BY <1>1, <1>2, <1>3, <1>4 DEF OneByOneInv, HoldsCurrent, Holding, Starting, Between, Running
<1>5. ASSUME NEW i \in Running(call[h].binding, it.asset),
             call'[h].phase \in {"attach", "removing"},
             call'[h].hand = {[at |-> i, copy |-> records[i]]}
      PROVE  OneByOneInv'
  <2> DEFINE r == [at |-> i, copy |-> records[i]]
  <2>1. /\ r.at = i /\ r.copy = records[i] /\ i \in DOMAIN records
        /\ records[i].binding = call[h].binding /\ records[i].asset = it.asset
    BY DEF Running
  <2>2. call'[h].hand = {r}
    BY <1>5
  <2> HIDE DEF r
  <2>3. HoldsCurrent(call[h])'
    BY <1>1, <1>2, <1>5, <2>1, <2>2 DEF HoldsCurrent, Holding, Starting, Between, Current
  <2> QED
    BY <1>3, <2>3 DEF OneByOneInv
<1> QED
  BY <1>1, <1>4, <1>5

LEMMA StartedFields ==
  ASSUME NEW c \in Call
  PROVE  LET d == Started(c)
         IN /\ d.phase = "starting" /\ d.item = NoItem /\ d.hand = {}
            /\ d.stops = c.stops /\ d.todo = c.todo /\ d.known = c.known
            /\ d.binding = c.binding /\ d.warm = c.warm /\ d.seen = c.seen
BY DEF Started, Call

LEMMA OneByOneStarted ==
  ASSUME ExposureInv, OneByOneInv, NEW h, Handlers = {h}, call[h].phase \in AtItem,
         call' = [call EXCEPT ![h] = Started(call[h])], RunningIsLast'
  PROVE  OneByOneInv'
<1>1. call[h] \in Call /\ HoldsCurrent(call[h])
  BY Busy, SerialCall DEF AtItem
<1>2. call[h].stops = {}
  BY <1>1 DEF HoldsCurrent, Recycling, AtItem
<1>3. call'[h] = Started(call[h])
  BY DEF ExposureInv, TypeOK
<1>4. /\ call'[h].phase = "starting" /\ call'[h].item = NoItem
      /\ call'[h].hand = {} /\ call'[h].stops = {}
  BY <1>1, <1>2, <1>3, StartedFields
<1> QED
  BY <1>4, FreeHand DEF Holding, Starting

\* The phase is all that changes.
LEMMA GotoFields ==
  ASSUME ExposureInv, NEW h \in Handlers, call[h].phase # "idle", NEW p, Goto(h, p)
  PROVE  /\ call'[h].phase = p /\ call'[h].item = call[h].item /\ call'[h].hand = call[h].hand
         /\ call'[h].stops = call[h].stops /\ call'[h].binding = call[h].binding
         /\ call'[h].todo = call[h].todo /\ call'[h].known = call[h].known
         /\ call'[h].warm = call[h].warm /\ call'[h].seen = call[h].seen
<1>1. call[h] \in Call
  BY Busy
<1> QED
  BY <1>1 DEF Goto, Call, ExposureInv, TypeOK

LEMMA OneByOneAttach ==
  ASSUME ExposureInv, OneByOneInv, NEW h, Handlers = {h}, Attach(h)
  PROVE  OneByOneInv'
<1>1. call[h].phase = "attach" /\ records' = records
  BY DEF Attach, At
<1>2. RunningIsLast'
  BY <1>1, QuietRecords
<1>3. CASE call' = [call EXCEPT ![h] = Started(call[h])]
  BY <1>1, <1>2, <1>3, OneByOneStarted DEF AtItem
<1>4. CASE Goto(h, "unhide")
  <2>1. HoldsCurrent(call[h])
    BY <1>1, SerialCall
  <2>2. /\ call'[h].phase = "unhide" /\ call'[h].item = call[h].item
        /\ call'[h].hand = call[h].hand /\ call'[h].stops = call[h].stops
        /\ call'[h].binding = call[h].binding
    BY <1>1, <1>4, GotoFields
  <2>3. HoldsCurrent(call[h])'
    BY <1>1, <2>1, <2>2 DEF HoldsCurrent, Holding, Starting, Between, Recycling, Current
  <2> QED
    BY <1>2, <2>3 DEF OneByOneInv
<1> QED
  BY <1>3, <1>4 DEF Attach, Goto

LEMMA UnhideMoves ==
  ASSUME ExposureInv, OneByOneInv, NEW h, Handlers = {h}, Unhide(h)
  PROVE  /\ Moved
         /\ \E r \in Held : call[h].hand = {r} /\ Current(r) /\ ~records'[r.at].hidden
<1>1. call[h].phase = "unhide"
  BY DEF Unhide, At
<1>2. PICK r \in Held : /\ call[h].hand = {r} /\ Current(r) /\ r.copy \in Record
  BY <1>1, InHand DEF Holding
<1>3. PICK d : d = [r.copy EXCEPT !.hidden = FALSE]
  OBVIOUS
<1>4. Put(r, d)
  BY <1>2, <1>3 DEF Unhide
<1>5. /\ d \in Record /\ d.binding = r.copy.binding /\ d.asset = r.copy.asset
      /\ d.status = r.copy.status /\ ~d.hidden /\ d.configs = r.copy.configs
  BY <1>2, <1>3 DEF Record
<1>6. Moved /\ records'[r.at] = d
  BY <1>2, <1>4, <1>5, PutMoves
<1> QED
  BY <1>2, <1>5, <1>6

LEMMA OneByOneUnhide ==
  ASSUME ExposureInv, OneByOneInv, NEW h, Handlers = {h}, Unhide(h)
  PROVE  OneByOneInv'
<1>1. RunningIsLast'
  BY UnhideMoves, MovedKeeps DEF OneByOneInv
<1> QED
  BY <1>1, OneByOneStarted DEF Unhide, At, AtItem

LEMMA OneByOneRemoveContainer ==
  ASSUME ExposureInv, OneByOneInv, NEW h, Handlers = {h}, RemoveContainer(h)
  PROVE  OneByOneInv'
<1>1. call[h].phase = "removing" /\ records' = records /\ Goto(h, "marking")
  BY DEF RemoveContainer, At
<1>2. HoldsCurrent(call[h])
  BY <1>1, SerialCall
<1>3. /\ call'[h].phase = "marking" /\ call'[h].item = call[h].item
      /\ call'[h].hand = call[h].hand /\ call'[h].stops = call[h].stops
      /\ call'[h].binding = call[h].binding
  BY <1>1, GotoFields
<1>4. HoldsCurrent(call[h])'
  BY <1>1, <1>2, <1>3 DEF HoldsCurrent, Holding, Starting, Between, Recycling, Current
<1>5. RunningIsLast'
  BY <1>1, QuietRecords
<1> QED
  BY <1>4, <1>5 DEF OneByOneInv

\* Marking a record takes the only one of its asset that is running.
LEMMA MarkStoppedMoves ==
  ASSUME ExposureInv, OneByOneInv, NEW h, Handlers = {h}, MarkStopped(h)
  PROVE  /\ Moved
         /\ \E r \in Held :
              /\ call[h].hand = {r} /\ r \notin call[h].stops /\ Current(r)
              /\ r.copy.binding = call[h].binding /\ r.copy.asset \in Assets
              /\ \A i \in DOMAIN records : i # r.at => records'[i] = records[i]
              /\ records'[r.at].status = "stopped"
              /\ Running(r.copy.binding, r.copy.asset)' = {}
<1>1. call[h].phase = "marking"
  BY DEF MarkStopped, At
<1>2. PICK r \in Held : /\ call[h].hand = {r} /\ r \notin call[h].stops /\ Current(r)
                        /\ r.copy \in Record /\ r.copy.binding = call[h].binding
                        /\ r.copy.status = "running"
  BY <1>1, InHand DEF Holding
<1>3. PICK d : d = [r.copy EXCEPT !.status = "stopped"]
  OBVIOUS
<1>4. Put(r, d)
  BY <1>2, <1>3 DEF MarkStopped
<1>5. /\ d \in Record /\ d.binding = r.copy.binding /\ d.asset = r.copy.asset
      /\ d.status = "stopped" /\ d.hidden = r.copy.hidden /\ d.configs = r.copy.configs
  BY <1>2, <1>3 DEF Record
<1>6. /\ Moved /\ records'[r.at] = d
      /\ \A i \in DOMAIN records : i # r.at => records'[i] = records[i]
  BY <1>2, <1>4, <1>5, PutMoves
<1>7. r.copy.binding \in Bindings /\ r.copy.asset \in Assets
  BY <1>2 DEF Record
<1>8. ASSUME NEW i \in Running(r.copy.binding, r.copy.asset)' PROVE FALSE
  <2>1. i \in Running(r.copy.binding, r.copy.asset)
    BY <1>6, <1>8, MovedKeepsLast
  <2>2. r.at \in Running(r.copy.binding, r.copy.asset)
    BY <1>2 DEF Running, Current
  <2>3. /\ LastRecord(r.copy.binding, r.copy.asset, i)
        /\ LastRecord(r.copy.binding, r.copy.asset, r.at)
    BY <1>7, <2>1, <2>2 DEF OneByOneInv, RunningIsLast
  <2>4. i \in DOMAIN records /\ r.at \in DOMAIN records /\ DOMAIN records \subseteq Nat
    BY <2>1, <2>2 DEF Running, ExposureInv, TypeOK
  <2>5. i <= r.at /\ r.at <= i
    BY <2>3, <2>4 DEF LastRecord
  <2>6. i = r.at
    BY <2>4, <2>5
  <2>7. records'[i].status = "running"
    BY <1>8 DEF Running
  <2> QED
    BY <1>5, <1>6, <2>6, <2>7
<1> QED
  BY <1>2, <1>5, <1>6, <1>7, <1>8

\* Copies of two records differ in where they are from.
LEMMA OtherCopyStays ==
  ASSUME NEW r \in Held, NEW s \in Held, s # r, Current(r), Current(s),
         DOMAIN records' = DOMAIN records,
         \A i \in DOMAIN records : i # r.at => records'[i] = records[i]
  PROVE  Current(s)'
<1>1. s.at # r.at
  BY DEF Current, Held
<1> QED
  BY <1>1 DEF Current

LEMMA MarkStoppedFields ==
  ASSUME ExposureInv, NEW h, Handlers = {h}, MarkStopped(h)
  PROVE  /\ call'[h].phase = IF call[h].item = NoItem THEN "stopping" ELSE "inspect"
         /\ call'[h].hand = {} /\ call'[h].item = call[h].item /\ call'[h].stops = call[h].stops
         /\ call'[h].binding = call[h].binding /\ call'[h].todo = call[h].todo
         /\ call'[h].warm = call[h].warm /\ call'[h].known = call[h].known
<1>1. call[h] \in Call
  BY Busy DEF MarkStopped, At
<1> DEFINE p == IF call[h].item = NoItem THEN "stopping" ELSE "inspect"
<1>2. call' = [call EXCEPT ![h].phase = p, ![h].hand = {}]
  BY DEF MarkStopped
<1> HIDE DEF p
<1>3. call'[h] = [call[h] EXCEPT !.phase = p, !.hand = {}]
  BY <1>2 DEF ExposureInv, TypeOK
<1>4. /\ call'[h].phase = p
      /\ call'[h].hand = {} /\ call'[h].item = call[h].item /\ call'[h].stops = call[h].stops
      /\ call'[h].binding = call[h].binding /\ call'[h].todo = call[h].todo
      /\ call'[h].warm = call[h].warm /\ call'[h].known = call[h].known
  BY <1>1, <1>3 DEF Call
<1> QED
  BY <1>4 DEF p

LEMMA OneByOneMarkStopped ==
  ASSUME ExposureInv, OneByOneInv, NEW h, Handlers = {h}, MarkStopped(h)
  PROVE  OneByOneInv'
<1>1. call[h].phase = "marking"
  BY DEF MarkStopped, At
<1>2. call[h] \in Call /\ HoldsCurrent(call[h])
  BY <1>1, Busy, SerialCall
<1>3. PICK r \in Held :
              /\ call[h].hand = {r} /\ r \notin call[h].stops /\ Current(r)
              /\ r.copy.binding = call[h].binding
              /\ \A i \in DOMAIN records : i # r.at => records'[i] = records[i]
              /\ Running(r.copy.binding, r.copy.asset)' = {}
  BY MarkStoppedMoves
<1>4. Moved
  BY MarkStoppedMoves
<1>5. RunningIsLast'
  BY <1>4, MovedKeeps DEF OneByOneInv
<1>6. /\ call'[h].hand = {} /\ call'[h].item = call[h].item /\ call'[h].stops = call[h].stops
      /\ call'[h].binding = call[h].binding
      /\ call'[h].phase = IF call[h].item = NoItem THEN "stopping" ELSE "inspect"
  BY MarkStoppedFields
<1>7. ASSUME NEW s \in call[h].stops PROVE Current(s)' /\ s.copy.binding = call[h].binding
  <2>1. s \in Held /\ s # r /\ Current(s) /\ s.copy.binding = call[h].binding
    BY <1>2, <1>3 DEF Call, HoldsCurrent
  <2> QED
    BY <1>3, <1>4, <2>1, OtherCopyStays DEF Moved
<1>8. CASE call[h].item = NoItem
  <2>1. HoldsCurrent(call[h])'
    BY <1>6, <1>7, <1>8 DEF HoldsCurrent, Holding, Starting, Between, Recycling
  <2> QED
    BY <1>5, <2>1 DEF OneByOneInv
<1>9. CASE call[h].item # NoItem
  <2>1. call[h].stops = {}
    BY <1>1, <1>2, <1>9 DEF HoldsCurrent, Recycling
  <2>2. \A s \in call[h].hand : s.copy.asset = call[h].item.asset
    BY <1>1, <1>2, <1>9 DEF HoldsCurrent
  <2>3. call'[h].binding = r.copy.binding /\ call'[h].item.asset = r.copy.asset
    BY <1>3, <1>6, <2>2
  <2>4. Running(call[h].binding, call[h].item.asset)' = {}
    BY <1>3, <2>3 DEF Running
  <2>5. HoldsCurrent(call[h])'
    BY <1>6, <1>9, <2>1, <2>4 DEF HoldsCurrent, Holding, Starting, Between, Recycling
  <2> QED
    BY <1>5, <2>5 DEF OneByOneInv
<1> QED
  BY <1>8, <1>9

\* Docker calls for the runtime that is being started.
DockerStep(h) ==
  Inspect(h) \/ RemoveDead(h) \/ Run(h) \/ Verify(h) \/ StartSidecars(h) \/ Route(h) \/ Clean(h)

LEMMA DockerStepGoes ==
  ASSUME NEW h, DockerStep(h)
  PROVE  /\ call[h].phase \in Starting /\ UNCHANGED <<unlocked, records, view, wanted>>
         /\ \E p \in Starting : Goto(h, p)
<1>1. CASE Inspect(h)
  BY <1>1 DEF Inspect, At, Starting
<1>2. CASE RemoveDead(h)
  BY <1>2 DEF RemoveDead, At, Starting
<1>3. CASE Run(h)
  BY <1>3 DEF Run, At, Starting
<1>4. CASE Verify(h)
  BY <1>4 DEF Verify, At, Starting
<1>5. CASE StartSidecars(h)
  BY <1>5 DEF StartSidecars, At, Starting
<1>6. CASE Route(h)
  BY <1>6 DEF Route, At, Starting
<1>7. CASE Clean(h)
  BY <1>7 DEF Clean, At, Starting
<1> QED
  BY <1>1, <1>2, <1>3, <1>4, <1>5, <1>6, <1>7 DEF DockerStep

LEMMA OneByOneDockerStep ==
  ASSUME ExposureInv, OneByOneInv, NEW h, Handlers = {h}, DockerStep(h)
  PROVE  OneByOneInv'
BY DockerStepGoes, StaysAtWork

\* What a start leaves behind, whether it succeeded or not.
LEMMA RecordAdds ==
  ASSUME ExposureInv, OneByOneInv, NEW h, Handlers = {h}, RecordRunning(h) \/ RecordFailed(h)
  PROVE  \E new \in Record :
           /\ records' = Append(records, new)
           /\ new.binding = call[h].binding /\ new.asset = call[h].item.asset
           /\ new.hidden = call[h].warm /\ new.status \in {"running", "failed"}
           /\ new.status = "running" => call[h].phase = "record"
           /\ Running(new.binding, new.asset) = {}
<1>1. call[h].phase \in {"record", "fail"}
  BY DEF RecordRunning, RecordFailed, At
<1>2. /\ call[h] \in Call /\ call[h].item.asset \in Assets /\ call[h].item.image \in Images
      /\ call[h].binding \in Bindings /\ call[h].warm \in BOOLEAN
  BY <1>1, ItemInHand DEF AtItem, Call
<1>3. Running(call[h].binding, call[h].item.asset) = {}
  BY <1>1, SerialCall DEF HoldsCurrent, Starting
<1>4. ASSUME NEW status \in {"running", "failed"}, NEW image \in Images,
             status = "running" => call[h].phase = "record",
             records' = Append(records, NewRecord(call[h], status, image))
      PROVE  \E new \in Record :
           /\ records' = Append(records, new)
           /\ new.binding = call[h].binding /\ new.asset = call[h].item.asset
           /\ new.hidden = call[h].warm /\ new.status \in {"running", "failed"}
           /\ new.status = "running" => call[h].phase = "record"
           /\ Running(new.binding, new.asset) = {}
  <2>1. PICK new : new = NewRecord(call[h], status, image)
    OBVIOUS
  <2>2. /\ new \in Record /\ new.binding = call[h].binding /\ new.asset = call[h].item.asset
        /\ new.hidden = call[h].warm /\ new.status = status
    BY <1>2, <2>1 DEF NewRecord, Record
  <2> QED
    BY <1>3, <1>4, <2>1, <2>2
<1>5. CASE RecordRunning(h)
  <2>1. records' = Append(records, NewRecord(call[h], "running", call[h].item.image))
        /\ call[h].phase = "record"
    BY <1>5 DEF RecordRunning, At
  <2> QED
    BY <1>2, <1>4, <2>1
<1>6. CASE RecordFailed(h)
  <2>1. records' = Append(records, NewRecord(call[h], "failed", Base)) /\ Base \in Images
    BY <1>6 DEF RecordFailed, Images
  <2> QED
    BY <1>4, <2>1
<1> QED
  BY <1>5, <1>6

LEMMA OneByOneRecord ==
  ASSUME ExposureInv, OneByOneInv, NEW h, Handlers = {h}, RecordRunning(h) \/ RecordFailed(h)
  PROVE  OneByOneInv'
<1>1. RunningIsLast'
  BY RecordAdds, AddedKeeps DEF OneByOneInv
<1>2. call[h].phase \in AtItem /\ call' = [call EXCEPT ![h] = Started(call[h])]
  BY DEF RecordRunning, RecordFailed, At, AtItem
<1> QED
  BY <1>1, <1>2, OneByOneStarted

\* Everything is started: the call is over, or goes on with what is in its acts.
LEMMA AllStartedFields ==
  ASSUME ExposureInv, OneByOneInv, NEW h, Handlers = {h}, AllStarted(h)
  PROVE  /\ call[h].phase = "starting" /\ call[h].todo = {} /\ call[h].item = NoItem
         /\ \/ call'[h].phase = "idle"
            \/ /\ call'[h].phase \in {"configure", "acting"} /\ call'[h].item = NoItem
               /\ call'[h].hand = {} /\ call'[h].stops = {} /\ call'[h].todo = {}
               /\ call'[h].binding = call[h].binding
               /\ call'[h].warm = call[h].warm /\ call'[h].known = call[h].known
<1>1. call[h].phase = "starting" /\ call[h].todo = {}
  BY DEF AllStarted, At
<1>2. call[h] \in Call /\ HoldsCurrent(call[h])
  BY <1>1, Busy, SerialCall
<1>3. call[h].item = NoItem /\ call[h].hand = {} /\ call[h].stops = {}
  BY <1>1, <1>2 DEF HoldsCurrent, Holding, Recycling
<1>4. CASE call' = [call EXCEPT ![h] = Idle]
  BY <1>1, <1>3, <1>4 DEF Idle, ExposureInv, TypeOK
<1>5. CASE call' = [call EXCEPT ![h] = [call[h] EXCEPT !.phase = "configure"]]
  <2>1. call'[h] = [call[h] EXCEPT !.phase = "configure"]
    BY <1>5 DEF ExposureInv, TypeOK
  <2> QED
    BY <1>1, <1>2, <1>3, <2>1 DEF Call
<1>6. CASE call' = [call EXCEPT ![h] = Done(call[h])]
  <2>1. call'[h] = Done(call[h])
    BY <1>6 DEF ExposureInv, TypeOK
  <2> QED
    BY <1>1, <1>2, <1>3, <2>1 DEF Call, Done
<1> QED
  BY <1>4, <1>5, <1>6 DEF AllStarted

\* A call that is over leaves only the list to look at.
LEMMA FreeHandler ==
  ASSUME NEW h, Handlers = {h}, RunningIsLast', call'[h].phase = "idle"
  PROVE  OneByOneInv'
BY DEF OneByOneInv

LEMMA OneByOneAllStarted ==
  ASSUME ExposureInv, OneByOneInv, NEW h, Handlers = {h}, AllStarted(h)
  PROVE  OneByOneInv'
<1>1. RunningIsLast'
  BY QuietRecords DEF AllStarted
<1> QED
  BY <1>1, AllStartedFields, FreeHand, FreeHandler DEF Holding, Starting

\* A recycle takes copies of what runs now, once for each of its passes.
Lists(h) == BeginRecycle(h) \/ ListAgain(h)

LEMMA ListFields ==
  ASSUME ExposureInv, OneByOneInv, NEW h, Handlers = {h}, Lists(h)
  PROVE  /\ call[h].phase \in {"acting", "stopping"} /\ call[h].item = NoItem
         /\ call'[h].phase \in {"stopping", "forgetting"} /\ call'[h].item = NoItem
         /\ call'[h].hand = {}
         /\ call'[h].binding = call[h].binding /\ call'[h].todo = call[h].todo
         /\ call'[h].warm = call[h].warm /\ call'[h].known = call[h].known
         /\ \A r \in call'[h].stops : Current(r) /\ r.copy.binding = call[h].binding
         /\ UNCHANGED <<unlocked, opened, containers, records, routes, view, now, spent, wanted>>
<1> DEFINE stops == RunningCopies(call[h].binding)
<1>1. call[h].phase \in {"acting", "stopping"}
  BY DEF Lists, BeginRecycle, ListAgain, At
<1>2. call[h] \in Call /\ HoldsCurrent(call[h])
  BY <1>1, Busy, SerialCall
<1>3. call[h].item = NoItem /\ call[h].hand = {}
  BY <1>1, <1>2 DEF HoldsCurrent, Holding, Between
<1>4. \A r \in stops : Current(r) /\ r.copy.binding = call[h].binding
  BY DEF Current, RunningCopies
<1>5. PICK p \in {"stopping", "forgetting"} : ListRunning(h, p)
  BY DEF Lists, BeginRecycle, ListAgain
<1> HIDE DEF stops
<1>6. call' = [call EXCEPT ![h].phase = p, ![h].stops = stops]
  BY <1>5 DEF ListRunning, stops
<1>7. call'[h] = [call[h] EXCEPT !.phase = p, !.stops = stops]
  BY <1>6 DEF ExposureInv, TypeOK
<1>8. /\ call'[h].phase = p /\ call'[h].item = call[h].item
      /\ call'[h].hand = call[h].hand
      /\ call'[h].binding = call[h].binding /\ call'[h].todo = call[h].todo
      /\ call'[h].warm = call[h].warm /\ call'[h].known = call[h].known
      /\ call'[h].stops = stops
  BY <1>2, <1>7 DEF Call
<1>9. UNCHANGED <<unlocked, opened, containers, records, routes, view, now, spent, wanted>>
  BY <1>5 DEF ListRunning
<1> QED
  BY <1>1, <1>3, <1>4, <1>8, <1>9

LEMMA OneByOneLists ==
  ASSUME ExposureInv, OneByOneInv, NEW h, Handlers = {h}, Lists(h)
  PROVE  OneByOneInv'
<1>1. /\ records' = records
      /\ call'[h].phase \in {"stopping", "forgetting"} /\ call'[h].item = NoItem
      /\ call'[h].hand = {} /\ call'[h].binding = call[h].binding
      /\ \A r \in call'[h].stops : Current(r) /\ r.copy.binding = call[h].binding
  BY ListFields
<1>2. RunningIsLast'
  BY <1>1, QuietRecords
<1>3. HoldsCurrent(call[h])'
  BY <1>1 DEF HoldsCurrent, Holding, Starting, Recycling, Current
<1> QED
  BY <1>2, <1>3 DEF OneByOneInv

LEMMA StopNextFields ==
  ASSUME ExposureInv, OneByOneInv, NEW h, Handlers = {h}, StopNext(h)
  PROVE  /\ call[h].phase = "stopping" /\ call[h].item = NoItem
         /\ call'[h].phase = "removing" /\ call'[h].item = NoItem
         /\ call'[h].binding = call[h].binding /\ call'[h].todo = call[h].todo
         /\ call'[h].warm = call[h].warm /\ call'[h].known = call[h].known
         /\ \E r \in call[h].stops :
              call'[h].hand = {r} /\ call'[h].stops = call[h].stops \ {r}
<1>1. call[h].phase = "stopping"
  BY DEF StopNext, At
<1>2. call[h] \in Call /\ HoldsCurrent(call[h])
  BY <1>1, Busy, SerialCall
<1>3. call[h].item = NoItem
  BY <1>1, <1>2 DEF HoldsCurrent, Between
<1>4. PICK r \in call[h].stops :
        call' = [call EXCEPT ![h] =
          [call[h] EXCEPT !.phase = "removing", !.hand = {r}, !.stops = @ \ {r}]]
  BY DEF StopNext
<1>5. call'[h] = [call[h] EXCEPT !.phase = "removing", !.hand = {r}, !.stops = @ \ {r}]
  BY <1>4 DEF ExposureInv, TypeOK
<1> QED
  BY <1>1, <1>2, <1>3, <1>5 DEF Call

LEMMA OneByOneStopNext ==
  ASSUME ExposureInv, OneByOneInv, NEW h, Handlers = {h}, StopNext(h)
  PROVE  OneByOneInv'
<1>1. records' = records
  BY DEF StopNext
<1>2. RunningIsLast'
  BY <1>1, QuietRecords
<1>3. HoldsCurrent(call[h]) /\ call[h].phase = "stopping"
  BY SerialCall DEF StopNext, At
<1>4. \A r \in call[h].stops : Current(r) /\ r.copy.binding = call[h].binding
  BY <1>3 DEF HoldsCurrent
<1>5. PICK r \in call[h].stops :
        call'[h].hand = {r} /\ call'[h].stops = call[h].stops \ {r}
  BY StopNextFields
<1>6. /\ call'[h].phase = "removing" /\ call'[h].item = NoItem
      /\ call'[h].binding = call[h].binding
  BY StopNextFields
<1>7. HoldsCurrent(call[h])'
  BY <1>1, <1>4, <1>5, <1>6 DEF HoldsCurrent, Holding, Starting, Between, Recycling, Current
<1> QED
  BY <1>2, <1>7 DEF OneByOneInv

\* The mock pass of a recycle marks the records it still finds running.
LEMMA ForgetNextMoves ==
  ASSUME ExposureInv, OneByOneInv, NEW h, Handlers = {h}, ForgetNext(h)
  PROVE  /\ Moved /\ call[h].phase = "forgetting"
         /\ \E r \in call[h].stops :
              /\ r \in Held /\ Current(r) /\ call' = [call EXCEPT ![h].stops = @ \ {r}]
              /\ \A i \in DOMAIN records : i # r.at => records'[i] = records[i]
              /\ records'[r.at].status = "stopped"
<1>1. call[h].phase = "forgetting"
  BY DEF ForgetNext, At
<1>2. call[h] \in Call /\ HoldsCurrent(call[h]) /\ OpenCall(call[h])
  BY <1>1, Busy, SerialCall
<1>3. PICK r \in call[h].stops :
        /\ Put(r, [r.copy EXCEPT !.status = "stopped"])
        /\ call' = [call EXCEPT ![h].stops = @ \ {r}]
  BY DEF ForgetNext
<1>4. /\ r \in Held /\ Current(r) /\ r.copy \in Record /\ r.copy.status = "running"
  BY <1>2 DEF Call, Held, HoldsCurrent, OpenCall
<1>5. PICK d : d = [r.copy EXCEPT !.status = "stopped"]
  OBVIOUS
<1>6. /\ d \in Record /\ d.binding = r.copy.binding /\ d.asset = r.copy.asset
      /\ d.status = "stopped" /\ d.hidden = r.copy.hidden /\ d.configs = r.copy.configs
  BY <1>4, <1>5 DEF Record
<1>7. /\ Moved /\ records'[r.at] = d
      /\ \A i \in DOMAIN records : i # r.at => records'[i] = records[i]
  BY <1>3, <1>4, <1>5, <1>6, PutMoves
<1> QED
  BY <1>1, <1>3, <1>4, <1>6, <1>7

LEMMA ForgetNextFields ==
  ASSUME ExposureInv, OneByOneInv, NEW h, Handlers = {h}, ForgetNext(h)
  PROVE  /\ call[h].phase = "forgetting" /\ call[h].item = NoItem
         /\ call'[h].phase = "forgetting" /\ call'[h].item = NoItem /\ call'[h].hand = {}
         /\ call'[h].binding = call[h].binding /\ call'[h].todo = call[h].todo
         /\ call'[h].warm = call[h].warm /\ call'[h].known = call[h].known
<1>1. call[h].phase = "forgetting"
  BY DEF ForgetNext, At
<1>2. call[h] \in Call /\ HoldsCurrent(call[h])
  BY <1>1, Busy, SerialCall
<1>3. call[h].item = NoItem /\ call[h].hand = {}
  BY <1>1, <1>2 DEF HoldsCurrent, Holding, Between
<1>4. PICK r : call' = [call EXCEPT ![h].stops = @ \ {r}]
  BY ForgetNextMoves
<1>5. call'[h] = [call[h] EXCEPT !.stops = @ \ {r}]
  BY <1>4 DEF ExposureInv, TypeOK
<1> QED
  BY <1>1, <1>2, <1>3, <1>5 DEF Call

LEMMA OneByOneForgetNext ==
  ASSUME ExposureInv, OneByOneInv, NEW h, Handlers = {h}, ForgetNext(h)
  PROVE  OneByOneInv'
<1>1. Moved
  BY ForgetNextMoves
<1>2. RunningIsLast'
  BY <1>1, MovedKeeps DEF OneByOneInv
<1>3. /\ call[h].phase = "forgetting" /\ call[h].item = NoItem
      /\ call'[h].phase = "forgetting" /\ call'[h].item = NoItem /\ call'[h].hand = {}
      /\ call'[h].binding = call[h].binding
  BY ForgetNextFields
<1>4. call[h] \in Call /\ HoldsCurrent(call[h])
  BY <1>3, Busy, SerialCall
<1>5. PICK r \in call[h].stops :
        /\ r \in Held /\ Current(r) /\ call' = [call EXCEPT ![h].stops = @ \ {r}]
        /\ \A i \in DOMAIN records : i # r.at => records'[i] = records[i]
  BY ForgetNextMoves
<1>6. call'[h].stops = call[h].stops \ {r}
  BY <1>4, <1>5 DEF ExposureInv, TypeOK, Call
<1>7. ASSUME NEW s \in call'[h].stops PROVE Current(s)' /\ s.copy.binding = call[h].binding
  <2>1. s \in Held /\ s # r /\ Current(s) /\ s.copy.binding = call[h].binding
    BY <1>4, <1>6, <1>7 DEF Call, HoldsCurrent
  <2> QED
    BY <1>1, <1>5, <2>1, OtherCopyStays DEF Moved
<1>8. HoldsCurrent(call[h])'
  BY <1>3, <1>7 DEF HoldsCurrent, Holding, Starting, Recycling
<1> QED
  BY <1>2, <1>8 DEF OneByOneInv

LEMMA ReadAccessibleFields ==
  ASSUME ExposureInv, OneByOneInv, NEW h, Handlers = {h}, ReadAccessible(h)
  PROVE  /\ call[h].phase = "acting" /\ call[h].item = NoItem
         /\ call'[h].phase = "syncing" /\ call'[h].item = NoItem
         /\ call'[h].hand = {} /\ call'[h].stops = {}
         /\ call'[h].binding = call[h].binding /\ call'[h].todo = call[h].todo
         /\ call'[h].warm = call[h].warm /\ call'[h].known = call[h].known
         /\ call'[h].seen = Accessible(call[h].binding)
<1>1. call[h].phase = "acting"
  BY DEF ReadAccessible, At
<1>2. call[h] \in Call /\ HoldsCurrent(call[h])
  BY <1>1, Busy, SerialCall
<1>3. call[h].item = NoItem /\ call[h].hand = {} /\ call[h].stops = {}
  BY <1>1, <1>2 DEF HoldsCurrent, Holding, Between, Recycling
<1>4. PICK seen : seen = Accessible(call[h].binding)
  OBVIOUS
<1>5. call' = [call EXCEPT ![h].phase = "syncing", ![h].seen = seen]
  BY <1>4 DEF ReadAccessible
<1>6. call'[h] = [call[h] EXCEPT !.phase = "syncing", !.seen = seen]
  BY <1>5 DEF ExposureInv, TypeOK
<1> QED
  BY <1>1, <1>2, <1>3, <1>4, <1>6 DEF Call

LEMMA OneByOneReadAccessible ==
  ASSUME ExposureInv, OneByOneInv, NEW h, Handlers = {h}, ReadAccessible(h)
  PROVE  OneByOneInv'
<1>1. RunningIsLast'
  BY QuietRecords DEF ReadAccessible
<1> QED
  BY <1>1, ReadAccessibleFields, FreeHand DEF Holding, Starting

\* The last step of an apply, or of an adapter's call.
Ends(h) == Sync(h) \/ WriteResolved(h)

LEMMA OneByOneEnds ==
  ASSUME ExposureInv, OneByOneInv, NEW h, Handlers = {h}, Ends(h)
  PROVE  OneByOneInv'
<1>1. RunningIsLast'
  BY QuietRecords DEF Ends, Sync, WriteResolved
<1>2. call'[h].phase = "idle"
  BY DEF Ends, Sync, WriteResolved, Idle, ExposureInv, TypeOK
<1> QED
  BY <1>1, <1>2, FreeHandler

\* Nobody works: the environment, or nothing at all.
LEMMA OneByOneSame ==
  ASSUME OneByOneInv, UNCHANGED <<records, call>>
  PROVE  OneByOneInv'
<1>1. RunningIsLast'
  BY QuietRecords
<1>2. \A h \in Handlers : call[h].phase # "idle" => HoldsCurrent(call[h])
  BY DEF OneByOneInv
<1>3. \A h \in Handlers : call'[h].phase # "idle" => HoldsCurrent(call[h])'
  BY <1>2 DEF HoldsCurrent, Current, Running, Recycling
<1> QED
  BY <1>1, <1>3 DEF OneByOneInv

LEMMA OneByOneCrash ==
  ASSUME OneByOneInv, Crash
  PROVE  OneByOneInv'
<1>1. RunningIsLast'
  BY QuietRecords DEF Crash
<1>2. ASSUME NEW h \in Handlers, call'[h].phase # "idle" PROVE HoldsCurrent(call[h])'
  <2>1. call'[h] = call[h] /\ records' = records
    BY <1>2 DEF Crash, Idle
  <2>2. HoldsCurrent(call[h])
    BY <1>2, <2>1 DEF OneByOneInv
  <2> QED
    BY <2>1, <2>2 DEF HoldsCurrent, Current, Running, Recycling
<1> QED
  BY <1>1, <1>2 DEF OneByOneInv

LEMMA OneByOneRequests ==
  ASSUME ExposureInv, OneByOneInv, NEW h, Handlers = {h}, Requests(h)
  PROVE  OneByOneInv'
<1> SUFFICES ASSUME NEW b \in Bindings,
                    \/ \E n \in 1..MaxActions : \E acts \in [1..n -> Actions] : Apply(h, b, acts)
                    \/ \E assets \in SUBSET Warm : Prewarm(h, b, assets)
                    \/ Resolve(h, b)
             PROVE  OneByOneInv'
  BY DEF Requests
<1>1. ASSUME NEW n \in 1..MaxActions, NEW acts \in [1..n -> Actions], Apply(h, b, acts)
      PROVE  OneByOneInv'
  <2>1. n \in Nat
    OBVIOUS
  <2>2. acts \in UNION {[1..m -> Actions] : m \in Nat}
    BY <2>1
  <2>3. acts \in Seq(Actions)
    BY <2>2, SeqDef, Zenon
  <2> QED
    BY <1>1, <2>3, OneByOneApply
<1> QED
  BY <1>1, OneByOnePrewarm, OneByOneResolve

LEMMA OneByOneHandler ==
  ASSUME ExposureInv, OneByOneInv, NEW h, Handlers = {h}, Step(h)
  PROVE  OneByOneInv'
<1>1. CASE Reads(h) \/ Rewrites(h) \/ Lists(h) \/ Ends(h)
  BY <1>1, OneByOneReads, OneByOneRewrites, OneByOneLists, OneByOneEnds
<1>2. CASE DockerStep(h)
  BY <1>2, OneByOneDockerStep
<1>3. CASE RecordRunning(h) \/ RecordFailed(h)
  BY <1>3, OneByOneRecord
<1> QED
  BY <1>1, <1>2, <1>3, OneByOneWriteUnlocked, OneByOneFindConfigured, OneByOneWriteConfigured,
     OneByOneFindRunning, OneByOneAttach, OneByOneUnhide, OneByOneRemoveContainer,
     OneByOneMarkStopped, OneByOneAllStarted, OneByOneStopNext, OneByOneForgetNext,
     OneByOneReadAccessible
  DEF Step, DockerStep, Reads, Rewrites, Lists, Ends

LEMMA StepOneByOne ==
  ASSUME ExposureInv, OneByOneInv, \E h : Handlers = {h}, [Next]_vars
  PROVE  OneByOneInv'
<1> PICK h : Handlers = {h}
  OBVIOUS
<1>1. CASE Requests(h) \/ Step(h)
  BY <1>1, OneByOneRequests, OneByOneHandler
<1>2. ASSUME NEW b \in Bindings, NEW x \in Assets, ContainerExits(b, x) PROVE OneByOneInv'
  BY <1>2, OneByOneSame DEF ContainerExits
<1>3. CASE Crash
  BY <1>3, OneByOneCrash
<1>4. CASE UNCHANGED vars
  BY <1>4, OneByOneSame DEF vars
<1> QED
  BY <1>1, <1>2, <1>3, <1>4 DEF Next

LEMMA InitOneByOne == Init => OneByOneInv
BY DEF Init, OneByOneInv, RunningIsLast, Running, Idle

\* How any step leaves the records that were there.
LEMMA StepMoves ==
  ASSUME ExposureInv, OneByOneInv, \E h : Handlers = {h}, [Next]_vars
  PROVE  Moved \/ \E new \in Record : records' = Append(records, new)
<1> PICK h : Handlers = {h}
  OBVIOUS
<1>1. CASE Requests(h)
  BY <1>1, UnchangedMoved DEF Requests, Apply, Prewarm, Resolve
<1>2. CASE WriteConfigured(h) \/ Unhide(h) \/ MarkStopped(h) \/ ForgetNext(h)
  BY <1>2, ConfiguredMoves, UnhideMoves, MarkStoppedMoves, ForgetNextMoves
<1>3. CASE RecordRunning(h) \/ RecordFailed(h)
  BY <1>3, RecordAdds
<1>4. CASE DockerStep(h)
  BY <1>4, DockerStepGoes, UnchangedMoved
<1>5. CASE Reads(h) \/ Rewrites(h) \/ Lists(h)
  BY <1>5, ReadFields, RewriteFields, ListFields, UnchangedMoved
<1>6. CASE FindRunning(h) \/ Attach(h) \/ RemoveContainer(h) \/ AllStarted(h)
  BY <1>6, UnchangedMoved DEF FindRunning, Attach, RemoveContainer, AllStarted
<1>7. CASE StopNext(h) \/ ReadAccessible(h) \/ Ends(h) \/ WriteUnlocked(h) \/ FindConfigured(h)
  BY <1>7, UnchangedMoved
  DEF StopNext, ReadAccessible, Ends, Sync, WriteResolved, WriteUnlocked, FindConfigured
<1>8. ASSUME NEW b \in Bindings, NEW x \in Assets, ContainerExits(b, x) PROVE Moved
  BY <1>8, UnchangedMoved DEF ContainerExits
<1>9. CASE Crash \/ UNCHANGED vars
  BY <1>9, UnchangedMoved DEF Crash, vars
<1>10. CASE Step(h)
  BY <1>2, <1>3, <1>4, <1>5, <1>6, <1>7, <1>10 DEF Step, DockerStep, Reads, Rewrites, Lists, Ends
<1> QED
  BY <1>1, <1>8, <1>9, <1>10 DEF Next

\* While requests do not overlap, a handler's copies are the records themselves,
\* a runtime that runs is the last of its asset, and nothing is started that runs.
THEOREM OneByOneInvariant == (\E h : Handlers = {h}) => (Spec => []OneByOneInv)
<1> SUFFICES ASSUME \E h : Handlers = {h} PROVE Spec => []OneByOneInv
  OBVIOUS
<1>1. ExposureInv /\ OneByOneInv /\ [Next]_vars => OneByOneInv'
  BY StepOneByOne
<1> QED
  BY <1>1, InitOneByOne, ExposureInvariant, PTL DEF Spec

\* Without overlap an asset never has two runtimes that both pass for running, not
\* even after a crash in the middle of a start or of a swap.
THEOREM OneRunningRecordTheorem == (\E h : Handlers = {h}) => (Spec => []OneRunningRecord)
<1> SUFFICES ASSUME \E h : Handlers = {h} PROVE Spec => []OneRunningRecord
  OBVIOUS
<1>1. ASSUME ExposureInv, OneByOneInv PROVE OneRunningRecord
  <2> SUFFICES ASSUME NEW b \in Bindings, NEW x \in Assets
               PROVE  Cardinality(Running(b, x)) <= 1
    BY DEF OneRunningRecord
  <2>1. ASSUME NEW i \in Running(b, x), NEW j \in Running(b, x) PROVE i = j
    <3>1. LastRecord(b, x, i) /\ LastRecord(b, x, j)
      BY <1>1 DEF OneByOneInv, RunningIsLast
    <3>2. i \in DOMAIN records /\ j \in DOMAIN records /\ DOMAIN records \subseteq Nat
      BY <1>1 DEF Running, ExposureInv, TypeOK
    <3>3. i <= j /\ j <= i
      BY <3>1, <3>2 DEF LastRecord
    <3> QED
      BY <3>2, <3>3
  <2>2. CASE Running(b, x) = {}
    BY <2>2, FS_EmptySet
  <2>3. ASSUME NEW i \in Running(b, x) PROVE Cardinality(Running(b, x)) <= 1
    <3>1. Running(b, x) = {i}
      BY <2>1
    <3> QED
      BY <3>1, FS_Singleton
  <2> QED
    BY <2>2, <2>3
<1> QED
  BY <1>1, OneByOneInvariant, ExposureInvariant, PTL

\* Without overlap what is written to the list only stops runtimes, shows them or
\* adds configurations: no copy undoes what was written after it was read.
THEOREM RecordsMoveOnTheorem == (\E h : Handlers = {h}) => (Spec => RecordsMoveOn)
<1> SUFFICES ASSUME \E h : Handlers = {h} PROVE Spec => RecordsMoveOn
  OBVIOUS
<1>1. ASSUME ExposureInv, OneByOneInv, [Next]_vars
      PROVE  \A i \in DOMAIN records :
               /\ records[i].status # "running" => records'[i].status = records[i].status
               /\ ~records[i].hidden => ~records'[i].hidden
               /\ records[i].configs \subseteq records'[i].configs
  <2>1. CASE Moved
    BY <2>1 DEF Moved
  <2>2. ASSUME NEW new \in Record, records' = Append(records, new)
        PROVE  \A i \in DOMAIN records : records'[i] = records[i]
    BY <1>1, <2>2, Added
  <2> QED
    BY <1>1, <2>1, <2>2, StepMoves
<1> QED
  BY <1>1, OneByOneInvariant, ExposureInvariant, PTL DEF Spec, RecordsMoveOn


-------------------------------------------------------------------------------
(* What the one handler has to do.                                           *)

\* It goes on with what it had to do, or is through with the runtime it started.
GoesOn(h) ==
  /\ call'[h].binding = call[h].binding /\ call'[h].warm = call[h].warm
  /\ call'[h].known = call[h].known
  /\ Work(call[h])' \subseteq Work(call[h])
SameWork(h) == GoesOn(h) /\ Work(call[h]) \subseteq Work(call[h])'
LeavesItem(h) == GoesOn(h) /\ Work(call[h]) \subseteq Work(call[h])' \cup {call[h].item}

LEMMA GotoWork ==
  ASSUME ExposureInv, NEW h \in Handlers, call[h].phase # "idle", NEW p, Goto(h, p)
  PROVE  SameWork(h) /\ call'[h].phase = p /\ call'[h].item = call[h].item
<1>1. /\ call'[h].phase = p /\ call'[h].item = call[h].item
      /\ call'[h].binding = call[h].binding
      /\ call'[h].todo = call[h].todo /\ call'[h].known = call[h].known
      /\ call'[h].warm = call[h].warm
  BY GotoFields
<1> QED
  BY <1>1 DEF SameWork, GoesOn, Work

LEMMA StartedWork ==
  ASSUME ExposureInv, NEW h \in Handlers, call[h].phase # "idle",
         call' = [call EXCEPT ![h] = Started(call[h])]
  PROVE  LeavesItem(h) /\ call'[h].phase = "starting" /\ call'[h].item = NoItem
<1>1. call[h] \in Call /\ call'[h] = Started(call[h])
  BY Busy DEF ExposureInv, TypeOK
<1>2. /\ call'[h].phase = "starting" /\ call'[h].item = NoItem
      /\ call'[h].todo = call[h].todo /\ call'[h].known = call[h].known
      /\ call'[h].binding = call[h].binding /\ call'[h].warm = call[h].warm
  BY <1>1, StartedFields
<1> QED
  BY <1>2 DEF LeavesItem, GoesOn, Work

\* What a call on the binding service leaves the handler to do, if nobody else
\* writes the record.
LEMMA ReadWork ==
  ASSUME ExposureInv, OneByOneInv, NEW h, Handlers = {h}, Reads(h)
  PROVE  /\ SameWork(h) /\ call[h].phase \in {"acting", "target", "forgetting"}
         /\ call'[h].phase \in {"unlocking", "revealing", "recycling"}
BY ReadFields DEF SameWork, GoesOn, Work

LEMMA RewriteWork ==
  ASSUME ExposureInv, OneByOneInv, BackendsInv, NEW h, Handlers = {h}, Rewrites(h)
  PROVE  /\ SameWork(h) /\ call[h].phase \in {"revealing", "recycling"}
         /\ call'[h].phase \in {"acting", "target", "configure"} /\ unlocked' = unlocked
<1>1. /\ call[h].phase \in {"revealing", "recycling"} /\ call[h].binding \in Bindings
      /\ call'[h].phase \in {"acting", "target", "configure"}
      /\ call'[h].item = call[h].item
      /\ call'[h].binding = call[h].binding /\ call'[h].todo = call[h].todo
      /\ call'[h].warm = call[h].warm /\ call'[h].known = call[h].merged
      /\ unlocked' = [unlocked EXCEPT ![call[h].binding] = call[h].merged]
  BY RewriteFields
<1>2. call[h].merged = call[h].known /\ call[h].known = unlocked[call[h].binding]
  BY <1>1 DEF BackendsInv, KnowsItsWork
<1>3. unlocked' = unlocked
  BY <1>1, <1>2 DEF ExposureInv, TypeOK
<1> QED
  BY <1>1, <1>2, <1>3 DEF SameWork, GoesOn, Work

LEMMA ConfiguredWork ==
  ASSUME ExposureInv, NEW h \in Handlers, FindConfigured(h) \/ WriteConfigured(h)
  PROVE  /\ SameWork(h) /\ call[h].phase \in {"configure", "configuring"}
         /\ call'[h].phase \in {"acting", "target", "configuring"}
<1> DEFINE v == Action(h).variant
<1>1. call[h].phase \in {"configure", "configuring"}
  BY DEF FindConfigured, WriteConfigured, At
<1>2. call[h] \in Call
  BY <1>1, Busy
<1>3. CASE call' = [call EXCEPT ![h] = Configured(call[h], v)]
  <2>1. call'[h] = Configured(call[h], v)
    BY <1>3 DEF ExposureInv, TypeOK
  <2> HIDE DEF v
  <2>2. /\ call'[h].phase \in {"acting", "target"} /\ call'[h].item = call[h].item
        /\ call'[h].todo = call[h].todo /\ call'[h].known = call[h].known
        /\ call'[h].binding = call[h].binding /\ call'[h].warm = call[h].warm
    BY <1>2, <2>1, ConfiguredFields
  <2> QED
    BY <1>1, <2>2 DEF SameWork, GoesOn, Work
<1>4. ASSUME NEW hand,
             call' = [call EXCEPT ![h] = [call[h] EXCEPT !.phase = "configuring", !.hand = hand]]
      PROVE  SameWork(h) /\ call'[h].phase = "configuring"
  <2>1. /\ call'[h].phase = "configuring" /\ call'[h].item = call[h].item
        /\ call'[h].todo = call[h].todo /\ call'[h].known = call[h].known
        /\ call'[h].binding = call[h].binding /\ call'[h].warm = call[h].warm
    BY <1>2, <1>4 DEF Call, ExposureInv, TypeOK
  <2> QED
    BY <2>1 DEF SameWork, GoesOn, Work
<1> QED
  BY <1>1, <1>3, <1>4 DEF FindConfigured, WriteConfigured

LEMMA FindRunningWork ==
  ASSUME ExposureInv, OneByOneInv, NEW h, Handlers = {h}, FindRunning(h)
  PROVE  /\ SameWork(h) /\ call[h].phase = "starting"
         /\ call'[h].phase \in {"inspect", "attach", "removing"} /\ call'[h].item # NoItem
<1>1. call[h].phase = "starting" /\ call[h].item = NoItem
  BY SerialCall DEF FindRunning, At, HoldsCurrent
<1>2. PICK it \in call[h].todo :
           /\ it # NoItem
           /\ call'[h].item = it /\ call'[h].todo = call[h].todo \ {it}
           /\ call'[h].binding = call[h].binding
           /\ call'[h].warm = call[h].warm /\ call'[h].known = call[h].known
           /\ call'[h].phase \in {"inspect", "attach", "removing"}
  BY FindRunningPicks
<1> QED
  BY <1>1, <1>2 DEF SameWork, GoesOn, Work

LEMMA MarkStoppedWork ==
  ASSUME ExposureInv, NEW h, Handlers = {h}, MarkStopped(h)
  PROVE  /\ SameWork(h) /\ call[h].phase = "marking" /\ call'[h].item = call[h].item
         /\ call'[h].phase = IF call[h].item = NoItem THEN "stopping" ELSE "inspect"
BY MarkStoppedFields DEF MarkStopped, At, SameWork, GoesOn, Work

LEMMA AllStartedWork ==
  ASSUME ExposureInv, OneByOneInv, NEW h, Handlers = {h}, AllStarted(h)
  PROVE  /\ call[h].phase = "starting" /\ Work(call[h]) = {}
         /\ call'[h].phase = "idle" \/ (SameWork(h) /\ call'[h].phase \in {"configure", "acting"})
BY AllStartedFields DEF SameWork, GoesOn, Work

LEMMA RecycleWork ==
  ASSUME ExposureInv, OneByOneInv, NEW h, Handlers = {h},
         Lists(h) \/ StopNext(h) \/ ForgetNext(h) \/ ReadAccessible(h)
  PROVE  /\ SameWork(h) /\ call[h].phase \in {"acting", "stopping", "forgetting"}
         /\ call'[h].phase \in {"stopping", "removing", "forgetting", "syncing"}
<1>1. CASE Lists(h)
  BY <1>1, ListFields DEF SameWork, GoesOn, Work
<1>2. CASE StopNext(h)
  BY <1>2, StopNextFields DEF SameWork, GoesOn, Work
<1>3. CASE ForgetNext(h)
  BY <1>3, ForgetNextFields DEF SameWork, GoesOn, Work
<1>4. CASE ReadAccessible(h)
  BY <1>4, ReadAccessibleFields DEF SameWork, GoesOn, Work
<1> QED
  BY <1>1, <1>2, <1>3, <1>4


-------------------------------------------------------------------------------
(* Backends: without overlap or crashes, what passes for running has a       *)
(* container.                                                                *)

SpentInv == spent \in [{"requests", "failures", "exits", "crashes"} -> Nat]

LEMMA SpendKeeps ==
  ASSUME SpentInv, NEW what \in {"requests", "failures", "exits", "crashes"}, NEW bound,
         Spend(what, bound)
  PROVE  SpentInv'
BY DEF SpentInv, Spend

LEMMA SpentStep ==
  ASSUME SpentInv, [Next]_vars
  PROVE  SpentInv'
<1>1. ASSUME NEW h \in Handlers, Requests(h) PROVE SpentInv'
  BY <1>1, SpendKeeps DEF Requests, Apply, Prewarm, Resolve
<1>2. ASSUME NEW h \in Handlers, Run(h) \/ StartSidecars(h) PROVE SpentInv'
  <2>1. spent' = spent \/ Spend("failures", MaxFailures)
    BY <1>2 DEF Run, StartSidecars
  <2> QED
    BY <2>1, SpendKeeps DEF SpentInv
<1>3. ASSUME NEW h \in Handlers, \/ Unlock(h) \/ UnlockTarget(h) \/ Reveal(h) \/ RecycleBinding(h)
                                 \/ WriteUnlocked(h) \/ WriteRevealed(h) \/ WriteRecycled(h)
                                 \/ WriteResolved(h) \/ BeginRecycle(h) \/ ListAgain(h)
      PROVE  spent' = spent
  BY <1>3 DEF Unlock, UnlockTarget, Reveal, RecycleBinding, ReadBinding, WriteUnlocked,
              WriteRevealed, WriteRecycled, WriteResolved, BeginRecycle, ListAgain, ListRunning
<1>4. ASSUME NEW h \in Handlers, Attach(h) \/ Unhide(h) \/ RemoveContainer(h) \/ MarkStopped(h)
                                 \/ Inspect(h) \/ RemoveDead(h) \/ Verify(h)
      PROVE  spent' = spent
  BY <1>4 DEF Attach, Unhide, RemoveContainer, MarkStopped, Inspect, RemoveDead, Verify
<1>5. ASSUME NEW h \in Handlers, \/ Route(h) \/ RecordRunning(h) \/ Clean(h) \/ RecordFailed(h)
                                 \/ AllStarted(h) \/ StopNext(h) \/ ForgetNext(h)
                                 \/ ReadAccessible(h) \/ Sync(h)
                                 \/ FindConfigured(h) \/ WriteConfigured(h) \/ FindRunning(h)
      PROVE  spent' = spent
  BY <1>5 DEF Route, RecordRunning, Clean, RecordFailed, AllStarted, StopNext, ForgetNext,
              ReadAccessible, Sync, FindConfigured, WriteConfigured, FindRunning
<1>6. ASSUME NEW h \in Handlers, Step(h) PROVE SpentInv'
  <2>1. spent' = spent \/ SpentInv'
    BY <1>2, <1>3, <1>4, <1>5, <1>6 DEF Step
  <2> QED
    BY <2>1 DEF SpentInv
<1>7. ASSUME NEW b \in Bindings, NEW x \in Assets, ContainerExits(b, x) PROVE SpentInv'
  BY <1>7, SpendKeeps DEF ContainerExits
<1>8. CASE Crash
  BY <1>8, SpendKeeps DEF Crash
<1>9. CASE UNCHANGED vars
  BY <1>9 DEF vars, SpentInv
<1> QED
  BY <1>1, <1>6, <1>7, <1>8, <1>9 DEF Next

LEMMA NoCrash ==
  ASSUME SpentInv, MaxCrashes = 0
  PROVE  ~Crash
BY DEF SpentInv, Crash, Spend

\* What the handler works on and what was asked for stay in step, outside of a call
\* on the binding service.
Calling == {"unlocking", "revealing", "recycling", "resolving"}

LEMMA KnowsStays ==
  ASSUME BackendsInv, NEW h, Handlers = {h}, call[h].phase # "idle",
         UNCHANGED <<unlocked, wanted>>, SameWork(h) \/ LeavesItem(h),
         call'[h].phase \notin Calling,
         (call'[h].phase \in Between \/ Recycling(call[h])') => Work(call[h]) = {},
         call'[h].phase \in {"sidecars", "route", "record"} =>
           containers'[call'[h].binding][call'[h].item.asset] # "missing"
  PROVE  WantedIsOpen' /\ \A k \in Handlers : (call[k].phase # "idle" => KnowsItsWork(call[k]))'
<1>1. KnowsItsWork(call[h])
  BY DEF BackendsInv
<1>2. /\ call'[h].binding = call[h].binding /\ call'[h].warm = call[h].warm
      /\ call'[h].known = unlocked[call[h].binding]
      /\ Work(call[h])' \subseteq Work(call[h])
  BY <1>1 DEF SameWork, LeavesItem, GoesOn, KnowsItsWork
<1>3. KnowsItsWork(call[h])'
  <2>1. call'[h].phase \in Between \/ Recycling(call[h])' => Work(call[h])' = {}
    BY <1>2
  <2>2. \A it \in Work(call[h])' :
          IF call'[h].warm THEN it.asset \notin unlocked'[call'[h].binding]
                           ELSE it.asset \in wanted'[call'[h].binding]
    BY <1>1, <1>2 DEF KnowsItsWork
  <2>3. call'[h].known = unlocked'[call'[h].binding]
    BY <1>2
  <2> QED
    BY <2>1, <2>2, <2>3 DEF KnowsItsWork, Calling
<1>4. WantedIsOpen'
  BY DEF BackendsInv, WantedIsOpen
<1> QED
  BY <1>3, <1>4

\* The handler is not between taking a container away and marking its record.
LEMMA BackendsHere ==
  ASSUME BackendsInv, NEW h, Handlers = {h}, call[h].phase # "marking",
         NEW i \in DOMAIN records, records[i].status = "running"
  PROVE  containers[records[i].binding][records[i].asset] # "missing"
BY DEF BackendsInv, BackendsExist, At

LEMMA BackendsMoved ==
  ASSUME BackendsInv, NEW h, Handlers = {h}, call[h].phase # "marking", Moved,
         containers' = containers
  PROVE  BackendsExist'
<1>1. ASSUME NEW i \in DOMAIN records', records'[i].status = "running"
      PROVE  containers'[records'[i].binding][records'[i].asset] # "missing"
  <2>1. /\ i \in DOMAIN records /\ records[i].status = "running"
        /\ records'[i].binding = records[i].binding /\ records'[i].asset = records[i].asset
    BY <1>1 DEF Moved
  <2> QED
    BY <2>1, BackendsHere
<1> QED
  BY <1>1 DEF BackendsExist

LEMMA BackendsRequest ==
  ASSUME ExposureInv, BackendsInv, NEW h, Handlers = {h}, NEW b \in Bindings,
         \/ \E acts : Apply(h, b, acts)
         \/ \E assets \in SUBSET Warm : Prewarm(h, b, assets)
         \/ Resolve(h, b)
  PROVE  BackendsInv'
<1>1. /\ call[h].phase = "idle" /\ UNCHANGED <<unlocked, containers, records, wanted>>
  BY DEF Apply, Prewarm, Resolve, At
<1>2. BackendsExist'
  BY <1>1, UnchangedMoved, BackendsMoved
<1>3. WantedIsOpen'
  BY <1>1 DEF BackendsInv, WantedIsOpen
<1>4. KnowsItsWork(call[h])'
  <2>1. ASSUME NEW acts, Apply(h, b, acts) PROVE KnowsItsWork(call[h])'
    <3>1. /\ call'[h].phase = "acting" /\ call'[h].binding = b /\ call'[h].known = unlocked[b]
          /\ call'[h].todo = {} /\ call'[h].item = NoItem
      BY <2>1 DEF Apply, NewCall, ExposureInv, TypeOK
    <3> QED
      BY <1>1, <3>1 DEF KnowsItsWork, Work
  <2>2. ASSUME NEW assets \in SUBSET Warm, Prewarm(h, b, assets) PROVE KnowsItsWork(call[h])'
    <3> DEFINE todo == {[asset |-> x, image |-> Base] : x \in assets}
    <3>1. assets \cap unlocked[b] = {}
      BY <2>2 DEF Prewarm
    <3>2. \A it \in todo : it.asset \notin unlocked[b]
      BY <3>1
    <3>3. call' = [call EXCEPT ![h] = NewCall(b, TRUE, <<>>, todo, "starting")]
      BY <2>2 DEF Prewarm
    <3> HIDE DEF todo
    <3>4. /\ call'[h].phase = "starting" /\ call'[h].binding = b /\ call'[h].known = unlocked[b]
          /\ call'[h].todo = todo /\ call'[h].item = NoItem /\ call'[h].warm
      BY <3>3 DEF NewCall, ExposureInv, TypeOK
    <3> QED
      BY <1>1, <3>2, <3>4 DEF KnowsItsWork, Work, Between, Recycling
  <2>3. ASSUME Resolve(h, b) PROVE KnowsItsWork(call[h])'
    <3>1. call' = [call EXCEPT ![h] =
            [NewCall(b, FALSE, <<>>, {}, "resolving") EXCEPT !.merged = unlocked[b]]]
      BY <2>3 DEF Resolve
    <3>2. call'[h] = [NewCall(b, FALSE, <<>>, {}, "resolving") EXCEPT !.merged = unlocked[b]]
      BY <3>1 DEF ExposureInv, TypeOK
    <3>3. /\ call'[h].phase = "resolving" /\ call'[h].binding = b /\ call'[h].known = unlocked[b]
          /\ call'[h].merged = unlocked[b] /\ call'[h].todo = {} /\ call'[h].item = NoItem
      BY <3>2 DEF NewCall
    <3> QED
      BY <1>1, <3>3 DEF KnowsItsWork, Work
  <2> QED
    BY <2>1, <2>2, <2>3
<1> QED
  BY <1>2, <1>3, <1>4 DEF BackendsInv


\* The one runtime an unlock makes the handler start.
LEMMA UnlockFields ==
  ASSUME ExposureInv, OneByOneInv, BackendsInv, NEW h, Handlers = {h}, WriteUnlocked(h)
  PROVE  \E x \in Assets, it \in Item :
           /\ it.asset = x
           /\ call[h].phase = "unlocking" /\ Work(call[h]) = {}
           /\ call[h].binding \in Bindings /\ ~call[h].warm
           /\ call'[h].phase = "starting" /\ call'[h].binding = call[h].binding /\ ~call'[h].warm
           /\ call'[h].known = unlocked'[call[h].binding] /\ Work(call[h])' = {it}
           /\ unlocked' = [unlocked EXCEPT ![call[h].binding] = @ \cup {x}]
           /\ wanted' = [wanted EXCEPT ![call[h].binding] = {y \in @ : Port[y] # Port[x]} \cup {x}]
           /\ UNCHANGED <<containers, records, routes, view, now, spent>>
<1> DEFINE b == call[h].binding
<1>1. call[h].phase = "unlocking"
  BY DEF WriteUnlocked, At
<1>2. call[h] \in Call /\ KnowsItsWork(call[h]) /\ Course(call[h])
  BY <1>1, Busy DEF BackendsInv
<1>3. b \in Bindings /\ ~call[h].warm /\ call[h].acts # <<>> /\ Work(call[h]) = {}
  BY <1>1, <1>2 DEF Call, Course, AtItem, KnowsItsWork, Between
<1>4. PICK x \in Assets, image \in Images : x = Asked(Action(h)) /\ image = AskedImage(Action(h))
  BY <1>1, <1>2, <1>3, AskedImageInOrder DEF Course, Action
<1>5. call[h].known = unlocked[b] /\ call[h].merged = unlocked[b] \cup {x}
  BY <1>1, <1>2, <1>4 DEF KnowsItsWork, Action
<1>6. Starts(call[h].merged, call[h].known, x) = {x}
  BY <1>5 DEF Starts
<1>7. PICK it : it = [asset |-> x, image |-> image]
  OBVIOUS
<1>8. it \in Item /\ it.asset = x /\ it # NoItem
  BY <1>7 DEF Item, NoItem
<1>9. {[asset |-> y, image |-> IF y = x THEN image ELSE Base] :
         y \in Starts(call[h].merged, call[h].known, x)} = {it}
  BY <1>6, <1>7
<1>10. /\ call'[h].phase = "starting" /\ call'[h].item = NoItem /\ call'[h].todo = {it}
       /\ call'[h].binding = b /\ call'[h].warm = call[h].warm /\ call'[h].known = call[h].merged
  BY <1>4, <1>9, UnlockedFields
<1>11. /\ unlocked' = [unlocked EXCEPT ![b] = call[h].merged]
       /\ wanted' = [wanted EXCEPT ![b] = {y \in @ : Port[y] # Port[x]} \cup {x}]
       /\ UNCHANGED <<containers, records, routes, view, now, spent>>
  BY <1>4 DEF WriteUnlocked, WriteBinding
<1>12. unlocked'[b] = call[h].merged /\ unlocked' = [unlocked EXCEPT ![b] = @ \cup {x}]
  BY <1>3, <1>5, <1>11 DEF ExposureInv, TypeOK
<1>13. Work(call[h])' = {it}
  BY <1>8, <1>10 DEF Work
<1> QED
  BY <1>1, <1>3, <1>8, <1>10, <1>11, <1>12, <1>13

LEMMA BackendsUnlock ==
  ASSUME ExposureInv, OneByOneInv, BackendsInv, NEW h, Handlers = {h}, WriteUnlocked(h)
  PROVE  BackendsInv'
<1> DEFINE b == call[h].binding
<1>1. PICK x \in Assets, it \in Item :
           /\ it.asset = x
           /\ call[h].phase = "unlocking"
           /\ call[h].binding \in Bindings
           /\ call'[h].phase = "starting" /\ call'[h].binding = call[h].binding /\ ~call'[h].warm
           /\ call'[h].known = unlocked'[call[h].binding] /\ Work(call[h])' = {it}
           /\ unlocked' = [unlocked EXCEPT ![call[h].binding] = @ \cup {x}]
           /\ wanted' = [wanted EXCEPT ![call[h].binding] = {y \in @ : Port[y] # Port[x]} \cup {x}]
           /\ UNCHANGED <<containers, records>>
  BY UnlockFields
<1>2. BackendsExist'
  BY <1>1, UnchangedMoved, BackendsMoved
<1>3. /\ unlocked \in [Bindings -> SUBSET Assets] /\ wanted \in [Bindings -> SUBSET Assets]
      /\ \A d \in Bindings : /\ wanted[d] \subseteq unlocked[d]
                             /\ \A y, z \in wanted[d] : Port[y] = Port[z] => y = z
  BY DEF ExposureInv, TypeOK, BackendsInv, WantedIsOpen
<1>4. /\ wanted' \in [Bindings -> SUBSET Assets]
      /\ wanted'[b] = {y \in wanted[b] : Port[y] # Port[x]} \cup {x}
      /\ unlocked'[b] = unlocked[b] \cup {x}
      /\ \A d \in Bindings : d # b => wanted'[d] = wanted[d] /\ unlocked'[d] = unlocked[d]
  BY <1>1, <1>3
<1>5. WantedIsOpen'
  <2>1. ASSUME NEW d \in Bindings
        PROVE  /\ wanted'[d] \subseteq unlocked'[d]
               /\ \A y, z \in wanted'[d] : Port[y] = Port[z] => y = z
    <3>1. CASE d = b
      BY <1>3, <1>4, <3>1
    <3>2. CASE d # b
      BY <1>3, <1>4, <3>2
    <3> QED
      BY <3>1, <3>2
  <2> QED
    BY <1>4, <2>1 DEF WantedIsOpen
<1>6. KnowsItsWork(call[h])'
  BY <1>1, <1>4 DEF KnowsItsWork, Between, Recycling
<1> QED
  BY <1>2, <1>5, <1>6 DEF BackendsInv

\* Steps of the handler's own that touch no container.
LEMMA BackendsFiles ==
  ASSUME ExposureInv, OneByOneInv, BackendsInv, NEW h, Handlers = {h},
         call[h].phase \notin {"idle", "marking"}, Moved, UNCHANGED <<containers, unlocked, wanted>>,
         SameWork(h) \/ LeavesItem(h),
         (call'[h].phase \in Between \/ Recycling(call[h])') => Work(call[h]) = {},
         call'[h].phase \notin Calling \cup {"sidecars", "route", "record"}
  PROVE  BackendsInv'
<1>1. BackendsExist'
  BY BackendsMoved
<1>2. WantedIsOpen' /\ \A k \in Handlers : (call[k].phase # "idle" => KnowsItsWork(call[k]))'
  BY KnowsStays
<1> QED
  BY <1>1, <1>2 DEF BackendsInv

LEMMA NoWork ==
  ASSUME BackendsInv, NEW h \in Handlers, call[h].phase \in Between \/ Recycling(call[h]),
         call[h].phase # "idle"
  PROVE  Work(call[h]) = {}
BY DEF BackendsInv, KnowsItsWork

\* A copy of the binding record says what the handler knows, and the asset asked for.
LEMMA BackendsReads ==
  ASSUME ExposureInv, OneByOneInv, BackendsInv, NEW h, Handlers = {h}, Reads(h)
  PROVE  BackendsInv'
<1>1. /\ call[h].phase \in {"acting", "target", "forgetting"}
      /\ call'[h].phase \in {"unlocking", "revealing", "recycling"}
      /\ call'[h].item = call[h].item
      /\ call'[h].binding = call[h].binding /\ call'[h].todo = call[h].todo
      /\ call'[h].warm = call[h].warm /\ call'[h].known = call[h].known
      /\ call'[h].merged = unlocked[call[h].binding] \cup
           (IF call'[h].phase = "unlocking" THEN {Asked(Head(call'[h].acts))} ELSE {})
      /\ UNCHANGED <<unlocked, containers, records, wanted>>
  BY ReadFields
<1>2. BackendsExist'
  BY <1>1, UnchangedMoved, BackendsMoved
<1>3. WantedIsOpen'
  BY <1>1 DEF BackendsInv, WantedIsOpen
<1>4. Work(call[h]) = {} /\ call[h].known = unlocked[call[h].binding]
  BY <1>1, NoWork DEF Between, BackendsInv, KnowsItsWork
<1>5. Work(call[h])' = {}
  BY <1>1, <1>4 DEF Work
<1>6. KnowsItsWork(call[h])'
  BY <1>1, <1>4, <1>5 DEF KnowsItsWork
<1> QED
  BY <1>2, <1>3, <1>6 DEF BackendsInv

LEMMA BackendsActing ==
  ASSUME ExposureInv, OneByOneInv, BackendsInv, NEW h, Handlers = {h},
         \/ Rewrites(h) \/ FindConfigured(h) \/ WriteConfigured(h)
         \/ Lists(h) \/ StopNext(h) \/ ForgetNext(h) \/ ReadAccessible(h)
  PROVE  BackendsInv'
<1>1. /\ SameWork(h) /\ call[h].phase \in Between
      /\ call'[h].phase \in (Between \ Calling) \cup {"removing"}
  BY RewriteWork, ConfiguredWork, RecycleWork DEF Between, Calling
<1>2. Work(call[h]) = {}
  BY <1>1, NoWork DEF Between
<1>3. Moved
  <2>1. CASE Rewrites(h) \/ Lists(h)
    BY <2>1, RewriteFields, ListFields, UnchangedMoved
  <2>2. CASE FindConfigured(h) \/ StopNext(h) \/ ReadAccessible(h)
    BY <2>2, UnchangedMoved DEF FindConfigured, StopNext, ReadAccessible
  <2> QED
    BY <2>1, <2>2, ConfiguredMoves, ForgetNextMoves
<1>4. UNCHANGED <<containers, unlocked, wanted>>
  BY RewriteFields, RewriteWork, ListFields
  DEF FindConfigured, WriteConfigured, StopNext, ForgetNext, ReadAccessible
<1> QED
  BY <1>1, <1>2, <1>3, <1>4, BackendsFiles DEF Between, Calling

LEMMA BackendsStarting ==
  ASSUME ExposureInv, OneByOneInv, BackendsInv, NEW h, Handlers = {h},
         FindRunning(h) \/ Attach(h) \/ Unhide(h)
  PROVE  BackendsInv'
<1>1. CASE FindRunning(h)
  <2>1. /\ SameWork(h) /\ call[h].phase = "starting"
        /\ call'[h].phase \in {"inspect", "attach", "removing"} /\ call'[h].item # NoItem
    BY <1>1, FindRunningWork
  <2>2. Moved /\ UNCHANGED <<containers, unlocked, wanted>>
    BY <1>1, UnchangedMoved DEF FindRunning
  <2> QED
    BY <2>1, <2>2, BackendsFiles DEF Between, Recycling, Calling
<1>2. CASE Attach(h) \/ Unhide(h)
  <2>1. call[h].phase \in {"attach", "unhide"}
    BY <1>2 DEF Attach, Unhide, At
  <2>2. Moved /\ UNCHANGED <<containers, unlocked, wanted>>
    <3>1. CASE Attach(h)
      BY <3>1, UnchangedMoved DEF Attach
    <3>2. CASE Unhide(h)
      BY <3>2, UnhideMoves DEF Unhide
    <3> QED
      BY <1>2, <3>1, <3>2
  <2>3. \/ call' = [call EXCEPT ![h] = Started(call[h])]
        \/ Goto(h, "unhide")
    BY <1>2 DEF Attach, Unhide, Goto
  <2>4. (SameWork(h) \/ LeavesItem(h)) /\ call'[h].phase \in {"starting", "unhide"}
    BY <2>1, <2>3, StartedWork, GotoWork
  <2> QED
    BY <2>1, <2>2, <2>4, BackendsFiles DEF Between, Recycling, Calling
<1> QED
  BY <1>1, <1>2

LEMMA BackendsAllStarted ==
  ASSUME ExposureInv, OneByOneInv, BackendsInv, NEW h, Handlers = {h}, AllStarted(h)
  PROVE  BackendsInv'
<1>1. /\ call[h].phase = "starting" /\ Work(call[h]) = {}
      /\ call'[h].phase = "idle" \/ (SameWork(h) /\ call'[h].phase \in {"configure", "acting"})
  BY AllStartedWork
<1>2. UNCHANGED <<containers, unlocked, wanted, records>>
  BY DEF AllStarted
<1>3. CASE call'[h].phase = "idle"
  <2>1. BackendsExist'
    BY <1>1, <1>2, UnchangedMoved, BackendsMoved
  <2>2. WantedIsOpen'
    BY <1>2 DEF BackendsInv, WantedIsOpen
  <2> QED
    BY <1>3, <2>1, <2>2 DEF BackendsInv
<1>4. CASE SameWork(h) /\ call'[h].phase \in {"configure", "acting"}
  BY <1>1, <1>2, <1>4, UnchangedMoved, BackendsFiles DEF Calling
<1> QED
  BY <1>1, <1>3, <1>4

LEMMA BackendsEnds ==
  ASSUME ExposureInv, BackendsInv, NEW h, Handlers = {h}, Ends(h)
  PROVE  /\ BackendsInv' /\ call[h].phase \in {"syncing", "resolving"} /\ Work(call[h]) = {}
         /\ UNCHANGED <<unlocked, records, routes, now, wanted>> /\ call'[h].phase = "idle"
<1>1. /\ call[h].phase \in {"syncing", "resolving"}
      /\ UNCHANGED <<containers, wanted, records, routes, now>> /\ call'[h].phase = "idle"
  BY DEF Ends, Sync, WriteResolved, At, Idle, ExposureInv, TypeOK
<1>2. unlocked' = unlocked
  <2>1. CASE Sync(h)
    BY <2>1 DEF Sync
  <2>2. CASE WriteResolved(h)
    <3>1. /\ call[h].phase = "resolving"
          /\ unlocked' = [unlocked EXCEPT ![call[h].binding] = call[h].merged]
      BY <2>2 DEF WriteResolved, WriteBinding, At
    <3>2. call[h].merged = unlocked[call[h].binding]
      BY <3>1 DEF BackendsInv, KnowsItsWork
    <3> QED
      BY <3>1, <3>2 DEF ExposureInv, TypeOK
  <2> QED
    BY <2>1, <2>2 DEF Ends
<1>3. BackendsExist'
  BY <1>1, UnchangedMoved, BackendsMoved
<1>4. WantedIsOpen'
  BY <1>1, <1>2 DEF BackendsInv, WantedIsOpen
<1>5. Work(call[h]) = {}
  BY <1>1, NoWork DEF Between
<1> QED
  BY <1>1, <1>2, <1>3, <1>4, <1>5 DEF BackendsInv


\* Only the record in hand can be running where a container is taken away.
LEMMA BackendsRemoveContainer ==
  ASSUME ExposureInv, OneByOneInv, BackendsInv, NEW h, Handlers = {h}, RemoveContainer(h)
  PROVE  BackendsInv'
<1> DEFINE b == call[h].binding
<1>1. /\ call[h].phase = "removing" /\ Goto(h, "marking")
      /\ UNCHANGED <<unlocked, records, wanted>>
  BY DEF RemoveContainer, At
<1>2. PICK r \in Held : /\ call[h].hand = {r} /\ Current(r) /\ r.copy \in Record
                        /\ r.copy.binding = call[h].binding /\ r.copy.status = "running"
  BY <1>1, InHand DEF Holding
<1>3. r.copy.asset \in Assets /\ b \in Bindings
  BY <1>2 DEF Record
<1>4. containers' = [containers EXCEPT ![b][r.copy.asset] = "missing"]
  BY <1>2 DEF RemoveContainer, SetContainer
<1>5. /\ call'[h].phase = "marking" /\ call'[h].item = call[h].item
      /\ call'[h].hand = {r} /\ SameWork(h)
  BY <1>1, <1>2, GotoFields, GotoWork
<1>6. ASSUME NEW i \in DOMAIN records, records[i].status = "running"
      PROVE  \/ containers'[records[i].binding][records[i].asset] # "missing"
             \/ i = r.at
  <2>1. records[i] \in Record /\ records[i].binding \in Bindings /\ records[i].asset \in Assets
    BY HeldInOrder DEF Record
  <2>2. CASE records[i].binding = b /\ records[i].asset = r.copy.asset
    <3>1. i \in Running(b, r.copy.asset) /\ r.at \in Running(b, r.copy.asset)
      BY <1>2, <1>6, <2>2 DEF Running, Current
    <3>2. LastRecord(b, r.copy.asset, i) /\ LastRecord(b, r.copy.asset, r.at)
      BY <1>3, <3>1 DEF OneByOneInv, RunningIsLast
    <3>3. i \in DOMAIN records /\ r.at \in DOMAIN records /\ DOMAIN records \subseteq Nat
      BY <3>1 DEF Running, ExposureInv, TypeOK
    <3>4. i <= r.at /\ r.at <= i
      BY <3>2, <3>3 DEF LastRecord
    <3> QED
      BY <3>3, <3>4
  <2>3. CASE ~(records[i].binding = b /\ records[i].asset = r.copy.asset)
    <3>1. containers[records[i].binding][records[i].asset] # "missing"
      BY <1>1, <1>6, BackendsHere
    <3>2. containers'[records[i].binding][records[i].asset]
            = containers[records[i].binding][records[i].asset]
      BY <1>3, <1>4, <2>1, <2>3 DEF ExposureInv, TypeOK
    <3> QED
      BY <3>1, <3>2
  <2> QED
    BY <2>2, <2>3
<1>7. BackendsExist'
  BY <1>1, <1>5, <1>6 DEF BackendsExist, At
<1>8. (call'[h].phase \in Between \/ Recycling(call[h])') => Work(call[h]) = {}
  <2>1. Recycling(call[h])' => Recycling(call[h])
    BY <1>1, <1>5 DEF Recycling
  <2> QED
    BY <1>1, <1>5, <2>1, NoWork DEF Between
<1>9. WantedIsOpen' /\ \A k \in Handlers : (call[k].phase # "idle" => KnowsItsWork(call[k]))'
  BY <1>1, <1>5, <1>8, KnowsStays DEF Calling
<1> QED
  BY <1>7, <1>9 DEF BackendsInv

LEMMA BackendsMarkStopped ==
  ASSUME ExposureInv, OneByOneInv, BackendsInv, NEW h, Handlers = {h}, MarkStopped(h)
  PROVE  BackendsInv'
<1>1. UNCHANGED <<unlocked, containers, wanted>>
  BY DEF MarkStopped
<1>2. /\ SameWork(h) /\ call[h].phase = "marking" /\ call'[h].item = call[h].item
      /\ call'[h].phase = IF call[h].item = NoItem THEN "stopping" ELSE "inspect"
  BY MarkStoppedWork
<1>3. Moved
  BY MarkStoppedMoves
<1>4. PICK r \in Held :
        /\ call[h].hand = {r}
        /\ \A i \in DOMAIN records : i # r.at => records'[i] = records[i]
        /\ records'[r.at].status = "stopped"
  BY MarkStoppedMoves
<1>5. ASSUME NEW i \in DOMAIN records', records'[i].status = "running"
      PROVE  containers'[records'[i].binding][records'[i].asset] # "missing"
  <2>1. i \in DOMAIN records /\ i # r.at
    BY <1>3, <1>4, <1>5 DEF Moved
  <2>2. records'[i] = records[i]
    BY <1>4, <2>1
  <2>3. containers[records[i].binding][records[i].asset] # "missing"
    BY <1>4, <1>5, <2>1, <2>2 DEF BackendsInv, BackendsExist
  <2> QED
    BY <1>1, <2>2, <2>3
<1>6. BackendsExist'
  BY <1>5 DEF BackendsExist
<1>7. (call'[h].phase \in Between \/ Recycling(call[h])') => Work(call[h]) = {}
  <2>1. (call'[h].phase \in Between \/ Recycling(call[h])') => Recycling(call[h])
    BY <1>2 DEF Between, Recycling
  <2> QED
    BY <1>2, <2>1, NoWork
<1>8. WantedIsOpen' /\ \A k \in Handlers : (call[k].phase # "idle" => KnowsItsWork(call[k]))'
  BY <1>1, <1>2, <1>7, KnowsStays DEF Calling
<1> QED
  BY <1>6, <1>8 DEF BackendsInv

\* A Docker call changes at most the container of the runtime that is being
\* started, and goes on only if it is there.
LEMMA DockerContainers ==
  ASSUME ExposureInv, BackendsInv, NEW h, Handlers = {h}, DockerStep(h)
  PROVE  /\ \A b \in Bindings : \A x \in Assets :
              b # call[h].binding \/ x # call[h].item.asset => containers'[b][x] = containers[b][x]
         /\ \E p \in Starting :
              /\ Goto(h, p)
              /\ p \in {"sidecars", "route", "record"} =>
                   containers'[call[h].binding][call[h].item.asset] # "missing"
<1> DEFINE b == call[h].binding
           x == call[h].item.asset
<1>1. call[h].phase \in AtItem
  BY DockerStepGoes DEF Starting, AtItem
<1>2. b \in Bindings /\ x \in Assets /\ call[h].item.image \in Images
  BY <1>1, ItemInHand
<1>3. containers \in [Bindings -> [Assets -> {"missing", "exited"} \cup Images]]
  BY DEF ExposureInv, TypeOK
<1>4. ASSUME NEW state, SetContainer(b, x, state)
      PROVE  /\ \A d \in Bindings : \A y \in Assets :
                  d # b \/ y # x => containers'[d][y] = containers[d][y]
             /\ containers'[b][x] = state
  BY <1>2, <1>3, <1>4 DEF SetContainer
<1>5. call[h].phase \in {"sidecars", "route", "record"} => containers[b][x] # "missing"
  BY DEF BackendsInv, KnowsItsWork
<1>6. CASE Inspect(h)
  BY <1>6 DEF Inspect, Starting
<1>7. CASE RemoveDead(h) \/ Clean(h)
  BY <1>4, <1>7 DEF RemoveDead, Clean, Starting
<1>8. CASE Run(h)
  <2>1. Goto(h, "verify") \/ Goto(h, "clean")
    BY <1>8 DEF Run
  <2>2. containers' = containers \/ SetContainer(b, x, call[h].item.image)
    BY <1>8 DEF Run
  <2> QED
    BY <1>4, <2>1, <2>2 DEF Starting
<1>9. CASE Verify(h)
  <2>1. containers' = containers
    BY <1>9 DEF Verify
  <2>2. Goto(h, IF Up(b, x) THEN "sidecars" ELSE "clean")
    BY <1>9 DEF Verify
  <2> QED
    BY <2>1, <2>2 DEF Starting, Up
<1>10. CASE StartSidecars(h)
  <2>1. containers' = containers /\ (Goto(h, "route") \/ Goto(h, "fail"))
    BY <1>10 DEF StartSidecars
  <2>2. containers[b][x] # "missing"
    BY <1>5, <1>10 DEF StartSidecars, At
  <2> QED
    BY <2>1, <2>2 DEF Starting
<1>11. CASE Route(h)
  <2>1. containers' = containers /\ Goto(h, "record")
    BY <1>11 DEF Route
  <2>2. containers[b][x] # "missing"
    BY <1>5, <1>11 DEF Route, At
  <2> QED
    BY <2>1, <2>2 DEF Starting
<1> QED
  BY <1>6, <1>7, <1>8, <1>9, <1>10, <1>11 DEF DockerStep

LEMMA BackendsDocker ==
  ASSUME ExposureInv, OneByOneInv, BackendsInv, NEW h, Handlers = {h}, DockerStep(h)
  PROVE  BackendsInv'
<1> DEFINE b == call[h].binding
           x == call[h].item.asset
<1>1. /\ call[h].phase \in Starting /\ UNCHANGED <<unlocked, records, wanted>>
  BY DockerStepGoes
<1>2. PICK p \in Starting :
        /\ Goto(h, p)
        /\ p \in {"sidecars", "route", "record"} => containers'[b][x] # "missing"
  BY DockerContainers
<1>3. SameWork(h) /\ call'[h].phase = p /\ call'[h].item = call[h].item
  BY <1>1, <1>2, GotoWork DEF Starting
<1>4. call'[h].binding = b
  BY <1>3 DEF SameWork, GoesOn
<1>5. WantedIsOpen' /\ \A k \in Handlers : (call[k].phase # "idle" => KnowsItsWork(call[k]))'
  <2>1. ~(call'[h].phase \in Between \/ Recycling(call[h])')
    BY <1>3 DEF Starting, Between, Recycling
  <2> QED
    BY <1>1, <1>2, <1>3, <1>4, <2>1, KnowsStays DEF Starting, Calling
<1>6. Running(b, x) = {}
  BY <1>1, SerialCall DEF HoldsCurrent, Starting
<1>7. ASSUME NEW i \in DOMAIN records, records[i].status = "running"
      PROVE  containers'[records[i].binding][records[i].asset] # "missing"
  <2>1. records[i].binding \in Bindings /\ records[i].asset \in Assets
    BY HeldInOrder DEF Record
  <2>2. records[i].binding # b \/ records[i].asset # x
    BY <1>6, <1>7 DEF Running
  <2>3. containers[records[i].binding][records[i].asset] # "missing"
    BY <1>1, <1>7, BackendsHere DEF Starting
  <2> QED
    BY <2>1, <2>2, <2>3, DockerContainers
<1>8. BackendsExist'
  BY <1>1, <1>7 DEF BackendsExist
<1> QED
  BY <1>5, <1>8 DEF BackendsInv

LEMMA BackendsRecord ==
  ASSUME ExposureInv, OneByOneInv, BackendsInv, NEW h, Handlers = {h},
         RecordRunning(h) \/ RecordFailed(h)
  PROVE  BackendsInv'
<1>1. /\ call[h].phase \in {"record", "fail"} /\ call' = [call EXCEPT ![h] = Started(call[h])]
      /\ UNCHANGED <<unlocked, containers, wanted>>
  BY DEF RecordRunning, RecordFailed, At
<1>2. LeavesItem(h) /\ call'[h].phase = "starting"
  BY <1>1, StartedWork
<1>3. WantedIsOpen' /\ \A k \in Handlers : (call[k].phase # "idle" => KnowsItsWork(call[k]))'
  BY <1>1, <1>2, KnowsStays DEF Between, Recycling, Calling
<1>4. PICK new \in Record :
        /\ records' = Append(records, new)
        /\ new.binding = call[h].binding /\ new.asset = call[h].item.asset
        /\ new.status = "running" => call[h].phase = "record"
  BY RecordAdds
<1>5. /\ DOMAIN records = 1..Len(records) /\ Len(records) \in Nat
      /\ DOMAIN records' = 1..(Len(records) + 1)
      /\ \A i \in DOMAIN records : records'[i] = records[i]
      /\ records'[Len(records) + 1] = new
  BY <1>4, Added
<1>6. ASSUME NEW i \in DOMAIN records', records'[i].status = "running"
      PROVE  containers'[records'[i].binding][records'[i].asset] # "missing"
  <2>1. CASE i \in DOMAIN records
    BY <1>1, <1>5, <1>6, <2>1, BackendsHere
  <2>2. CASE i = Len(records) + 1
    <3>1. records'[i] = new /\ call[h].phase = "record"
      BY <1>4, <1>5, <1>6, <2>2
    <3>2. KnowsItsWork(call[h])
      BY <3>1 DEF BackendsInv
    <3>3. containers[call[h].binding][call[h].item.asset] # "missing"
      BY <3>1, <3>2 DEF KnowsItsWork
    <3> QED
      BY <1>1, <1>4, <3>1, <3>3
  <2> QED
    BY <1>5, <2>1, <2>2
<1>7. BackendsExist'
  BY <1>6 DEF BackendsExist
<1> QED
  BY <1>3, <1>7 DEF BackendsInv

LEMMA BackendsExits ==
  ASSUME ExposureInv, BackendsInv, NEW b \in Bindings, NEW x \in Assets, ContainerExits(b, x)
  PROVE  BackendsInv'
<1>1. /\ UNCHANGED <<unlocked, records, call, wanted>>
      /\ containers' = [containers EXCEPT ![b][x] = "exited"]
  BY DEF ContainerExits, SetContainer
<1>2. ASSUME NEW d \in Bindings, NEW y \in Assets, containers[d][y] # "missing"
      PROVE  containers'[d][y] # "missing"
  BY <1>1, <1>2 DEF ExposureInv, TypeOK
<1>3. BackendsExist'
  <2> SUFFICES ASSUME NEW i \in DOMAIN records, records[i].status = "running"
               PROVE  \/ containers'[records[i].binding][records[i].asset] # "missing"
                      \/ \E h \in Handlers : At(h, "marking") /\ \E r \in call[h].hand : r.at = i
    BY <1>1 DEF BackendsExist, At
  <2>1. records[i].binding \in Bindings /\ records[i].asset \in Assets
    BY HeldInOrder DEF Record
  <2> QED
    BY <1>2, <2>1 DEF BackendsInv, BackendsExist
<1>4. WantedIsOpen'
  BY <1>1 DEF BackendsInv, WantedIsOpen
<1>5. ASSUME NEW h \in Handlers, call[h].phase # "idle" PROVE KnowsItsWork(call[h])'
  <2>1. KnowsItsWork(call[h])
    BY <1>5 DEF BackendsInv
  <2>2. call[h].phase \in {"sidecars", "route", "record"} =>
          call[h].binding \in Bindings /\ call[h].item.asset \in Assets
    BY ItemInHand DEF AtItem
  <2> QED
    BY <1>1, <1>2, <2>1, <2>2 DEF KnowsItsWork, Work, Recycling
<1> QED
  BY <1>1, <1>3, <1>4, <1>5 DEF BackendsInv

LEMMA BackendsSame ==
  ASSUME BackendsInv, UNCHANGED vars
  PROVE  BackendsInv'
<1>1. UNCHANGED <<unlocked, containers, records, call, wanted>>
  BY DEF vars
<1> QED
  BY <1>1 DEF BackendsInv, BackendsExist, WantedIsOpen, KnowsItsWork, Work, Recycling, At

LEMMA StepBackends ==
  ASSUME ExposureInv, OneByOneInv, BackendsInv, SpentInv, \E h : Handlers = {h}, MaxCrashes = 0,
         [Next]_vars
  PROVE  BackendsInv'
<1> PICK h : Handlers = {h}
  OBVIOUS
<1>1. CASE Requests(h)
  BY <1>1, BackendsRequest DEF Requests
<1>2. CASE Step(h)
  BY <1>2, BackendsReads, BackendsUnlock, BackendsActing, BackendsStarting,
     BackendsRemoveContainer, BackendsMarkStopped, BackendsDocker, BackendsRecord,
     BackendsAllStarted, BackendsEnds
  DEF Step, DockerStep, Reads, Rewrites, Lists, Ends
<1>3. ASSUME NEW b \in Bindings, NEW x \in Assets, ContainerExits(b, x) PROVE BackendsInv'
  BY <1>3, BackendsExits
<1>4. CASE UNCHANGED vars
  BY <1>4, BackendsSame
<1> QED
  BY <1>1, <1>2, <1>3, <1>4, NoCrash DEF Next

LEMMA InitBackends == Init => BackendsInv /\ SpentInv
<1> SUFFICES ASSUME Init PROVE BackendsInv /\ SpentInv
  OBVIOUS
<1>1. BackendsExist
  BY DEF Init, BackendsExist
<1>2. WantedIsOpen
  BY DEF Init, WantedIsOpen
<1>3. \A h \in Handlers : call[h].phase = "idle"
  BY DEF Init, Idle
<1>4. SpentInv
  BY DEF Init, SpentInv
<1> QED
  BY <1>1, <1>2, <1>3, <1>4 DEF BackendsInv

\* Without overlap or crashes, what a handler works on is exactly what was asked
\* for and not yet started, and what passes for running has a container.
THEOREM BackendsInvariant ==
  (\E h : Handlers = {h}) /\ MaxCrashes = 0 => (Spec => [](BackendsInv /\ SpentInv))
<1> SUFFICES ASSUME \E h : Handlers = {h}, MaxCrashes = 0
             PROVE  Spec => [](BackendsInv /\ SpentInv)
  OBVIOUS
<1>1. ExposureInv /\ OneByOneInv /\ BackendsInv /\ SpentInv /\ [Next]_vars
        => BackendsInv' /\ SpentInv'
  BY StepBackends, SpentStep
<1>2. Spec => []OneByOneInv
  BY OneByOneInvariant
<1> QED
  BY <1>1, <1>2, InitBackends, ExposureInvariant, PTL DEF Spec

\* No cleanup of a failed start and no swap takes away the container of a runtime
\* that passes for running, other than the one it is stopping.
THEOREM BackendsExistTheorem ==
  (\E h : Handlers = {h}) /\ MaxCrashes = 0 => (Spec => []BackendsExist)
<1> SUFFICES ASSUME \E h : Handlers = {h}, MaxCrashes = 0 PROVE Spec => []BackendsExist
  OBVIOUS
<1>1. BackendsInv => BackendsExist
  BY DEF BackendsInv
<1>2. Spec => [](BackendsInv /\ SpentInv)
  BY BackendsInvariant
<1> QED
  BY <1>1, <1>2, PTL


-------------------------------------------------------------------------------
(* Routes: without overlap or crashes, what was asked for last is led to.    *)

\* What was in work stays so, except the runtime the handler is through with.
LEMMA InWorkStays ==
  ASSUME NEW h, Handlers = {h}, SameWork(h), call'[h].phase # "idle", NEW b, NEW x, InWork(b, x)
  PROVE  InWork(b, x)'
BY DEF InWork, SameWork, GoesOn

LEMMA InWorkLeft ==
  ASSUME NEW h, Handlers = {h}, LeavesItem(h), call'[h].phase # "idle", NEW b, NEW x, InWork(b, x)
  PROVE  InWork(b, x)' \/ (b = call[h].binding /\ x = call[h].item.asset /\ ~call[h].warm)
BY DEF InWork, LeavesItem, GoesOn

LEMMA NothingInWork ==
  ASSUME NEW h, Handlers = {h}, call[h].phase = "idle" \/ call[h].warm \/ Work(call[h]) = {},
         NEW b, NEW x
  PROVE  ~InWork(b, x)
BY DEF InWork

\* What a handler that knows its attacker starts was asked for; what a prewarm
\* starts was not.
LEMMA ItemWanted ==
  ASSUME ExposureInv, BackendsInv, NEW h \in Handlers, call[h].phase \in AtItem
  PROVE  /\ call[h].binding \in Bindings /\ call[h].item.asset \in Assets
         /\ IF call[h].warm
              THEN /\ call[h].item.asset \notin unlocked[call[h].binding]
                   /\ call[h].item.asset \notin wanted[call[h].binding]
              ELSE call[h].item.asset \in wanted[call[h].binding]
<1>1. /\ call[h].item # NoItem /\ call[h].binding \in Bindings /\ call[h].item.asset \in Assets
  BY ItemInHand
<1>2. KnowsItsWork(call[h])
  BY DEF BackendsInv, AtItem
<1>3. call[h].item \in Work(call[h])
  BY <1>1 DEF Work
<1>4. wanted[call[h].binding] \subseteq unlocked[call[h].binding]
  BY <1>1 DEF BackendsInv, WantedIsOpen
<1> QED
  BY <1>1, <1>2, <1>3, <1>4 DEF KnowsItsWork

\* The files that lead an attacker stay as they are.
LEMMA LedStays ==
  ASSUME RoutesInv, UNCHANGED <<routes, now, wanted>>
  PROVE  /\ RoutesStamped'
         /\ \A b, x : Newest(b, x)' = Newest(b, x)
BY DEF RoutesInv, RoutesStamped, Newest, Routed

LEMMA RoutesMoved ==
  ASSUME RoutesInv, NEW h, Handlers = {h}, Moved, UNCHANGED <<routes, now, wanted>>, SameWork(h),
         call'[h].phase \notin {"idle", "unhide", "record", "syncing"}
  PROVE  RoutesInv'
<1>1. RoutesStamped' /\ \A b, x : Newest(b, x) => Newest(b, x)'
  BY LedStays
<1>2. ASSUME NEW b \in Bindings, NEW x \in wanted[b]
      PROVE  Newest(b, x)' \/ Running(b, x)' = {} \/ InWork(b, x)'
  <2>1. Newest(b, x) \/ Running(b, x) = {} \/ InWork(b, x)
    BY DEF RoutesInv, WantedAreLed
  <2>2. Running(b, x)' \subseteq Running(b, x)
    BY MovedKeepsLast
  <2> QED
    BY <1>1, <2>1, <2>2, InWorkStays
<1>3. WantedAreLed'
  BY <1>2 DEF WantedAreLed
<1>4. Leads(call[h])'
  BY DEF Leads
<1> QED
  BY <1>1, <1>3, <1>4 DEF RoutesInv

\* Nothing was in work.
LEMMA RoutesIdle ==
  ASSUME RoutesInv, NEW h, Handlers = {h}, UNCHANGED <<records, routes, now, wanted>>,
         call[h].phase = "idle" \/ call[h].warm \/ Work(call[h]) = {},
         call'[h].phase # "idle" => Leads(call[h])'
  PROVE  RoutesInv'
<1>1. RoutesStamped' /\ \A b, x : Newest(b, x) => Newest(b, x)'
  BY LedStays
<1>2. ASSUME NEW b \in Bindings, NEW x \in wanted[b]
      PROVE  Newest(b, x)' \/ Running(b, x)' = {}
  <2>1. Newest(b, x) \/ Running(b, x) = {}
    BY NothingInWork DEF RoutesInv, WantedAreLed
  <2>2. Running(b, x)' \subseteq Running(b, x)
    BY UnchangedMoved, MovedKeepsLast
  <2> QED
    BY <1>1, <2>1, <2>2
<1>3. WantedAreLed'
  BY <1>2 DEF WantedAreLed
<1> QED
  BY <1>1, <1>3 DEF RoutesInv

LEMMA RoutesRequest ==
  ASSUME ExposureInv, RoutesInv, NEW h, Handlers = {h}, NEW b \in Bindings,
         \/ \E acts : Apply(h, b, acts)
         \/ \E assets \in SUBSET Warm : Prewarm(h, b, assets)
         \/ Resolve(h, b)
  PROVE  RoutesInv'
<1>1. /\ call[h].phase = "idle" /\ UNCHANGED <<records, routes, now, wanted>>
      /\ call'[h].phase \in {"acting", "starting", "resolving"}
  BY DEF Apply, Prewarm, Resolve, At, NewCall, ExposureInv, TypeOK
<1>2. Leads(call[h])'
  BY <1>1 DEF Leads
<1> QED
  BY <1>1, <1>2, RoutesIdle

LEMMA RoutesUnlock ==
  ASSUME ExposureInv, OneByOneInv, BackendsInv, RoutesInv, NEW h, Handlers = {h},
         WriteUnlocked(h)
  PROVE  RoutesInv'
<1>1. PICK b : b = call[h].binding
  OBVIOUS
<1>2. PICK x \in Assets, it \in Item :
           /\ it.asset = x
           /\ Work(call[h]) = {} /\ b \in Bindings
           /\ call'[h].phase = "starting" /\ call'[h].binding = b /\ ~call'[h].warm
           /\ Work(call[h])' = {it}
           /\ wanted' = [wanted EXCEPT ![b] = {y \in @ : Port[y] # Port[x]} \cup {x}]
           /\ UNCHANGED <<records, routes, now>>
  BY <1>1, UnlockFields
<1>3. RoutesStamped'
  BY <1>2 DEF RoutesInv, RoutesStamped
<1>4. InWork(b, x)'
  BY <1>2 DEF InWork
<1>5. ASSUME NEW d \in Bindings, NEW y \in wanted'[d]
      PROVE  Newest(d, y)' \/ Running(d, y)' = {} \/ InWork(d, y)'
  <2>1. (d = b /\ y = x) \/ y \in wanted[d]
    <3>1. wanted \in [Bindings -> SUBSET Assets]
      BY DEF BackendsInv, WantedIsOpen
    <3>2. wanted'[d] \subseteq wanted[d] \cup (IF d = b THEN {x} ELSE {})
      BY <1>2, <3>1
    <3> QED
      BY <1>5, <3>2
  <2>2. CASE d = b /\ y = x
    BY <1>4, <2>2
  <2>3. CASE y \in wanted[d]
    <3>1. Newest(d, y) \/ Running(d, y) = {}
      BY <1>2, <2>3, NothingInWork DEF RoutesInv, WantedAreLed
    <3> QED
      BY <1>2, <3>1 DEF Newest, Routed, Running
  <2> QED
    BY <2>1, <2>2, <2>3
<1>6. WantedAreLed'
  BY <1>5 DEF WantedAreLed
<1>7. Leads(call[h])'
  BY <1>2 DEF Leads
<1> QED
  BY <1>3, <1>6, <1>7 DEF RoutesInv

\* A route that is written now is the newest of its port.
LEMMA RouteNewest ==
  ASSUME ExposureInv, BackendsInv, RoutesInv, NEW b \in Bindings, NEW x \in Assets, x \in wanted[b],
         WriteRoute(b, x), wanted' = wanted
  PROVE  /\ RoutesStamped' /\ Newest(b, x)'
         /\ \A d \in Bindings : \A y \in wanted[d] : Newest(d, y) => Newest(d, y)'
<1>1. routes \in [Bindings -> [Assets -> Nat]] /\ now \in Nat
  BY DEF ExposureInv, TypeOK
<1>2. /\ now' = now + 1
      /\ \A d \in Bindings : \A y \in Assets :
           routes'[d][y] = IF d = b /\ y = x THEN now + 1 ELSE routes[d][y]
  BY <1>1 DEF WriteRoute
<1>3. \A d \in Bindings : \A y \in Assets : routes[d][y] <= now /\ routes[d][y] \in Nat
  BY <1>1 DEF RoutesInv, RoutesStamped
<1>4. RoutesStamped'
  BY <1>1, <1>2, <1>3 DEF RoutesStamped
<1>5. Newest(b, x)'
  <2>1. routes'[b][x] = now + 1
    BY <1>2
  <2>2. \A y \in Assets : routes'[b][y] <= now + 1
    BY <1>1, <1>2, <1>3
  <2> QED
    BY <1>1, <2>1, <2>2 DEF Newest, Routed
<1>6. ASSUME NEW d \in Bindings, NEW y \in wanted[d], Newest(d, y) PROVE Newest(d, y)'
  <2>1. y \in Assets
    BY DEF BackendsInv, WantedIsOpen
  <2>2. CASE d = b /\ y = x
    BY <1>5, <2>2
  <2>3. CASE ~(d = b /\ y = x)
    <3>1. ASSUME NEW z \in Assets, Port[z] = Port[y] PROVE ~(d = b /\ z = x)
      BY <2>3, <3>1 DEF BackendsInv, WantedIsOpen
    <3>2. routes'[d][y] = routes[d][y]
      BY <1>2, <2>1, <2>3
    <3>3. \A z \in Assets : Port[z] = Port[y] => routes'[d][z] = routes[d][z]
      BY <1>2, <3>1
    <3> QED
      BY <1>6, <3>2, <3>3 DEF Newest, Routed
  <2> QED
    BY <2>2, <2>3
<1> QED
  BY <1>4, <1>5, <1>6


\* The handler is through with a runtime: it leads there, or does not run.
LEMMA RoutesLeft ==
  ASSUME RoutesInv, NEW h, Handlers = {h}, LeavesItem(h), call'[h].phase = "starting",
         wanted' = wanted, RoutesStamped', NEW c, NEW z,
         c = call[h].binding, z = call[h].item.asset,
         \A b \in Bindings : \A x \in wanted[b] : Newest(b, x) => Newest(b, x)',
         \A b \in Bindings : \A x \in wanted[b] :
           b # c \/ x # z => Running(b, x)' \subseteq Running(b, x),
         call[h].warm => z \notin wanted[c],
         ~call[h].warm => Newest(c, z)' \/ Running(c, z)' = {}
  PROVE  RoutesInv'
<1>1. ASSUME NEW b \in Bindings, NEW x \in wanted[b]
      PROVE  Newest(b, x)' \/ Running(b, x)' = {} \/ InWork(b, x)'
  <2>1. Newest(b, x) \/ Running(b, x) = {} \/ InWork(b, x)
    BY DEF RoutesInv, WantedAreLed
  <2>2. CASE b = c /\ x = z
    BY <2>2
  <2>3. CASE b # c \/ x # z
    <3>1. InWork(b, x) => InWork(b, x)'
      BY <2>3, InWorkLeft
    <3>2. Running(b, x)' \subseteq Running(b, x)
      BY <2>3
    <3> QED
      BY <2>1, <3>1, <3>2
  <2> QED
    BY <2>2, <2>3
<1>2. WantedAreLed'
  BY <1>1 DEF WantedAreLed
<1>3. Leads(call[h])'
  BY DEF Leads
<1> QED
  BY <1>2, <1>3 DEF RoutesInv

LEMMA RoutesAttach ==
  ASSUME ExposureInv, OneByOneInv, BackendsInv, RoutesInv, NEW h, Handlers = {h}, Attach(h)
  PROVE  RoutesInv'
<1>1. /\ call[h].phase = "attach" /\ call[h].phase \in AtItem
      /\ UNCHANGED <<records, wanted>>
  BY DEF Attach, At, AtItem
<1>2. PICK c \in Bindings, z \in Assets : c = call[h].binding /\ z = call[h].item.asset
  BY <1>1, ItemWanted
<1>3. \A b, x : Running(b, x)' \subseteq Running(b, x)
  BY <1>1, UnchangedMoved, MovedKeepsLast
<1>4. CASE call[h].warm
  <2>1. call' = [call EXCEPT ![h] = Started(call[h])] /\ UNCHANGED <<routes, now>>
    BY <1>4 DEF Attach
  <2>2. LeavesItem(h) /\ call'[h].phase = "starting"
    BY <1>1, <2>1, StartedWork
  <2>3. Leads(call[h])'
    BY <2>2 DEF Leads
  <2> QED
    BY <1>1, <1>4, <2>1, <2>3, RoutesIdle
<1>5. CASE ~call[h].warm
  <2>1. z \in wanted[c] /\ WriteRoute(c, z)
    BY <1>1, <1>2, <1>5, ItemWanted DEF Attach
  <2>2. /\ RoutesStamped' /\ Newest(c, z)'
        /\ \A d \in Bindings : \A y \in wanted[d] : Newest(d, y) => Newest(d, y)'
    BY <1>1, <2>1, RouteNewest
  <2>3. CASE call' = [call EXCEPT ![h] = Started(call[h])]
    <3>1. LeavesItem(h) /\ call'[h].phase = "starting"
      BY <1>1, <2>3, StartedWork
    <3> QED
      BY <1>1, <1>2, <1>3, <1>5, <2>2, <3>1, RoutesLeft
  <2>4. CASE Goto(h, "unhide")
    <3>1. SameWork(h) /\ call'[h].phase = "unhide" /\ call'[h].item = call[h].item
      BY <1>1, <2>4, GotoWork
    <3>2. call'[h].binding = c /\ call'[h].item.asset = z
      BY <1>2, <3>1 DEF SameWork, GoesOn
    <3>3. ASSUME NEW b \in Bindings, NEW x \in wanted[b]
          PROVE  Newest(b, x)' \/ Running(b, x)' = {} \/ InWork(b, x)'
      <4>1. Newest(b, x) \/ Running(b, x) = {} \/ InWork(b, x)
        BY DEF RoutesInv, WantedAreLed
      <4>2. InWork(b, x) => InWork(b, x)'
        BY <3>1, InWorkStays
      <4> QED
        BY <1>3, <2>2, <4>1, <4>2
    <3>4. WantedAreLed'
      BY <1>1, <3>3 DEF WantedAreLed
    <3>5. Leads(call[h])'
      BY <2>2, <3>1, <3>2 DEF Leads, Newest, Routed
    <3> QED
      BY <2>2, <3>4, <3>5 DEF RoutesInv
  <2> QED
    BY <1>5, <2>3, <2>4 DEF Attach, Goto
<1> QED
  BY <1>4, <1>5

LEMMA RoutesUnhide ==
  ASSUME ExposureInv, OneByOneInv, BackendsInv, RoutesInv, NEW h, Handlers = {h}, Unhide(h)
  PROVE  RoutesInv'
<1>1. /\ call[h].phase = "unhide" /\ call[h].phase \in AtItem
      /\ UNCHANGED <<routes, now, wanted>> /\ call' = [call EXCEPT ![h] = Started(call[h])]
  BY DEF Unhide, At, AtItem
<1>2. PICK c \in Bindings, z \in Assets : c = call[h].binding /\ z = call[h].item.asset
  BY <1>1, ItemWanted
<1>3. RoutesStamped' /\ \A b, x : Newest(b, x)' = Newest(b, x)
  BY <1>1, LedStays
<1>4. \A b, x : Running(b, x)' \subseteq Running(b, x)
  BY UnhideMoves, MovedKeepsLast
<1>5. LeavesItem(h) /\ call'[h].phase = "starting"
  BY <1>1, StartedWork
<1>6. ~call[h].warm => Newest(c, z)
  BY <1>1, <1>2 DEF RoutesInv, Leads
<1>7. ~call[h].warm => Newest(c, z)'
  BY <1>3, <1>6
<1> QED
  BY <1>1, <1>2, <1>3, <1>4, <1>5, <1>7, ItemWanted, RoutesLeft

LEMMA AddedRunning ==
  ASSUME ExposureInv, NEW new \in Record, records' = Append(records, new), NEW b, NEW x
  PROVE  /\ (b # new.binding \/ x # new.asset) => Running(b, x)' = Running(b, x)
         /\ new.status # "running" => Running(b, x)' = Running(b, x)
<1>1. /\ DOMAIN records = 1..Len(records) /\ Len(records) \in Nat
      /\ DOMAIN records' = 1..(Len(records) + 1)
      /\ \A i \in DOMAIN records : records'[i] = records[i]
      /\ records'[Len(records) + 1] = new
  BY Added
<1>2. \A i \in DOMAIN records' : i \in DOMAIN records \/ i = Len(records) + 1
  BY <1>1
<1>3. DOMAIN records \subseteq DOMAIN records'
  BY <1>1
<1> QED
  BY <1>1, <1>2, <1>3 DEF Running

LEMMA RoutesRecord ==
  ASSUME ExposureInv, OneByOneInv, BackendsInv, RoutesInv, NEW h, Handlers = {h},
         RecordRunning(h) \/ RecordFailed(h)
  PROVE  RoutesInv'
<1>1. /\ call[h].phase \in {"record", "fail"} /\ call[h].phase \in AtItem
      /\ UNCHANGED <<routes, now, wanted>> /\ call' = [call EXCEPT ![h] = Started(call[h])]
  BY DEF RecordRunning, RecordFailed, At, AtItem
<1>2. PICK c \in Bindings, z \in Assets : c = call[h].binding /\ z = call[h].item.asset
  BY <1>1, ItemWanted
<1>3. RoutesStamped' /\ \A b, x : Newest(b, x)' = Newest(b, x)
  BY <1>1, LedStays
<1>4. LeavesItem(h) /\ call'[h].phase = "starting"
  BY <1>1, StartedWork
<1>5. PICK new \in Record :
        /\ records' = Append(records, new)
        /\ new.binding = c /\ new.asset = z /\ new.status \in {"running", "failed"}
        /\ new.status = "running" => call[h].phase = "record"
        /\ Running(new.binding, new.asset) = {}
  BY <1>2, RecordAdds
<1>6. \A b \in Bindings : \A x \in wanted[b] :
        b # c \/ x # z => Running(b, x)' \subseteq Running(b, x)
  BY <1>5, AddedRunning
<1>7. ~call[h].warm => Newest(c, z)' \/ Running(c, z)' = {}
  <2>1. CASE new.status = "running"
    <3>1. ~call[h].warm => Newest(c, z)
      BY <1>2, <1>5, <2>1 DEF RoutesInv, Leads
    <3> QED
      BY <1>3, <3>1
  <2>2. CASE new.status # "running"
    <3>1. Running(c, z)' = Running(c, z) /\ Running(c, z) = {}
      BY <1>5, <2>2, AddedRunning
    <3> QED
      BY <3>1
  <2> QED
    BY <2>1, <2>2
<1> QED
  BY <1>1, <1>2, <1>3, <1>4, <1>6, <1>7, ItemWanted, RoutesLeft


LEMMA RoutesDocker ==
  ASSUME ExposureInv, OneByOneInv, BackendsInv, RoutesInv, NEW h, Handlers = {h}, DockerStep(h)
  PROVE  RoutesInv'
<1>1. /\ call[h].phase \in Starting /\ call[h].phase \in AtItem /\ UNCHANGED <<records, wanted>>
      /\ call[h].phase # "idle"
  BY DockerStepGoes DEF Starting, AtItem
<1>2. Moved
  BY <1>1, UnchangedMoved
<1>3. CASE Route(h)
  <2>1. Goto(h, "record")
    BY <1>3 DEF Route
  <2>2. SameWork(h) /\ call'[h].phase = "record" /\ call'[h].item = call[h].item
    BY <1>1, <2>1, GotoWork
  <2>3. CASE call[h].warm
    <3>1. UNCHANGED <<routes, now>>
      BY <1>3, <2>3 DEF Route
    <3>2. Leads(call[h])'
      BY <2>2, <2>3 DEF Leads, SameWork, GoesOn
    <3> QED
      BY <1>1, <2>3, <3>1, <3>2, RoutesIdle
  <2>4. CASE ~call[h].warm
    <3>1. PICK c \in Bindings, z \in Assets : c = call[h].binding /\ z = call[h].item.asset
      BY <1>1, ItemWanted
    <3>2. z \in wanted[c] /\ WriteRoute(c, z)
      BY <1>1, <1>3, <2>4, <3>1, ItemWanted DEF Route
    <3>3. /\ RoutesStamped' /\ Newest(c, z)'
          /\ \A d \in Bindings : \A y \in wanted[d] : Newest(d, y) => Newest(d, y)'
      BY <1>1, <3>2, RouteNewest
    <3>4. ASSUME NEW b \in Bindings, NEW x \in wanted[b]
          PROVE  Newest(b, x)' \/ Running(b, x)' = {} \/ InWork(b, x)'
      <4>1. Newest(b, x) \/ Running(b, x) = {} \/ InWork(b, x)
        BY DEF RoutesInv, WantedAreLed
      <4>2. InWork(b, x) => InWork(b, x)'
        BY <2>2, InWorkStays
      <4>3. Running(b, x)' \subseteq Running(b, x)
        BY <1>2, MovedKeepsLast
      <4> QED
        BY <3>3, <4>1, <4>2, <4>3
    <3>5. WantedAreLed'
      BY <1>1, <3>4 DEF WantedAreLed
    <3>6. call'[h].binding = c /\ call'[h].item.asset = z
      BY <2>2, <3>1 DEF SameWork, GoesOn
    <3>7. Leads(call[h])'
      BY <2>2, <3>3, <3>6 DEF Leads, Newest, Routed
    <3> QED
      BY <3>3, <3>5, <3>7 DEF RoutesInv
  <2> QED
    BY <2>3, <2>4
<1>4. CASE Inspect(h) \/ RemoveDead(h) \/ Run(h) \/ Verify(h) \/ StartSidecars(h) \/ Clean(h)
  <2>1. UNCHANGED <<routes, now>>
    BY <1>4 DEF Inspect, RemoveDead, Run, Verify, StartSidecars, Clean
  <2>2. PICK p \in {"inspect", "run", "dead", "verify", "clean", "sidecars", "route", "fail"} :
          Goto(h, p)
    BY <1>4 DEF Inspect, RemoveDead, Run, Verify, StartSidecars, Clean
  <2>3. SameWork(h) /\ call'[h].phase = p
    BY <1>1, <2>2, GotoWork
  <2> QED
    BY <1>1, <1>2, <2>1, <2>3, RoutesMoved
<1> QED
  BY <1>3, <1>4 DEF DockerStep

\* Steps that start nothing: the handler stays with what it had to do.
PlainStep(h) ==
  \/ Reads(h) \/ Rewrites(h) \/ FindConfigured(h) \/ WriteConfigured(h) \/ FindRunning(h)
  \/ RemoveContainer(h) \/ MarkStopped(h) \/ Lists(h) \/ StopNext(h) \/ ForgetNext(h)

LEMMA PlainStepGoes ==
  ASSUME ExposureInv, OneByOneInv, BackendsInv, NEW h, Handlers = {h}, PlainStep(h)
  PROVE  /\ UNCHANGED <<unlocked, routes, now, wanted>> /\ Moved /\ SameWork(h)
         /\ call'[h].phase \notin {"idle", "unhide", "record", "syncing"}
<1>1. CASE Reads(h)
  BY <1>1, ReadFields, ReadWork, UnchangedMoved
<1>2. CASE Rewrites(h)
  BY <1>2, RewriteFields, RewriteWork, UnchangedMoved
<1>3. CASE Lists(h)
  <2>1. SameWork(h)
    BY <1>3, RecycleWork
  <2> QED
    BY <1>3, <2>1, ListFields, UnchangedMoved
<1>4. CASE \/ FindConfigured(h) \/ WriteConfigured(h) \/ FindRunning(h) \/ RemoveContainer(h)
           \/ MarkStopped(h) \/ StopNext(h) \/ ForgetNext(h)
  <2>1. UNCHANGED <<unlocked, routes, now, wanted>>
    BY <1>4 DEF FindConfigured, WriteConfigured, FindRunning, RemoveContainer, MarkStopped,
                StopNext, ForgetNext
  <2>2. Moved
    <3>1. CASE FindConfigured(h) \/ FindRunning(h) \/ RemoveContainer(h) \/ StopNext(h)
      BY <3>1, UnchangedMoved DEF FindConfigured, FindRunning, RemoveContainer, StopNext
    <3> QED
      BY <1>4, <3>1, ConfiguredMoves, MarkStoppedMoves, ForgetNextMoves
  <2>3. SameWork(h) /\ call'[h].phase \notin {"idle", "unhide", "record", "syncing"}
    <3>1. CASE RemoveContainer(h)
      BY <3>1, GotoWork DEF RemoveContainer, At
    <3>2. CASE MarkStopped(h)
      BY <3>2, MarkStoppedWork
    <3>3. CASE StopNext(h)
      BY <3>3, RecycleWork, StopNextFields
    <3>4. CASE ForgetNext(h)
      BY <3>4, RecycleWork, ForgetNextFields
    <3> QED
      BY <1>4, <3>1, <3>2, <3>3, <3>4, ConfiguredWork, FindRunningWork
  <2> QED
    BY <2>1, <2>2, <2>3
<1> QED
  BY <1>1, <1>2, <1>3, <1>4 DEF PlainStep

LEMMA RoutesOther ==
  ASSUME ExposureInv, OneByOneInv, BackendsInv, RoutesInv, NEW h, Handlers = {h}, PlainStep(h)
  PROVE  RoutesInv'
BY PlainStepGoes, RoutesMoved

\* What is accessible runs, and nothing is in work any more.
LEMMA RoutesReadAccessible ==
  ASSUME ExposureInv, OneByOneInv, BackendsInv, RoutesInv, NEW h, Handlers = {h}, ReadAccessible(h)
  PROVE  RoutesInv'
<1>1. /\ call[h].phase = "acting" /\ call'[h].phase = "syncing"
      /\ call'[h].binding = call[h].binding /\ call'[h].seen = Accessible(call[h].binding)
  BY ReadAccessibleFields
<1>2. Work(call[h]) = {}
  BY <1>1, NoWork DEF Between
<1>3. UNCHANGED <<records, routes, now, wanted>>
  BY DEF ReadAccessible
<1>4. PICK b \in Bindings : b = call[h].binding
  BY <1>1, Busy DEF Call
<1>5. ASSUME NEW x \in wanted[b] \cap Accessible(b) PROVE Newest(b, x)
  <2>1. Running(b, x) # {}
    BY <1>5 DEF Accessible, Shown, Running
  <2> QED
    BY <1>2, <2>1, NothingInWork DEF RoutesInv, WantedAreLed
<1>6. Leads(call[h])'
  BY <1>1, <1>3, <1>4, <1>5 DEF Leads, Newest, Routed
<1> QED
  BY <1>2, <1>3, <1>6, RoutesIdle

LEMMA RoutesAllStarted ==
  ASSUME ExposureInv, OneByOneInv, RoutesInv, NEW h, Handlers = {h}, AllStarted(h)
  PROVE  RoutesInv'
<1>1. /\ Work(call[h]) = {}
      /\ call'[h].phase = "idle" \/ call'[h].phase \in {"configure", "acting"}
  BY AllStartedWork
<1>2. UNCHANGED <<records, routes, now, wanted>>
  BY DEF AllStarted
<1>3. Leads(call[h])'
  BY <1>1 DEF Leads
<1> QED
  BY <1>1, <1>2, <1>3, RoutesIdle

LEMMA RoutesEnds ==
  ASSUME ExposureInv, BackendsInv, RoutesInv, NEW h, Handlers = {h}, Ends(h)
  PROVE  RoutesInv'
BY BackendsEnds, RoutesIdle

LEMMA RoutesSame ==
  ASSUME RoutesInv, UNCHANGED <<records, routes, now, call, wanted>>
  PROVE  RoutesInv'
BY DEF RoutesInv, RoutesStamped, WantedAreLed, Leads, Newest, Routed, Running, InWork, Work

LEMMA StepRoutes ==
  ASSUME ExposureInv, OneByOneInv, BackendsInv, SpentInv, RoutesInv, \E h : Handlers = {h},
         MaxCrashes = 0, [Next]_vars
  PROVE  RoutesInv'
<1> PICK h : Handlers = {h}
  OBVIOUS
<1>1. CASE Requests(h)
  BY <1>1, RoutesRequest DEF Requests
<1>2. CASE Step(h)
  BY <1>2, RoutesUnlock, RoutesOther, RoutesAttach, RoutesUnhide, RoutesDocker, RoutesRecord,
     RoutesAllStarted, RoutesReadAccessible, RoutesEnds
  DEF Step, DockerStep, PlainStep, Reads, Rewrites, Lists, Ends
<1>3. ASSUME NEW b \in Bindings, NEW x \in Assets, ContainerExits(b, x) PROVE RoutesInv'
  BY <1>3, RoutesSame DEF ContainerExits
<1>4. CASE UNCHANGED vars
  BY <1>4, RoutesSame DEF vars
<1> QED
  BY <1>1, <1>2, <1>3, <1>4, NoCrash DEF Next

LEMMA InitRoutes == Init => RoutesInv
BY DEF Init, RoutesInv, RoutesStamped, WantedAreLed, Idle

\* Without overlap or crashes, every asset that was asked for last on its port is
\* led to, or has no runtime, or is being started.
THEOREM RoutesInvariant ==
  (\E h : Handlers = {h}) /\ MaxCrashes = 0 => (Spec => []RoutesInv)
<1> SUFFICES ASSUME \E h : Handlers = {h}, MaxCrashes = 0 PROVE Spec => []RoutesInv
  OBVIOUS
<1>1. ExposureInv /\ OneByOneInv /\ BackendsInv /\ SpentInv /\ RoutesInv /\ [Next]_vars => RoutesInv'
  BY StepRoutes
<1>2. Spec => []OneByOneInv
  BY OneByOneInvariant
<1>3. Spec => [](BackendsInv /\ SpentInv)
  BY BackendsInvariant
<1> QED
  BY <1>1, <1>2, <1>3, InitRoutes, ExposureInvariant, PTL DEF Spec

\* When an apply is about to show its assets, the one that was asked for last on a
\* port has that port's newest route, if it is up: swaps and re-unlocks included.
THEOREM PortLeadsToWantedTheorem ==
  (\E h : Handlers = {h}) /\ MaxCrashes = 0 => (Spec => []PortLeadsToWanted)
<1> SUFFICES ASSUME \E h : Handlers = {h}, MaxCrashes = 0 PROVE Spec => []PortLeadsToWanted
  OBVIOUS
<1>1. RoutesInv => PortLeadsToWanted
  BY DEF RoutesInv, Leads, PortLeadsToWanted, At
<1>2. Spec => []RoutesInv
  BY RoutesInvariant
<1> QED
  BY <1>1, <1>2, PTL


-------------------------------------------------------------------------------
(* The view: without overlap or crashes, nothing unlocked is lost.           *)

LEMMA ToldMoved ==
  ASSUME Moved, NEW b, NEW x, Told(b, x)
  PROVE  Told(b, x)'
<1>1. PICK i \in DOMAIN records :
        LastRecord(b, x, i) /\ (records[i].status = "stopped" \/ ~records[i].hidden)
  BY DEF Told
<1>2. LastRecord(b, x, i)' /\ i \in DOMAIN records'
  BY <1>1, MovedKeepsLast DEF Moved
<1>3. records'[i].status = "stopped" \/ ~records'[i].hidden
  BY <1>1 DEF Moved
<1> QED
  BY <1>2, <1>3 DEF Told

LEMMA ToldAdded ==
  ASSUME ExposureInv, NEW new \in Record, records' = Append(records, new), NEW b, NEW x
  PROVE  /\ (b # new.binding \/ x # new.asset) /\ Told(b, x) => Told(b, x)'
         /\ b = new.binding /\ x = new.asset /\ ~new.hidden => Told(b, x)'
<1>1. /\ DOMAIN records = 1..Len(records) /\ Len(records) \in Nat
      /\ DOMAIN records' = 1..(Len(records) + 1)
      /\ \A i \in DOMAIN records : records'[i] = records[i]
      /\ records'[Len(records) + 1] = new
  BY Added
<1>2. \A i \in DOMAIN records' : i \in DOMAIN records \/ i = Len(records) + 1
  BY <1>1
<1>3. DOMAIN records \subseteq DOMAIN records'
  BY <1>1
<1>4. ASSUME b # new.binding \/ x # new.asset, Told(b, x) PROVE Told(b, x)'
  <2>1. PICK i \in DOMAIN records :
          LastRecord(b, x, i) /\ (records[i].status = "stopped" \/ ~records[i].hidden)
    BY <1>4 DEF Told
  <2>2. i \in DOMAIN records' /\ records'[i] = records[i]
    BY <1>1, <1>3
  <2>3. LastRecord(b, x, i)'
    BY <1>1, <1>2, <1>4, <2>1, <2>2 DEF LastRecord
  <2> QED
    BY <2>1, <2>2, <2>3 DEF Told
<1>5. ASSUME b = new.binding, x = new.asset, ~new.hidden PROVE Told(b, x)'
  <2>1. PICK n : n = Len(records) + 1
    OBVIOUS
  <2>2. n \in DOMAIN records' /\ records'[n] = new /\ \A j \in DOMAIN records' : j <= n
    BY <1>1, <2>1
  <2>3. LastRecord(b, x, n)'
    BY <1>5, <2>2 DEF LastRecord
  <2> QED
    BY <1>5, <2>2, <2>3 DEF Told
<1> QED
  BY <1>4, <1>5

LEMMA ShownMoved ==
  ASSUME ShownInv, NEW h, Handlers = {h}, Moved, unlocked' = unlocked, SameWork(h),
         call'[h].phase \notin {"idle", "syncing"}
  PROVE  ShownInv'
<1>1. ASSUME NEW b \in Bindings, NEW x \in unlocked[b] PROVE Told(b, x)' \/ InWork(b, x)'
  <2>1. Told(b, x) \/ InWork(b, x)
    BY DEF ShownInv, UnlockedAreTold
  <2> QED
    BY <2>1, ToldMoved, InWorkStays
<1>2. UnlockedAreTold'
  BY <1>1 DEF UnlockedAreTold
<1>3. Tells(call[h])'
  BY DEF Tells
<1> QED
  BY <1>2, <1>3 DEF ShownInv

\* Nothing was in work.
LEMMA ShownIdle ==
  ASSUME ShownInv, NEW h, Handlers = {h}, UNCHANGED <<records, unlocked>>,
         call[h].phase = "idle" \/ call[h].warm \/ Work(call[h]) = {},
         call'[h].phase # "idle" => Tells(call[h])'
  PROVE  ShownInv'
<1>1. ASSUME NEW b \in Bindings, NEW x \in unlocked[b] PROVE Told(b, x)'
  <2>1. Told(b, x)
    BY NothingInWork DEF ShownInv, UnlockedAreTold
  <2> QED
    BY <2>1, UnchangedMoved, ToldMoved
<1>2. UnlockedAreTold'
  BY <1>1 DEF UnlockedAreTold
<1> QED
  BY <1>2 DEF ShownInv

\* The handler is through with a runtime, and it shows unless it is standby.
LEMMA ShownLeft ==
  ASSUME ShownInv, NEW h, Handlers = {h}, LeavesItem(h), call'[h].phase = "starting",
         unlocked' = unlocked, NEW c, NEW z, c = call[h].binding, z = call[h].item.asset,
         \A b, x : (b # c \/ x # z) /\ Told(b, x) => Told(b, x)',
         call[h].warm => z \notin unlocked[c],
         ~call[h].warm => Told(c, z)'
  PROVE  ShownInv'
<1>1. ASSUME NEW b \in Bindings, NEW x \in unlocked[b] PROVE Told(b, x)' \/ InWork(b, x)'
  <2>1. Told(b, x) \/ InWork(b, x)
    BY DEF ShownInv, UnlockedAreTold
  <2>2. CASE b = c /\ x = z
    BY <2>2
  <2>3. CASE b # c \/ x # z
    <3>1. InWork(b, x) => InWork(b, x)'
      BY <2>3, InWorkLeft
    <3> QED
      BY <2>1, <2>3, <3>1
  <2> QED
    BY <2>2, <2>3
<1>2. UnlockedAreTold'
  BY <1>1 DEF UnlockedAreTold
<1>3. Tells(call[h])'
  BY DEF Tells
<1> QED
  BY <1>2, <1>3 DEF ShownInv

LEMMA ShownRequest ==
  ASSUME ExposureInv, ShownInv, NEW h, Handlers = {h}, NEW b \in Bindings,
         \/ \E acts : Apply(h, b, acts)
         \/ \E assets \in SUBSET Warm : Prewarm(h, b, assets)
         \/ Resolve(h, b)
  PROVE  ShownInv'
<1>1. /\ call[h].phase = "idle" /\ UNCHANGED <<records, unlocked>>
      /\ call'[h].phase \in {"acting", "starting", "resolving"}
  BY DEF Apply, Prewarm, Resolve, At, NewCall, ExposureInv, TypeOK
<1>2. Tells(call[h])'
  BY <1>1 DEF Tells
<1> QED
  BY <1>1, <1>2, ShownIdle

LEMMA ShownUnlock ==
  ASSUME ExposureInv, OneByOneInv, BackendsInv, ShownInv, NEW h, Handlers = {h},
         WriteUnlocked(h)
  PROVE  ShownInv'
<1>1. PICK b : b = call[h].binding
  OBVIOUS
<1>2. PICK x \in Assets, it \in Item :
           /\ it.asset = x
           /\ Work(call[h]) = {} /\ b \in Bindings
           /\ call'[h].phase = "starting" /\ call'[h].binding = b /\ ~call'[h].warm
           /\ Work(call[h])' = {it}
           /\ unlocked' = [unlocked EXCEPT ![b] = @ \cup {x}]
           /\ records' = records
  BY <1>1, UnlockFields
<1>3. InWork(b, x)'
  BY <1>2 DEF InWork
<1>4. ASSUME NEW d \in Bindings, NEW y \in unlocked'[d] PROVE Told(d, y)' \/ InWork(d, y)'
  <2>1. (d = b /\ y = x) \/ y \in unlocked[d]
    <3>1. unlocked \in [Bindings -> SUBSET Assets]
      BY DEF ExposureInv, TypeOK
    <3>2. unlocked'[d] \subseteq unlocked[d] \cup (IF d = b THEN {x} ELSE {})
      BY <1>2, <3>1
    <3> QED
      BY <1>4, <3>2
  <2>2. CASE d = b /\ y = x
    BY <1>3, <2>2
  <2>3. CASE y \in unlocked[d]
    <3>1. Told(d, y)
      BY <1>2, <2>3, NothingInWork DEF ShownInv, UnlockedAreTold
    <3> QED
      BY <1>2, <3>1, UnchangedMoved, ToldMoved
  <2> QED
    BY <2>1, <2>2, <2>3
<1>5. UnlockedAreTold'
  BY <1>4 DEF UnlockedAreTold
<1>6. Tells(call[h])'
  BY <1>2 DEF Tells
<1> QED
  BY <1>5, <1>6 DEF ShownInv

LEMMA ShownAttach ==
  ASSUME ExposureInv, OneByOneInv, BackendsInv, ShownInv, NEW h, Handlers = {h}, Attach(h)
  PROVE  ShownInv'
<1>1. /\ call[h].phase = "attach" /\ call[h].phase \in AtItem
      /\ UNCHANGED <<records, unlocked>>
  BY DEF Attach, At, AtItem
<1>2. PICK c \in Bindings, z \in Assets : c = call[h].binding /\ z = call[h].item.asset
  BY <1>1, ItemWanted
<1>3. CASE call[h].warm
  <2>1. call' = [call EXCEPT ![h] = Started(call[h])]
    BY <1>3 DEF Attach
  <2>2. Tells(call[h])'
    BY <1>1, <2>1, StartedWork DEF Tells
  <2> QED
    BY <1>1, <1>3, <2>2, ShownIdle
<1>4. CASE ~call[h].warm /\ \E r \in call[h].hand : r.copy.hidden
  <2>1. Goto(h, "unhide")
    BY <1>4 DEF Attach, Goto
  <2>2. SameWork(h) /\ call'[h].phase = "unhide"
    BY <1>1, <2>1, GotoWork
  <2> QED
    BY <1>1, <2>2, UnchangedMoved, ShownMoved
<1>5. CASE ~call[h].warm /\ ~\E r \in call[h].hand : r.copy.hidden
  <2>1. call' = [call EXCEPT ![h] = Started(call[h])]
    BY <1>5 DEF Attach
  <2>2. LeavesItem(h) /\ call'[h].phase = "starting"
    BY <1>1, <2>1, StartedWork
  <2>3. PICK r \in Held : /\ call[h].hand = {r} /\ Current(r) /\ r.copy.binding = c
                          /\ r.copy.status = "running"
    BY <1>1, <1>2, InHand DEF Holding
  <2>4. r.copy.asset = z
    BY <1>1, <1>2, <2>3, Busy DEF Course
  <2>5. r.at \in Running(c, z) /\ r.at \in DOMAIN records /\ ~records[r.at].hidden
    BY <1>5, <2>3, <2>4 DEF Running, Current
  <2>6. LastRecord(c, z, r.at)
    BY <2>5 DEF OneByOneInv, RunningIsLast
  <2>7. Told(c, z)
    BY <2>5, <2>6 DEF Told
  <2>8. \A b, x : Told(b, x) => Told(b, x)'
    BY <1>1, UnchangedMoved, ToldMoved
  <2> QED
    BY <1>1, <1>2, <1>5, <2>2, <2>7, <2>8, ShownLeft
<1> QED
  BY <1>3, <1>4, <1>5

LEMMA ShownUnhide ==
  ASSUME ExposureInv, OneByOneInv, BackendsInv, ShownInv, NEW h, Handlers = {h}, Unhide(h)
  PROVE  ShownInv'
<1>1. /\ call[h].phase = "unhide" /\ call[h].phase \in AtItem
      /\ unlocked' = unlocked /\ call' = [call EXCEPT ![h] = Started(call[h])]
  BY DEF Unhide, At, AtItem
<1>2. PICK c \in Bindings, z \in Assets : c = call[h].binding /\ z = call[h].item.asset
  BY <1>1, ItemWanted
<1>3. LeavesItem(h) /\ call'[h].phase = "starting"
  BY <1>1, StartedWork
<1>4. PICK r \in Held : call[h].hand = {r} /\ Current(r) /\ ~records'[r.at].hidden
  BY UnhideMoves
<1>5. Moved
  BY UnhideMoves
<1>6. r.copy.status = "running" /\ r.copy.binding = c /\ r.copy.asset = z
  BY <1>1, <1>2, <1>4, Busy DEF Course, OpenCall
<1>7. r.at \in Running(c, z) /\ r.at \in DOMAIN records
  BY <1>4, <1>6 DEF Running, Current
<1>8. LastRecord(c, z, r.at)' /\ r.at \in DOMAIN records'
  BY <1>5, <1>7, MovedKeepsLast DEF OneByOneInv, RunningIsLast, Moved
<1>9. Told(c, z)'
  BY <1>4, <1>8 DEF Told
<1>10. \A b, x : Told(b, x) => Told(b, x)'
  BY <1>5, ToldMoved
<1>11. call[h].warm => z \notin unlocked[c]
  BY <1>1, <1>2, ItemWanted
<1> QED
  BY <1>1, <1>2, <1>3, <1>9, <1>10, <1>11, ShownLeft


LEMMA ShownRecord ==
  ASSUME ExposureInv, OneByOneInv, BackendsInv, ShownInv, NEW h, Handlers = {h},
         RecordRunning(h) \/ RecordFailed(h)
  PROVE  ShownInv'
<1>1. /\ call[h].phase \in {"record", "fail"} /\ call[h].phase \in AtItem
      /\ unlocked' = unlocked /\ call' = [call EXCEPT ![h] = Started(call[h])]
  BY DEF RecordRunning, RecordFailed, At, AtItem
<1>2. PICK c \in Bindings, z \in Assets : c = call[h].binding /\ z = call[h].item.asset
  BY <1>1, ItemWanted
<1>3. LeavesItem(h) /\ call'[h].phase = "starting"
  BY <1>1, StartedWork
<1>4. PICK new \in Record :
        /\ records' = Append(records, new)
        /\ new.binding = c /\ new.asset = z /\ new.hidden = call[h].warm
  BY <1>2, RecordAdds
<1>5. \A b, x : (b # c \/ x # z) /\ Told(b, x) => Told(b, x)'
  BY <1>4, ToldAdded
<1>6. ~call[h].warm => Told(c, z)'
  BY <1>4, ToldAdded
<1>7. call[h].warm => z \notin unlocked[c]
  BY <1>1, <1>2, ItemWanted
<1> QED
  BY <1>1, <1>2, <1>3, <1>5, <1>6, <1>7, ShownLeft

LEMMA ShownDocker ==
  ASSUME ExposureInv, ShownInv, NEW h, Handlers = {h}, DockerStep(h)
  PROVE  ShownInv'
<1>1. /\ call[h].phase \in Starting /\ call[h].phase # "idle" /\ UNCHANGED <<records, unlocked>>
  BY DockerStepGoes DEF Starting
<1>2. PICK p \in Starting : Goto(h, p)
  BY DockerStepGoes
<1>3. SameWork(h) /\ call'[h].phase = p
  BY <1>1, <1>2, GotoWork
<1> QED
  BY <1>1, <1>3, UnchangedMoved, ShownMoved DEF Starting

LEMMA ShownOther ==
  ASSUME ExposureInv, OneByOneInv, BackendsInv, ShownInv, NEW h, Handlers = {h}, PlainStep(h)
  PROVE  ShownInv'
BY PlainStepGoes, ShownMoved

\* What an asset that is unlocked is told to be, the lists show.
LEMMA ToldShows ==
  ASSUME ExposureInv, NEW b \in Bindings, NEW x, Told(b, x)
  PROVE  x \in Accessible(b) \cup Failed(b) \/ Recycled(b, x)
<1>1. PICK i \in DOMAIN records :
        LastRecord(b, x, i) /\ (records[i].status = "stopped" \/ ~records[i].hidden)
  BY DEF Told
<1>2. records[i].binding = b /\ records[i].asset = x
  BY <1>1 DEF LastRecord
<1>3. records[i].status \in {"running", "stopped", "failed"}
  BY HeldInOrder DEF Record
<1>4. CASE records[i].status = "stopped"
  BY <1>1, <1>4 DEF Recycled
<1>5. CASE ~records[i].hidden /\ records[i].status # "stopped"
  <2>1. i \in Shown(b)
    BY <1>2, <1>5 DEF Shown
  <2>2. CASE records[i].status = "running" /\ Up(b, x)
    BY <1>2, <2>1, <2>2 DEF Accessible
  <2>3. CASE records[i].status = "failed" \/ (records[i].status = "running" /\ ~Up(b, x))
    BY <1>2, <2>1, <2>3 DEF Failed
  <2> QED
    BY <1>3, <1>5, <2>2, <2>3
<1> QED
  BY <1>1, <1>4, <1>5

LEMMA ShownReadAccessible ==
  ASSUME ExposureInv, OneByOneInv, BackendsInv, ShownInv, NEW h, Handlers = {h}, ReadAccessible(h)
  PROVE  ShownInv'
<1>1. /\ call[h].phase = "acting" /\ call'[h].phase = "syncing"
      /\ call'[h].binding = call[h].binding /\ call'[h].seen = Accessible(call[h].binding)
  BY ReadAccessibleFields
<1>2. Work(call[h]) = {}
  BY <1>1, NoWork DEF Between
<1>3. UNCHANGED <<records, unlocked, containers>>
  BY DEF ReadAccessible
<1>4. PICK b \in Bindings : b = call[h].binding
  BY <1>1, Busy DEF Call
<1>5. ASSUME NEW x \in unlocked[b] PROVE x \in Accessible(b) \cup Failed(b) \/ Recycled(b, x)
  <2>1. Told(b, x)
    BY <1>2, NothingInWork DEF ShownInv, UnlockedAreTold
  <2> QED
    BY <2>1, ToldShows
<1>6. Failed(b)' = Failed(b) /\ \A x : Recycled(b, x)' = Recycled(b, x)
  BY <1>3 DEF Failed, Shown, Up, Recycled, LastRecord
<1>7. Tells(call[h])'
  <2>1. \A x \in unlocked'[b] : x \in call'[h].seen \cup Failed(b)' \/ Recycled(b, x)'
    BY <1>1, <1>3, <1>4, <1>5, <1>6
  <2> QED
    BY <1>1, <1>4, <2>1 DEF Tells, Failed, Shown, Up, Recycled, LastRecord
<1> QED
  BY <1>2, <1>3, <1>7, ShownIdle

LEMMA ShownAllStarted ==
  ASSUME ExposureInv, OneByOneInv, ShownInv, NEW h, Handlers = {h}, AllStarted(h)
  PROVE  ShownInv'
<1>1. /\ Work(call[h]) = {}
      /\ call'[h].phase = "idle" \/ call'[h].phase \in {"configure", "acting"}
  BY AllStartedWork
<1>2. UNCHANGED <<records, unlocked>>
  BY DEF AllStarted
<1>3. Tells(call[h])'
  BY <1>1 DEF Tells
<1> QED
  BY <1>1, <1>2, <1>3, ShownIdle

LEMMA ShownEnds ==
  ASSUME ExposureInv, BackendsInv, ShownInv, NEW h, Handlers = {h}, Ends(h)
  PROVE  ShownInv'
BY BackendsEnds, ShownIdle

\* A container that dies turns from accessible to failed.
LEMMA ShownExits ==
  ASSUME ExposureInv, ShownInv, NEW b \in Bindings, NEW x \in Assets, ContainerExits(b, x)
  PROVE  ShownInv'
<1>1. /\ UNCHANGED <<unlocked, records, call>>
      /\ containers' = [containers EXCEPT ![b][x] = "exited"]
  BY DEF ContainerExits, SetContainer
<1>2. ASSUME NEW d \in Bindings, NEW y \in Assets, ~Up(d, y) PROVE ~Up(d, y)'
  BY <1>1, <1>2 DEF ExposureInv, TypeOK, Up
<1>3. ASSUME NEW d \in Bindings PROVE Failed(d) \subseteq Failed(d)'
  <2>1. \A j \in Shown(d) : records[j].asset \in Assets
    BY HeldInOrder DEF Shown, Record
  <2>2. \A j \in Shown(d) : ~Up(d, records[j].asset) => containers'[d][records[j].asset] \in {"missing", "exited"}
    BY <1>2, <2>1 DEF Up
  <2> QED
    BY <1>1, <2>2 DEF Failed, Shown, Up
<1>4. \A d, y : Recycled(d, y)' = Recycled(d, y)
  BY <1>1 DEF Recycled, LastRecord
<1>5. UnlockedAreTold'
  BY <1>1 DEF ShownInv, UnlockedAreTold, Told, LastRecord, InWork, Work
<1>6. ASSUME NEW h \in Handlers, call[h].phase # "idle" PROVE Tells(call[h])'
  <2>1. PICK d \in Bindings : d = call[h].binding
    BY <1>6, Busy DEF Call
  <2>2. call[h].phase = "syncing" =>
          \A y \in unlocked[d] : y \in call[h].seen \cup Failed(d) \/ Recycled(d, y)
    BY <1>6, <2>1 DEF ShownInv, Tells
  <2>3. call[h].phase = "syncing" =>
          \A y \in unlocked[d] : y \in call[h].seen \cup Failed(d)' \/ Recycled(d, y)'
    BY <1>3, <1>4, <2>2
  <2> QED
    BY <1>1, <2>1, <2>3 DEF Tells, Failed, Shown, Up, Recycled, LastRecord
<1> QED
  BY <1>1, <1>5, <1>6 DEF ShownInv

LEMMA ShownSame ==
  ASSUME ShownInv, UNCHANGED vars
  PROVE  ShownInv'
<1>1. UNCHANGED <<unlocked, containers, records, call>>
  BY DEF vars
<1> QED
  BY <1>1 DEF ShownInv, UnlockedAreTold, Told, LastRecord, InWork, Work, Tells, Failed, Shown, Up,
              Recycled

LEMMA StepShown ==
  ASSUME ExposureInv, OneByOneInv, BackendsInv, SpentInv, ShownInv, \E h : Handlers = {h},
         MaxCrashes = 0, [Next]_vars
  PROVE  ShownInv'
<1> PICK h : Handlers = {h}
  OBVIOUS
<1>1. CASE Requests(h)
  BY <1>1, ShownRequest DEF Requests
<1>2. CASE Step(h)
  BY <1>2, ShownUnlock, ShownOther, ShownAttach, ShownUnhide, ShownDocker, ShownRecord,
     ShownAllStarted, ShownReadAccessible, ShownEnds
  DEF Step, DockerStep, PlainStep, Reads, Rewrites, Lists, Ends
<1>3. ASSUME NEW b \in Bindings, NEW x \in Assets, ContainerExits(b, x) PROVE ShownInv'
  BY <1>3, ShownExits
<1>4. CASE UNCHANGED vars
  BY <1>4, ShownSame
<1> QED
  BY <1>1, <1>2, <1>3, <1>4, NoCrash DEF Next

LEMMA InitShown == Init => ShownInv
BY DEF Init, ShownInv, UnlockedAreTold, Idle

\* Without overlap or crashes, every asset that is unlocked has a last record that
\* is visible or was stopped, or is being started.
THEOREM ShownInvariant ==
  (\E h : Handlers = {h}) /\ MaxCrashes = 0 => (Spec => []ShownInv)
<1> SUFFICES ASSUME \E h : Handlers = {h}, MaxCrashes = 0 PROVE Spec => []ShownInv
  OBVIOUS
<1>1. ExposureInv /\ OneByOneInv /\ BackendsInv /\ SpentInv /\ ShownInv /\ [Next]_vars => ShownInv'
  BY StepShown
<1>2. Spec => []OneByOneInv
  BY OneByOneInvariant
<1>3. Spec => [](BackendsInv /\ SpentInv)
  BY BackendsInvariant
<1> QED
  BY <1>1, <1>2, <1>3, InitShown, ExposureInvariant, PTL DEF Spec

\* When an apply is over, each asset the binding has unlocked is in the gateway
\* view, as exposed or as failed, unless a recycle has stopped its runtime.
THEOREM NothingVanishesTheorem ==
  (\E h : Handlers = {h}) /\ MaxCrashes = 0 => (Spec => NothingVanishes)
<1> SUFFICES ASSUME \E h : Handlers = {h}, MaxCrashes = 0 PROVE Spec => NothingVanishes
  OBVIOUS
<1> PICK h : Handlers = {h}
  OBVIOUS
<1>1. ASSUME ExposureInv, ShownInv, SpentInv, [Next]_vars, At(h, "syncing"), call'[h] = Idle
      PROVE  ViewTells(call[h].binding)
  <2>1. call[h].phase = "syncing" /\ call[h] # Idle
    BY <1>1 DEF At, Idle
  <2>2. Sync(h)
    <3>1. ~Requests(h)
      BY <2>1 DEF Requests, Apply, Prewarm, Resolve, At
    <3>2. ~Crash /\ ~UNCHANGED vars
      BY <1>1, <2>1, NoCrash DEF vars
    <3>3. \A b \in Bindings, x \in Assets : ~ContainerExits(b, x)
      BY <1>1, <2>1 DEF ContainerExits
    <3>4. Step(h)
      BY <1>1, <3>1, <3>2, <3>3 DEF Next
    <3> QED
      BY <2>1, <3>4 DEF Step, At, Unlock, UnlockTarget, WriteUnlocked, Reveal, WriteRevealed,
         WriteResolved, FindConfigured, WriteConfigured,
         FindRunning, Attach, Unhide, RemoveContainer, MarkStopped, Inspect, RemoveDead, Run,
         Verify, StartSidecars, Route, RecordRunning, Clean, RecordFailed, AllStarted,
         BeginRecycle, StopNext, ListAgain, ForgetNext, RecycleBinding, WriteRecycled,
         ReadAccessible
  <2>3. PICK b \in Bindings : b = call[h].binding
    BY <1>1, <2>1, Busy DEF Call
  <2>4. \A x \in unlocked[b] : x \in call[h].seen \cup Failed(b) \/ Recycled(b, x)
    BY <1>1, <2>1, <2>3 DEF ShownInv, Tells
  <2>5. view'[b] = [exposed |-> call[h].seen, failed |-> Failed(b)]
    BY <1>1, <2>2, <2>3 DEF Sync, ExposureInv, TypeOK
  <2> QED
    BY <2>3, <2>4, <2>5 DEF ViewTells
<1>2. Spec => []ShownInv
  BY ShownInvariant
<1>3. Spec => [](BackendsInv /\ SpentInv)
  BY BackendsInvariant
<1>4. ExposureInv /\ ShownInv /\ SpentInv /\ [Next]_vars => EndsTold
  BY <1>1 DEF EndsTold
<1> QED
  BY <1>2, <1>3, <1>4, ExposureInvariant, PTL DEF Spec, NothingVanishes


-------------------------------------------------------------------------------
(* RevealFiles only adds to Orchestrator: whatever its files do, its          *)
(* behaviours are behaviours of the orchestrator, so that what is shown above *)
(* holds of the specification the runs check.  And, one request at a time,    *)
(* the clues of a reveal are served.                                          *)


\* Every step of a handler, with what it does to the files, is its step without.
LEMMA FilesStep ==
  ASSUME [FilesNext]_<<vars, files>>
  PROVE  [Next]_vars
<1>1. CASE UNCHANGED <<vars, files>>
  BY <1>1
<1>2. ASSUME NEW h \in Handlers, Requests(h) PROVE Next
  BY <1>2 DEF Next
<1>3. ASSUME NEW h \in Handlers, OtherStep(h) PROVE Next
  <2>1. Step(h)
    BY <1>3 DEF OtherStep, Step
  <2> QED
    BY <2>1 DEF Next
<1>4. ASSUME NEW h \in Handlers,
             AttachWithFiles(h) \/ InspectWithFiles(h) \/ RunWithFiles(h) \/ WriteConfiguredWithFiles(h)
      PROVE  Next
  <2>1. Attach(h) \/ Inspect(h) \/ Run(h) \/ WriteConfigured(h)
    BY <1>4 DEF AttachWithFiles, InspectWithFiles, RunWithFiles, WriteConfiguredWithFiles
  <2>2. Step(h)
    BY <2>1 DEF Step
  <2> QED
    BY <2>2 DEF Next
<1>5. ASSUME NEW b \in Bindings, NEW x \in Assets, ContainerExits(b, x) PROVE Next
  BY <1>5 DEF Next
<1>6. CASE Crash
  BY <1>6 DEF Next
<1> QED
  BY <1>1, <1>2, <1>3, <1>4, <1>5, <1>6 DEF FilesNext

\* An orchestrator that copies, deletes and writes the directories its containers
\* serve does nothing else than one that has no such files.
THEOREM FilesImplementOrchestrator == FilesSpec => Spec
<1>1. FilesInit => Init
  BY DEF FilesInit
<1>2. [FilesNext]_<<vars, files>> => [Next]_vars
  BY FilesStep
<1> QED
  BY <1>1, <1>2, PTL DEF FilesSpec, Spec

\* With the files too, nothing is reachable or named before the binding record has
\* called it unlocked.
THEOREM HiddenWithFiles == FilesSpec => []HiddenUntilRevealed
BY FilesImplementOrchestrator, HiddenUntilRevealedTheorem, PTL

\* With the files too, what the view calls exposed has a route.
THEOREM ReachableWithFiles == FilesSpec => []ReachableIfExposed
BY FilesImplementOrchestrator, ReachableIfExposedTheorem, PTL

-------------------------------------------------------------------------------
(* One request at a time.                                                    *)

USE OrchestratorAssumption

\* One request at a time, with the files too: an asset has one running record, and
\* what is stopped, shown or configured stays so.
THEOREM SerialWithFiles ==
  (\E h : Handlers = {h}) => (FilesSpec => []OneRunningRecord /\ RecordsMoveOn)
BY FilesImplementOrchestrator, OneRunningRecordTheorem, RecordsMoveOnTheorem, PTL

\* And if nothing crashes in the middle: what runs has a container, a port leads to
\* the asset asked for last, and what was unlocked is told of.
THEOREM UndisturbedWithFiles ==
  (\E h : Handlers = {h}) /\ MaxCrashes = 0 =>
    (FilesSpec => []BackendsExist /\ []PortLeadsToWanted /\ NothingVanishes)
BY FilesImplementOrchestrator, BackendsExistTheorem, PortLeadsToWantedTheorem,
   NothingVanishesTheorem, PTL

-------------------------------------------------------------------------------
(* The clues that a container serves.                                        *)

\* Steps that leave the files alone and start nothing keep what is served.
ToServe == {"verify", "sidecars", "route", "record"}
RecordsKeep ==
  /\ DOMAIN records' = DOMAIN records
  /\ \A i \in DOMAIN records : records'[i].status = "running" =>
       /\ records[i].status = "running"
       /\ records'[i].binding = records[i].binding /\ records'[i].asset = records[i].asset
       /\ records'[i].image = records[i].image /\ records'[i].configs = records[i].configs
NoneStarts == \A b \in Bindings : \A x \in Assets : Up(b, x)' => Up(b, x)
GoesThrough(h) ==
  call'[h].phase \in ToServe =>
    /\ call[h].phase \in ToServe
    /\ call'[h].binding = call[h].binding /\ call'[h].item = call[h].item

LEMMA SameRecords ==
  ASSUME records' = records
  PROVE  RecordsKeep
BY DEF RecordsKeep

LEMMA SameContainers ==
  ASSUME containers' = containers
  PROVE  NoneStarts
BY DEF NoneStarts, Up

LEMMA SoundStays ==
  ASSUME UNCHANGED files, NoneStarts, NEW b \in Bindings, NEW x \in Assets, Sound(b, x)
  PROVE  Sound(b, x)'
BY DEF files, NoneStarts, Sound

LEMMA RecordsServe ==
  ASSUME ExposureInv, FilesInv, UNCHANGED files, RecordsKeep, NoneStarts,
         NEW i \in DOMAIN records
  PROVE  Serves(records[i])'
<1> SUFFICES ASSUME records'[i].status = "running",
                    ServesFiles(records'[i].asset, records'[i].image)
             PROVE  /\ Sound(records[i].binding, records[i].asset)'
                    /\ \A config \in records'[i].configs :
                         Entries(config) \subseteq site'[records'[i].binding][records'[i].asset]
  BY DEF Serves, ServesFiles, Entries
<1>1. /\ records[i].status = "running" /\ records'[i].binding = records[i].binding
      /\ records'[i].asset = records[i].asset /\ records'[i].image = records[i].image
      /\ records'[i].configs = records[i].configs
  BY DEF RecordsKeep
<1>2. PICK r : r = records[i]
  OBVIOUS
<1>3. r \in Record /\ r.binding \in Bindings /\ r.asset \in Assets
  BY <1>2, HeldInOrder DEF Record
<1>4. /\ Sound(r.binding, r.asset)
      /\ \A config \in r.configs : Entries(config) \subseteq site[r.binding][r.asset]
  BY <1>1, <1>2 DEF FilesInv, Serves
<1>5. Sound(r.binding, r.asset)'
  BY <1>3, <1>4, SoundStays
<1> QED
  BY <1>1, <1>2, <1>4, <1>5 DEF files, Sound, Up

LEMMA FilesStay ==
  ASSUME ExposureInv, FilesInv, NEW h, Handlers = {h},
         UNCHANGED files, RecordsKeep, NoneStarts, GoesThrough(h)
  PROVE  FilesInv'
<1>1. FilesTypeOK'
  BY DEF FilesInv, FilesTypeOK, files
<1>2. \A i \in DOMAIN records : Serves(records[i])'
  BY RecordsServe
<1>3. ASSUME call'[h].phase \in ToServe, ServesFiles(call'[h].item.asset, call'[h].item.image)
      PROVE  Sound(call[h].binding, call[h].item.asset)'
  <2>1. /\ call[h].phase \in ToServe
        /\ call'[h].binding = call[h].binding /\ call'[h].item = call[h].item
    BY <1>3 DEF GoesThrough
  <2>2. PICK b \in Bindings, x \in Assets : b = call[h].binding /\ x = call[h].item.asset
    BY <2>1, ItemInHand DEF ToServe, AtItem
  <2>3. Sound(b, x)
    BY <1>3, <2>1, <2>2 DEF FilesInv, WillServe, ToServe
  <2>4. Sound(b, x)'
    BY <2>3, SoundStays
  <2> QED
    BY <2>1, <2>2, <2>4 DEF Sound, Up
<1>4. WillServe(call[h])'
  BY <1>3 DEF WillServe, ToServe, ServesFiles
<1> QED
  BY <1>1, <1>2, <1>4 DEF FilesInv, RecordsKeep

\* Wherever a handler goes that is not through a start.
LEMMA FilesApart ==
  ASSUME ExposureInv, FilesInv, NEW h, Handlers = {h},
         UNCHANGED <<files, records, containers>>, call'[h].phase \notin ToServe
  PROVE  FilesInv'
BY SameRecords, SameContainers, FilesStay DEF GoesThrough

LEMMA FilesRequests ==
  ASSUME ExposureInv, FilesInv, NEW h, Handlers = {h}, Requests(h), UNCHANGED files
  PROVE  FilesInv'
<1>1. UNCHANGED <<records, containers>>
  BY DEF Requests, Apply, Prewarm, Resolve
<1>2. call'[h].phase \in {"acting", "starting", "resolving"}
  BY DEF Requests, Apply, Prewarm, Resolve, NewCall, ExposureInv, TypeOK
<1> QED
  BY <1>1, <1>2, FilesApart DEF ToServe

LEMMA FilesActions ==
  ASSUME ExposureInv, OneByOneInv, FilesInv, NEW h, Handlers = {h}, UNCHANGED files,
         \/ Reads(h) \/ Rewrites(h) \/ WriteUnlocked(h) \/ FindConfigured(h)
         \/ FindRunning(h) \/ Attach(h) \/ AllStarted(h)
         \/ Lists(h) \/ StopNext(h) \/ ReadAccessible(h) \/ Ends(h)
  PROVE  FilesInv'
<1>1. UNCHANGED <<records, containers>>
  BY ReadFields, RewriteFields, ListFields
  DEF WriteUnlocked, FindConfigured, FindRunning, Attach, AllStarted, StopNext, ReadAccessible,
      Ends, Sync, WriteResolved
<1>2. CASE Reads(h) \/ Rewrites(h) \/ Lists(h)
  BY <1>1, <1>2, ReadFields, RewriteFields, ListFields, FilesApart DEF ToServe
<1>3. CASE WriteUnlocked(h)
  BY <1>1, <1>3, UnlockedFields, FilesApart DEF ToServe
<1>4. CASE Ends(h)
  <2>1. call'[h].phase = "idle"
    BY <1>4 DEF Ends, Sync, WriteResolved, Idle, ExposureInv, TypeOK
  <2> QED
    BY <1>1, <2>1, FilesApart DEF ToServe
<1>5. CASE FindConfigured(h)
  <2> call[h] \in Call
    BY <1>5, Busy DEF FindConfigured, At
  <2>1. call'[h].phase \in {"acting", "target", "configuring"}
    <3>1. CASE call' = [call EXCEPT ![h] = Configured(call[h], Action(h).variant)]
      BY <3>1, ConfiguredFields DEF ExposureInv, TypeOK
    <3>2. ASSUME NEW i \in DOMAIN records,
                 call' = [call EXCEPT ![h] = [call[h] EXCEPT !.phase = "configuring",
                                                !.hand = {[at |-> i, copy |-> records[i]]}]]
          PROVE  call'[h].phase = "configuring"
      BY <3>2 DEF Call, ExposureInv, TypeOK
    <3> QED
      BY <1>5, <3>1, <3>2 DEF FindConfigured
  <2> QED
    BY <1>1, <2>1, FilesApart DEF ToServe
<1>6. CASE FindRunning(h)
  BY <1>1, <1>6, FindRunningPicks, FilesApart DEF ToServe
<1>7. CASE Attach(h)
  <2> call[h] \in Call
    BY <1>7, Busy DEF Attach, At
  <2>1. \/ call' = [call EXCEPT ![h] = Started(call[h])]
        \/ call' = [call EXCEPT ![h] = [call[h] EXCEPT !.phase = "unhide"]]
    BY <1>7 DEF Attach
  <2>2. \/ call'[h] = Started(call[h])
        \/ call'[h] = [call[h] EXCEPT !.phase = "unhide"]
    BY <2>1 DEF ExposureInv, TypeOK
  <2>3. call'[h].phase \in {"starting", "unhide"}
    BY <2>2, StartedFields DEF Call
  <2> QED
    BY <1>1, <2>3, FilesApart DEF ToServe
<1>8. CASE AllStarted(h)
  BY <1>1, <1>8, AllStartedFields, FilesApart DEF ToServe
<1>9. CASE StopNext(h)
  BY <1>1, <1>9, StopNextFields, FilesApart DEF ToServe
<1>10. CASE ReadAccessible(h)
  BY <1>1, <1>10, ReadAccessibleFields, FilesApart DEF ToServe
<1> QED
  BY <1>2, <1>3, <1>4, <1>5, <1>6, <1>7, <1>8, <1>9, <1>10

\* A record that becomes visible or stops running serves what it served.
LEMMA FilesUnhide ==
  ASSUME ExposureInv, OneByOneInv, FilesInv, NEW h, Handlers = {h}, UNCHANGED files, Unhide(h)
  PROVE  FilesInv'
<1>1. call[h].phase = "unhide" /\ call' = [call EXCEPT ![h] = Started(call[h])]
      /\ containers' = containers
  BY DEF Unhide, At
<1>2. PICK r \in Held : call[h].hand = {r} /\ Current(r) /\ r.copy \in Record
  BY <1>1, InHand DEF Holding
<1>3. PICK d : d = [r.copy EXCEPT !.hidden = FALSE]
  OBVIOUS
<1>4. /\ d \in Record /\ d.binding = r.copy.binding /\ d.asset = r.copy.asset
      /\ d.status = r.copy.status /\ d.image = r.copy.image /\ d.configs = r.copy.configs
      /\ ~d.hidden
  BY <1>2, <1>3 DEF Record
<1>5. Put(r, d)
  BY <1>2, <1>3 DEF Unhide
<1>6. Moved /\ records'[r.at] = d /\ \A i \in DOMAIN records : i # r.at => records'[i] = records[i]
  BY <1>2, <1>4, <1>5, PutMoves
<1>7. RecordsKeep
  BY <1>2, <1>4, <1>6 DEF RecordsKeep, Current, Moved
<1>8. call'[h].phase = "starting"
  BY <1>1, Busy, StartedFields DEF ExposureInv, TypeOK
<1> QED
  BY <1>1, <1>7, <1>8, SameContainers, FilesStay DEF GoesThrough, ToServe

LEMMA FilesMarkStopped ==
  ASSUME ExposureInv, OneByOneInv, FilesInv, NEW h, Handlers = {h}, UNCHANGED files, MarkStopped(h)
  PROVE  FilesInv'
<1>1. RecordsKeep
  BY MarkStoppedMoves DEF RecordsKeep, Moved
<1>2. call'[h].phase \in {"stopping", "inspect"} /\ containers' = containers
  BY MarkStoppedFields DEF MarkStopped
<1> QED
  BY <1>1, <1>2, SameContainers, FilesStay DEF GoesThrough, ToServe

LEMMA FilesForgetNext ==
  ASSUME ExposureInv, OneByOneInv, FilesInv, NEW h, Handlers = {h}, UNCHANGED files, ForgetNext(h)
  PROVE  FilesInv'
<1>1. RecordsKeep
  BY ForgetNextMoves DEF RecordsKeep, Moved
<1>2. call'[h].phase = "forgetting" /\ containers' = containers
  BY ForgetNextFields DEF ForgetNext
<1> QED
  BY <1>1, <1>2, SameContainers, FilesStay DEF GoesThrough, ToServe

\* Containers only go away on their own, and in the steps that remove them.
LEMMA FilesDocker ==
  ASSUME ExposureInv, OneByOneInv, FilesInv, NEW h, Handlers = {h}, UNCHANGED files,
         RemoveContainer(h) \/ RemoveDead(h) \/ Clean(h) \/ Verify(h) \/ StartSidecars(h) \/ Route(h)
  PROVE  FilesInv'
<1>1. /\ records' = records
      /\ call[h].phase \in {"removing", "dead", "clean", "verify", "sidecars", "route"}
  BY DEF RemoveContainer, RemoveDead, Clean, Verify, StartSidecars, Route, At
<1>2. ASSUME NEW p, Goto(h, p)
      PROVE  /\ call'[h].phase = p /\ call'[h].item = call[h].item
             /\ call'[h].binding = call[h].binding
  BY <1>1, <1>2, GotoFields
<1>3. CASE RemoveContainer(h) \/ RemoveDead(h) \/ Clean(h)
  <2>1. call'[h].phase \notin ToServe
    BY <1>2, <1>3 DEF RemoveContainer, RemoveDead, Clean, ToServe
  <2>2. \E b, x : SetContainer(b, x, "missing")
    BY <1>3 DEF RemoveContainer, RemoveDead, Clean
  <2>3. NoneStarts
    BY <2>2 DEF NoneStarts, SetContainer, Up, ExposureInv, TypeOK
  <2> QED
    BY <1>1, <2>1, <2>3, SameRecords, FilesStay DEF GoesThrough
<1>4. CASE Verify(h) \/ StartSidecars(h) \/ Route(h)
  <2>1. containers' = containers /\ call[h].phase \in ToServe
    BY <1>4 DEF Verify, StartSidecars, Route, At, ToServe
  <2>2. \E p : Goto(h, p)
    BY <1>4 DEF Verify, StartSidecars, Route
  <2> QED
    BY <1>1, <1>2, <2>1, <2>2, SameRecords, SameContainers, FilesStay DEF GoesThrough
<1> QED
  BY <1>3, <1>4

\* A record is added once its container serves its files; it has no clues yet.
LEMMA FilesRecord ==
  ASSUME ExposureInv, OneByOneInv, FilesInv, NEW h, Handlers = {h}, UNCHANGED files,
         RecordRunning(h) \/ RecordFailed(h)
  PROVE  FilesInv'
<1>1. /\ call[h].phase \in {"record", "fail"} /\ containers' = containers
      /\ call' = [call EXCEPT ![h] = Started(call[h])]
  BY DEF RecordRunning, RecordFailed, At
<1>2. /\ call[h] \in Call /\ call[h].item.asset \in Assets /\ call[h].item.image \in Images
      /\ call[h].binding \in Bindings /\ call[h].warm \in BOOLEAN
  BY <1>1, ItemInHand DEF AtItem, Call
<1>3. PICK new \in Record :
        /\ records' = Append(records, new)
        /\ new.binding = call[h].binding /\ new.asset = call[h].item.asset
        /\ new.configs = {}
        /\ new.status = "running" => /\ call[h].phase = "record"
                                     /\ new.image = call[h].item.image
  <2>1. CASE RecordRunning(h)
    <3>1. PICK new : new = NewRecord(call[h], "running", call[h].item.image)
      OBVIOUS
    <3>2. /\ new \in Record /\ new.binding = call[h].binding /\ new.asset = call[h].item.asset
          /\ new.configs = {} /\ new.image = call[h].item.image
      BY <1>2, <3>1 DEF NewRecord, Record
    <3> QED
      BY <2>1, <3>1, <3>2 DEF RecordRunning, At
  <2>2. CASE RecordFailed(h)
    <3>1. PICK new : new = NewRecord(call[h], "failed", Base)
      OBVIOUS
    <3>2. /\ new \in Record /\ new.binding = call[h].binding /\ new.asset = call[h].item.asset
          /\ new.configs = {} /\ new.status = "failed"
      BY <1>2, <3>1 DEF NewRecord, Record, Images
    <3> QED
      BY <2>2, <3>1, <3>2 DEF RecordFailed
  <2> QED
    BY <2>1, <2>2
<1>4. PICK n : n = Len(records) + 1
  OBVIOUS
<1>5. /\ DOMAIN records' = DOMAIN records \cup {n}
      /\ \A i \in DOMAIN records : records'[i] = records[i]
      /\ records'[n] = new
  BY <1>3, <1>4, Added
<1>6. \A b, x : Sound(b, x)' = Sound(b, x)
  BY <1>1 DEF Sound, Up, files
<1>7. ASSUME NEW i \in DOMAIN records PROVE Serves(records[i])'
  <2>1. Serves(records[i]) /\ records'[i] = records[i]
    BY <1>5 DEF FilesInv
  <2> QED
    BY <1>6, <2>1 DEF Serves, ServesFiles, Entries, files, Sound, Up
<1>8. ASSUME new.status = "running", ServesFiles(new.asset, new.image)
      PROVE  Sound(new.binding, new.asset)
  BY <1>3, <1>8 DEF FilesInv, WillServe
<1>9. Serves(records[n])'
  BY <1>3, <1>5, <1>6, <1>8 DEF Serves, ServesFiles, Entries, files, Sound, Up
<1>10. call'[h].phase = "starting"
  BY <1>1, <1>2, StartedFields DEF ExposureInv, TypeOK
<1>11. FilesTypeOK'
  BY DEF FilesInv, FilesTypeOK, files
<1> QED
  BY <1>5, <1>7, <1>9, <1>10, <1>11 DEF FilesInv, WillServe

\* A copy is made anew while no record of its asset runs; a container that is up by
\* then counts as adopted.
LEMMA FilesInspect ==
  ASSUME ExposureInv, OneByOneInv, FilesInv, NEW h, Handlers = {h}, InspectWithFiles(h)
  PROVE  FilesInv'
<1>1. call[h].phase = "inspect" /\ UNCHANGED <<containers, records>>
  BY DEF InspectWithFiles, Inspect, At
<1>2. PICK b \in Bindings, x \in Assets : b = call[h].binding /\ x = call[h].item.asset
  BY <1>1, ItemInHand DEF AtItem
<1>3. Running(b, x) = {}
  BY <1>1, <1>2, SerialCall DEF HoldsCurrent, Starting
<1>4. /\ CopyAnew(b, x) \/ UNCHANGED <<site, current>>
      /\ adopted' = IF Up(b, x) THEN adopted \cup {<<b, x>>} ELSE adopted
  BY <1>2 DEF InspectWithFiles
<1>5. FilesTypeOK'
  <2>1. /\ site \in [Bindings -> [Assets -> SUBSET Clues]]
        /\ current \in [Bindings -> [Assets -> BOOLEAN]]
    BY DEF FilesInv, FilesTypeOK
  <2>2. CASE CopyAnew(b, x)
    <3>1. /\ site' = [site EXCEPT ![b][x] = {}]
          /\ current' = [current EXCEPT ![b][x] = FALSE]
      BY <2>2 DEF CopyAnew
    <3>2. site' \in [Bindings -> [Assets -> SUBSET Clues]]
      BY <2>1, <3>1
    <3>3. current' \in [Bindings -> [Assets -> BOOLEAN]]
      BY <2>1, <3>1
    <3> QED
      BY <3>2, <3>3 DEF FilesTypeOK
  <2> QED
    BY <1>4, <2>1, <2>2 DEF FilesTypeOK
<1>6. ASSUME NEW d \in Bindings, NEW y \in Assets, <<d, y>> # <<b, x>>
      PROVE  /\ Sound(d, y) => Sound(d, y)'
             /\ site'[d][y] = site[d][y]
  BY <1>1, <1>4, <1>6 DEF FilesInv, FilesTypeOK, CopyAnew, Sound, Up
<1>7. ASSUME NEW i \in DOMAIN records PROVE Serves(records[i])'
  <2>1. PICK r : r = records[i]
    OBVIOUS
  <2>2. r \in Record /\ r.binding \in Bindings /\ r.asset \in Assets /\ r = records'[i]
    BY <1>1, <2>1, HeldInOrder DEF Record
  <2>3. r.status = "running" => <<r.binding, r.asset>> # <<b, x>>
    BY <1>3, <2>1 DEF Running
  <2>4. Serves(r)
    BY <2>1 DEF FilesInv
  <2>5. Serves(r)'
    BY <1>6, <2>2, <2>3, <2>4 DEF Serves, ServesFiles, Entries
  <2> QED
    BY <1>1, <2>1, <2>2, <2>5 DEF Serves, Sound, Up
<1>8. /\ call'[h].phase \in ToServe => Up(b, x)
      /\ call'[h].binding = b /\ call'[h].item.asset = x
  <2>1. PICK p : p = IF containers[b][x] = "missing" THEN "run"
                     ELSE IF containers[b][x] = "exited" THEN "dead" ELSE "verify"
    OBVIOUS
  <2>2. Goto(h, p)
    BY <1>2, <2>1 DEF InspectWithFiles, Inspect
  <2> QED
    BY <1>1, <1>2, <2>1, <2>2, GotoFields DEF ToServe, Up
<1>9. WillServe(call[h])'
  BY <1>4, <1>8 DEF WillServe, ToServe, Sound
<1> QED
  BY <1>1, <1>5, <1>7, <1>9 DEF FilesInv

\* A container that docker run has started serves the copy of today.
LEMMA FilesRun ==
  ASSUME ExposureInv, OneByOneInv, FilesInv, NEW h, Handlers = {h}, RunWithFiles(h)
  PROVE  FilesInv'
<1>1. call[h].phase = "run" /\ UNCHANGED <<site, records>>
  BY DEF RunWithFiles, Run, At
<1>2. PICK b \in Bindings, x \in Assets, image \in Images :
        b = call[h].binding /\ x = call[h].item.asset /\ image = call[h].item.image
  BY <1>1, ItemInHand DEF AtItem
<1>3. Running(b, x) = {}
  BY <1>1, <1>2, SerialCall DEF HoldsCurrent, Starting
<1>4. \/ /\ containers[b][x] = "missing" /\ SetContainer(b, x, image)
         /\ Goto(h, "verify")
      \/ containers' = containers /\ Goto(h, "clean")
  BY <1>2 DEF RunWithFiles, Run
<1>5. containers'[b][x] = containers[b][x] => UNCHANGED <<current, adopted>>
  BY <1>2 DEF RunWithFiles
<1>6. containers'[b][x] # containers[b][x] =>
        /\ current' = [current EXCEPT ![b][x] = ServesFiles(x, image)]
        /\ adopted' = adopted \ {<<b, x>>}
  BY <1>2 DEF RunWithFiles
<1>7. FilesTypeOK'
  <2>1. ServesFiles(x, image) \in BOOLEAN
    BY DEF ServesFiles
  <2>2. PICK serves \in BOOLEAN : serves = ServesFiles(x, image)
    BY <2>1
  <2>3. current \in [Bindings -> [Assets -> BOOLEAN]]
    BY DEF FilesInv, FilesTypeOK
  <2>4. current' = [current EXCEPT ![b][x] = serves] \/ current' = current
    BY <1>5, <1>6, <2>2
  <2>5. current' \in [Bindings -> [Assets -> BOOLEAN]]
    BY <2>3, <2>4
  <2> QED
    BY <1>1, <2>5 DEF FilesInv, FilesTypeOK
<1>8. ASSUME NEW d \in Bindings, NEW y \in Assets, <<d, y>> # <<b, x>>, Sound(d, y)
      PROVE  Sound(d, y)'
  <2>1. containers'[d][y] = containers[d][y]
    BY <1>4, <1>8 DEF SetContainer, ExposureInv, TypeOK
  <2>2. current'[d][y] = current[d][y] /\ (<<d, y>> \in adopted' <=> <<d, y>> \in adopted)
    BY <1>5, <1>6, <1>8 DEF FilesInv, FilesTypeOK
  <2> QED
    BY <1>8, <2>1, <2>2 DEF Sound, Up
<1>9. ASSUME NEW i \in DOMAIN records PROVE Serves(records[i])'
  <2>1. PICK r : r = records[i]
    OBVIOUS
  <2>2. r \in Record /\ r.binding \in Bindings /\ r.asset \in Assets /\ r = records'[i]
    BY <1>1, <2>1, HeldInOrder DEF Record
  <2>3. r.status = "running" => <<r.binding, r.asset>> # <<b, x>>
    BY <1>3, <2>1 DEF Running
  <2>4. Serves(r)
    BY <2>1 DEF FilesInv
  <2>5. Serves(r)'
    BY <1>1, <1>8, <2>2, <2>3, <2>4 DEF Serves, ServesFiles, Entries
  <2> QED
    BY <1>1, <2>1, <2>2, <2>5 DEF Serves, Sound, Up
<1>10. ASSUME containers' = containers, Goto(h, "clean") PROVE WillServe(call[h])'
  BY <1>1, <1>10, GotoFields DEF WillServe
<1>11. ASSUME containers[b][x] = "missing", SetContainer(b, x, image), Goto(h, "verify")
       PROVE  WillServe(call[h])'
  <2>1. call'[h].binding = b /\ call'[h].item.asset = x /\ call'[h].item.image = image
    BY <1>1, <1>2, <1>11, GotoFields
  <2>2. containers'[b][x] = image /\ image # "missing"
    BY <1>2, <1>11 DEF SetContainer, ExposureInv, TypeOK
  <2>3. current'[b][x] = ServesFiles(x, image)
    BY <1>6, <1>11, <2>2 DEF FilesInv, FilesTypeOK
  <2> QED
    BY <2>1, <2>3 DEF WillServe, ServesFiles, Sound
<1> QED
  BY <1>1, <1>4, <1>7, <1>9, <1>10, <1>11 DEF FilesInv

\* A clue is written where the record that gets it is served from.
LEMMA FilesWriteConfigured ==
  ASSUME ExposureInv, OneByOneInv, FilesInv, NEW h, Handlers = {h}, WriteConfiguredWithFiles(h)
  PROVE  FilesInv'
<1> DEFINE id == Action(h).variant.id
<1>1. /\ call[h].phase = "configuring" /\ WriteConfigured(h) /\ UNCHANGED <<current, adopted, containers>>
      /\ \E r \in call[h].hand : Materialize(r.copy.binding, r.copy.asset, id)
  BY DEF WriteConfiguredWithFiles, WriteConfigured, At
<1>2. PICK r \in Held : /\ call[h].hand = {r} /\ Current(r) /\ r.copy \in Record
                        /\ r.copy.status = "running"
  BY <1>1, InHand DEF Holding
<1>3. Action(h).variant \in Variants
  BY <1>1, Busy, HeadAction DEF Course, Action
<1>4. id \in Configs
  BY <1>3 DEF Configs
<1>5. PICK d : d = [r.copy EXCEPT !.configs = @ \cup {id}]
  OBVIOUS
<1>6. Put(r, d)
  BY <1>1, <1>2, <1>5 DEF WriteConfigured
<1> HIDE DEF id
<1>7. PICK b \in Bindings, x \in Assets, image \in Images :
        b = r.copy.binding /\ x = r.copy.asset /\ image = r.copy.image
  BY <1>2 DEF Record
<1>8. /\ d \in Record /\ d.binding = b /\ d.asset = x /\ d.image = image
      /\ d.status = "running" /\ (~r.copy.hidden => ~d.hidden)
      /\ d.configs = r.copy.configs \cup {id}
  BY <1>2, <1>4, <1>5, <1>7 DEF Record
<1>9. /\ DOMAIN records' = DOMAIN records /\ records'[r.at] = d
      /\ \A i \in DOMAIN records : i # r.at => records'[i] = records[i]
  BY <1>2, <1>6, <1>7, <1>8, PutMoves DEF Moved
<1>10. site' = IF x \in Static THEN [site EXCEPT ![b][x] = @ \cup Entries(id)] ELSE site
  BY <1>1, <1>2, <1>7 DEF Materialize
<1>11. PICK new : new = Entries(id)
  OBVIOUS
<1>12. new \subseteq Clues
  BY <1>4, <1>11 DEF Clues
<1>13. /\ site \in [Bindings -> [Assets -> SUBSET Clues]]
       /\ current \in [Bindings -> [Assets -> BOOLEAN]]
  BY DEF FilesInv, FilesTypeOK
<1>14. site' \in [Bindings -> [Assets -> SUBSET Clues]]
  BY <1>10, <1>11, <1>12, <1>13
<1>15. FilesTypeOK'
  BY <1>1, <1>13, <1>14 DEF FilesTypeOK
<1>16. \A e \in Bindings : \A y \in Assets : site[e][y] \subseteq site'[e][y]
  BY <1>10, <1>11, <1>13
<1>17. ServesFiles(x, image) => new \subseteq site'[b][x]
  BY <1>10, <1>11, <1>13 DEF ServesFiles
<1>18. \A e, y : Sound(e, y)' = Sound(e, y)
  BY <1>1 DEF Sound, Up
<1>19. ASSUME NEW s \in Record, Serves(s) PROVE Serves(s)'
  <2>1. s.binding \in Bindings /\ s.asset \in Assets
    BY DEF Record
  <2> QED
    BY <1>16, <1>18, <1>19, <2>1 DEF Serves, ServesFiles, Entries
<1>20. Serves(d)'
  <2>1. Serves(r.copy)
    BY <1>2 DEF FilesInv, Current
  <2>2. Serves(r.copy)'
    BY <1>2, <1>19, <2>1
  <2>3. ServesFiles(x, image) =>
          /\ Sound(b, x)'
          /\ \A config \in r.copy.configs : Entries(config) \subseteq site'[b][x]
    BY <1>2, <1>7, <2>2 DEF Serves, ServesFiles, Entries
  <2>4. ServesFiles(x, image) => \A config \in d.configs : Entries(config) \subseteq site'[b][x]
    BY <1>8, <1>11, <1>17, <2>3
  <2> QED
    BY <1>8, <2>3, <2>4 DEF Serves, ServesFiles, Entries
<1>21. ASSUME NEW i \in DOMAIN records PROVE Serves(records[i])'
  <2>1. CASE i = r.at
    BY <1>9, <1>20, <2>1 DEF Serves, Sound, Up
  <2>2. CASE i # r.at
    <3>1. PICK s : s = records[i]
      OBVIOUS
    <3>2. s \in Record /\ Serves(s) /\ s = records'[i]
      BY <1>9, <2>2, <3>1, HeldInOrder DEF FilesInv
    <3>3. Serves(s)'
      BY <1>19, <3>2
    <3> QED
      BY <3>2, <3>3 DEF Serves, Sound, Up
  <2> QED
    BY <2>1, <2>2
<1>22. call'[h].phase \in {"acting", "target"}
  <2>1. call[h] \in Call
    BY <1>1, Busy
  <2>2. call'[h] = Configured(call[h], Action(h).variant)
    BY <1>1 DEF WriteConfigured, ExposureInv, TypeOK
  <2> QED
    BY <2>1, <2>2, ConfiguredFields
<1> QED
  BY <1>9, <1>15, <1>21, <1>22 DEF FilesInv, WillServe

\* A container that dies, a crash, and a step of nobody.
LEMMA FilesUndisturbed ==
  ASSUME ExposureInv, FilesInv, NEW h, Handlers = {h}, UNCHANGED files,
         (\E b \in Bindings, x \in Assets : ContainerExits(b, x)) \/ Crash \/ UNCHANGED vars
  PROVE  FilesInv'
<1>1. records' = records
  BY DEF ContainerExits, Crash, vars
<1>2. NoneStarts
  <2>1. (\E b, x : SetContainer(b, x, "exited")) \/ containers' = containers
    BY DEF ContainerExits, Crash, vars
  <2>2. ASSUME NEW b, NEW x, SetContainer(b, x, "exited") PROVE NoneStarts
    BY <2>2 DEF SetContainer, NoneStarts, Up, ExposureInv, TypeOK
  <2> QED
    BY <2>1, <2>2, SameContainers
<1>3. call'[h] = call[h] \/ call'[h].phase = "idle"
  BY DEF ContainerExits, Crash, Idle, vars
<1> QED
  BY <1>1, <1>2, <1>3, SameRecords, FilesStay DEF GoesThrough, ToServe

LEMMA FilesStepServes ==
  ASSUME ExposureInv, OneByOneInv, FilesInv, \E h : Handlers = {h},
         [FilesNext]_<<vars, files>>
  PROVE  FilesInv'
<1> PICK h : Handlers = {h}
  OBVIOUS
<1>1. CASE UNCHANGED <<vars, files>>
  BY <1>1, FilesUndisturbed
<1>2. CASE Requests(h) /\ UNCHANGED files
  BY <1>2, FilesRequests
<1>3. CASE OtherStep(h) /\ UNCHANGED files
  BY <1>3, FilesActions, FilesUnhide, FilesMarkStopped, FilesForgetNext, FilesDocker, FilesRecord
  DEF OtherStep, Reads, Rewrites, Lists, Ends
<1>4. CASE AttachWithFiles(h)
  BY <1>4, FilesActions DEF AttachWithFiles
<1>5. CASE InspectWithFiles(h) \/ RunWithFiles(h) \/ WriteConfiguredWithFiles(h)
  BY <1>5, FilesInspect, FilesRun, FilesWriteConfigured
<1>6. CASE (\E b \in Bindings, x \in Assets : ContainerExits(b, x) /\ UNCHANGED files)
             \/ (Crash /\ UNCHANGED files)
  BY <1>6, FilesUndisturbed
<1> QED
  BY <1>1, <1>2, <1>3, <1>4, <1>5, <1>6 DEF FilesNext

LEMMA FilesInitServes == FilesInit => FilesInv
BY DEF FilesInit, Init, FilesInv, FilesTypeOK, Idle

\* What serves files serves the copy of today, with every clue its record names.
THEOREM FilesInvariant == (\E h : Handlers = {h}) => (FilesSpec => []FilesInv)
<1> SUFFICES ASSUME \E h : Handlers = {h} PROVE FilesSpec => []FilesInv
  OBVIOUS
<1>1. ExposureInv /\ OneByOneInv /\ FilesInv /\ [FilesNext]_<<vars, files>> => FilesInv'
  BY FilesStepServes
<1>2. Spec => []OneByOneInv
  BY OneByOneInvariant
<1> QED
  BY <1>1, <1>2, FilesInitServes, ExposureInvariant, FilesImplementOrchestrator, PTL DEF FilesSpec

\* Requests that do not overlap, whatever fails and wherever they are cut off: what
\* the record of a running asset calls active is there in what its container serves.
THEOREM CluesAreServedTheorem == (\E h : Handlers = {h}) => (FilesSpec => []CluesAreServed)
<1> SUFFICES ASSUME \E h : Handlers = {h} PROVE FilesSpec => []CluesAreServed
  OBVIOUS
<1>1. FilesInv => CluesAreServed
  BY DEF FilesInv, Serves, Sound, Served, CluesAreServed
<1>2. FilesSpec => []FilesInv
  BY FilesInvariant
<1> QED
  BY <1>1, <1>2, PTL

===============================================================================
