-------------------------- MODULE AssetGatewayProofs --------------------------
(***************************************************************************)
(* Proofs about AssetGateway.  Only Route ever gives a connection a route,  *)
(* and only to a connection of which nothing was reported yet; whatever the *)
(* table becomes afterwards, what is reported names the route that was      *)
(* chosen then (Attributed).  What one side has sent is what the other has  *)
(* received followed by what the gateway still holds (Carries), so the      *)
(* relay is a Tunnel; and what was reported of an observed service is all   *)
(* that was sent but for the units nobody has read yet (Accounted).         *)
(***************************************************************************)
EXTENDS AssetGateway, TLAPS

-------------------------------------------------------------------------------
(* Types.  Connections are records that the actions update field by field,   *)
(* so what is needed of them is the names of their fields and the types of   *)
(* what is reported.                                                         *)

Fields ==
  {"phase", "client", "port", "login", "route", "alone", "sent", "up", "fin", "gone", "first",
   "got", "gotEnd", "back", "down", "bfin", "cut", "rcvd", "rcvdEnd", "upDone", "downDone"}
Fits(k) == DOMAIN k = Fields
Units(k) == k.up \in Seq(Nat) /\ k.first \in Seq(Nat) /\ k.sent \in Nat
Reports == [kind : {"http", "protocol"}, attacker : Clients, asset : Assets, units : Seq(Nat),
            auth : {"none", "success", "failure"}]
Attached == {"peek", "connect", "relay"}

\* A connection and what was reported of it.  A route is chosen once and for all;
\* nothing is reported before.
Attribution(k, reported) ==
  /\ k.phase \in {"idle", "accepted"} => reported = <<>> /\ k.route = NoRoute
  /\ k.phase \in Attached => k.route \in Backends
  /\ k.route # NoRoute =>
       /\ Port[k.route[2]] = k.port
       /\ Owner[k.route[1]] = k.client \/ (Fallback /\ k.alone)
       /\ \A i \in DOMAIN reported :
            reported[i].attacker = Owner[k.route[1]] /\ reported[i].asset = k.route[2]
Sound(k, reported) ==
  Fits(k) /\ Units(k) /\ reported \in Seq(Reports) /\ Attribution(k, reported)

GatewayInv ==
  /\ conn = [c \in Conns |-> conn[c]] /\ events = [c \in Conns |-> events[c]]
  /\ \A c \in Conns : Sound(conn[c], events[c])

\* A step of connection c that leaves Sound what it was leaves all as it was.
LEMMA OneConnection ==
  ASSUME GatewayInv, NEW c \in Conns, NEW k, NEW r,
         conn' = [conn EXCEPT ![c] = k], events' = [events EXCEPT ![c] = r], Sound(k, r)
  PROVE  GatewayInv'
<1>1. conn' = [d \in Conns |-> IF d = c THEN k ELSE conn[d]] BY DEF GatewayInv
<1>2. events' = [d \in Conns |-> IF d = c THEN r ELSE events[d]] BY DEF GatewayInv
<1>3. conn' = [d \in Conns |-> conn'[d]] /\ events' = [d \in Conns |-> events'[d]] BY <1>1, <1>2
<1>4. \A d \in Conns : Sound(conn'[d], events'[d]) BY <1>1, <1>2 DEF GatewayInv
<1> QED BY <1>3, <1>4 DEF GatewayInv

\* The same for a step that reports nothing.
LEMMA QuietConnection ==
  ASSUME GatewayInv, NEW c \in Conns, NEW k, Set(c, k), events' = events, Sound(k, events[c])
  PROVE  GatewayInv'
<1>1. conn' = [conn EXCEPT ![c] = k] BY DEF Set
<1>2. events' = [events EXCEPT ![c] = events[c]] BY DEF GatewayInv
<1> QED BY <1>1, <1>2, OneConnection

\* What keeps the fields that Attribution is about keeps it.
Kin(j, k) ==
  /\ Fits(j) /\ j.route = k.route /\ j.alone = k.alone
  /\ j.port = k.port /\ j.client = k.client
LEMMA SamePhase ==
  ASSUME NEW k, NEW j, NEW r, Sound(k, r), Kin(j, k), Units(j), j.phase = k.phase
  PROVE  Sound(j, r)
BY DEF Sound, Attribution, Kin

\* So does going on to a later phase, or being closed.
LEMMA LaterPhase ==
  ASSUME NEW k, NEW j, NEW r, Sound(k, r), Kin(j, k), Units(j),
         k.phase \in Attached, j.phase \in Attached \cup {"closed", "leaked"}
  PROVE  Sound(j, r)
BY DEF Sound, Attribution, Attached, Kin

\* Reports about the route of a connection are attributed to it.
OwnReport(k, e) == e \in Reports /\ e.attacker = Owner[k.route[1]] /\ e.asset = k.route[2]
LEMMA Reporting ==
  ASSUME NEW k, NEW r, NEW new, Sound(k, r), k.phase \in Attached, new \in Seq(Reports),
         \A i \in DOMAIN new : OwnReport(k, new[i])
  PROVE  Sound(k, r \o new)
<1>1. r \in Seq(Reports) BY DEF Sound
<1>2. r \o new \in Seq(Reports) BY <1>1
<1>3. ASSUME k.route # NoRoute, NEW i \in DOMAIN (r \o new)
      PROVE  (r \o new)[i].attacker = Owner[k.route[1]] /\ (r \o new)[i].asset = k.route[2]
  <2>1. i \in 1..(Len(r) + Len(new)) BY <1>1, <1>3
  <2>2. CASE i <= Len(r)
    <3>1. (r \o new)[i] = r[i] /\ i \in DOMAIN r BY <1>1, <2>1, <2>2
    <3> QED BY <3>1, <1>3 DEF Sound, Attribution
  <2>3. CASE i > Len(r)
    <3>1. (r \o new)[i] = new[i - Len(r)] /\ i - Len(r) \in DOMAIN new BY <1>1, <2>1, <2>3
    <3> QED BY <3>1 DEF OwnReport
  <2> QED BY <1>1, <2>1, <2>2, <2>3
<1>4. k.phase \notin {"idle", "accepted"} BY DEF Attached
<1> QED BY <1>2, <1>3, <1>4 DEF Sound, Attribution

-------------------------------------------------------------------------------
(* Steps.                                                                    *)

LEMMA ClosedSound ==
  ASSUME NEW k, NEW r, Sound(k, r)
  PROVE  Sound(Closed(k), r)
<1> DEFINE j == Closed(k)
<1>1. Fits(j) BY DEF Sound, Fits, Closed
<1>2. j.up = k.up /\ j.first = k.first /\ j.sent = k.sent /\ j.phase = "closed"
  BY DEF Sound, Fits, Fields, Closed
<1>3. j.route = k.route /\ j.port = k.port /\ j.client = k.client /\ j.alone = k.alone
  BY DEF Sound, Fits, Fields, Closed
<1> HIDE DEF j
<1>4. Units(j) BY <1>2 DEF Sound, Units
<1>5. Sound(j, r) BY <1>1, <1>2, <1>3, <1>4 DEF Sound, Attribution, Attached
<1> QED BY <1>5 DEF j

LEMMA EventFacts ==
  ASSUME NEW c, NEW r, Sound(conn[c], r), conn[c].phase \in Attached,
         NEW kind \in {"http", "protocol"}, NEW units \in Seq(Nat),
         NEW auth \in {"none", "success", "failure"}
  PROVE  OwnReport(conn[c], Event(c, kind, units, auth))
<1>1. conn[c].route \in Backends BY DEF Sound, Attribution
<1>2. Owner[conn[c].route[1]] \in Clients /\ conn[c].route[2] \in Assets
  BY <1>1, GatewayAssumption DEF Backends
<1> QED BY <1>2 DEF OwnReport, Event, Key, Asset, Reports

\* The units of what observers report are those they were fed with.
LEMMA ObservedFacts ==
  ASSUME NEW c, NEW r, Sound(conn[c], r), conn[c].phase \in Attached, NEW units \in Seq(Nat)
  PROVE  /\ ObservedUnits(c, units) \in Seq(Reports)
         /\ \A i \in DOMAIN ObservedUnits(c, units) : OwnReport(conn[c], ObservedUnits(c, units)[i])
<1> DEFINE e == Event(c, "protocol", units, "none")
<1>1. OwnReport(conn[c], e) BY EventFacts
<1> HIDE DEF e
<1>2. e \in Reports BY <1>1 DEF OwnReport
<1>3. CASE ObservedUnits(c, units) = <<e>> BY <1>1, <1>2, <1>3
<1>4. CASE ObservedUnits(c, units) = <<>> BY <1>4
<1> QED BY <1>3, <1>4 DEF ObservedUnits, e

LEMMA ConnectStep ==
  ASSUME GatewayInv, NEW c \in Conns, NEW client, NEW p, NEW login, Connect(c, client, p, login)
  PROVE  GatewayInv'
<1> DEFINE j == [Idle EXCEPT !.phase = "accepted", !.client = client, !.port = p, !.login = login]
<1>1. Sound(conn[c], events[c]) /\ conn[c].phase = "idle" BY DEF GatewayInv, Connect, At
<1>2. events[c] = <<>> BY <1>1 DEF Sound, Attribution
<1>3. Fits(j) BY DEF Fits, Fields, Idle
<1>4. j.up = <<>> /\ j.first = <<>> /\ j.sent = 0 /\ j.phase = "accepted" /\ j.route = NoRoute
  BY DEF Idle
<1>5. Set(c, j) /\ events' = events BY DEF Connect
<1> HIDE DEF j
<1>6. Units(j) BY <1>4 DEF Units
<1>7. Sound(j, events[c]) BY <1>1, <1>2, <1>3, <1>4, <1>6 DEF Sound, Attribution, Attached
<1> QED BY <1>5, <1>7, QuietConnection

\* The one step that chooses a route.
LEMMA RouteStep ==
  ASSUME GatewayInv, NEW c \in Conns, Route(c)
  PROVE  GatewayInv'
<1> DEFINE k == conn[c]
<1>1. Sound(k, events[c]) /\ k.phase = "accepted" BY DEF GatewayInv, Route, At
<1>2. events[c] = <<>> BY <1>1 DEF Sound, Attribution
<1>3. events' = events BY DEF Route
<1>4. CASE Set(c, Closed(k)) BY <1>1, <1>3, <1>4, ClosedSound, QuietConnection
<1>5. ASSUME NEW r \in Backends, Selects(k.port, k.client, r),
             Set(c, [k EXCEPT !.phase = IF k.port \in HttpPorts THEN "peek" ELSE "connect",
                              !.route = r, !.alone = OfPort(k.port) = {r}])
      PROVE  GatewayInv'
  <2> DEFINE j == [k EXCEPT !.phase = IF k.port \in HttpPorts THEN "peek" ELSE "connect",
                            !.route = r, !.alone = OfPort(k.port) = {r}]
  <2>1. Fits(j) BY <1>1 DEF Sound, Fits
  <2>2. j.up = k.up /\ j.first = k.first /\ j.sent = k.sent /\ j.port = k.port /\ j.client = k.client
    BY <1>1 DEF Sound, Fits, Fields
  <2>3. j.route = r /\ (OfPort(k.port) = {r} => j.alone) BY <1>1 DEF Sound, Fits, Fields
  <2>4. j.phase = IF k.port \in HttpPorts THEN "peek" ELSE "connect" BY <1>1 DEF Sound, Fits, Fields
  <2>5. Set(c, j) BY <1>5
  <2> HIDE DEF j
  <2>6. Units(j) BY <1>1, <2>2 DEF Sound, Units
  <2>7. Port[r[2]] = k.port /\ (Owner[r[1]] = k.client \/ (Fallback /\ OfPort(k.port) = {r}))
    BY <1>5 DEF Selects, Exact, OfPort, Key
  <2>8. j.phase \in {"peek", "connect"} BY <2>4
  <2>9. Attribution(j, events[c]) BY <1>2, <1>5, <2>2, <2>3, <2>7, <2>8 DEF Attribution, Attached
  <2>10. Sound(j, events[c]) BY <1>1, <2>1, <2>6, <2>9 DEF Sound
  <2> QED BY <1>3, <2>5, <2>10, QuietConnection
<1> QED BY <1>4, <1>5 DEF Route

LEMMA ReportsConcat ==
  ASSUME NEW r \in Seq(Reports), NEW s \in Seq(Reports), NEW t \in Seq(Reports)
  PROVE  (r \o s) \o t = r \o (s \o t)
<1> DEFINE a == (r \o s) \o t
<1> DEFINE b == r \o (s \o t)
<1>1. r \o s \in Seq(Reports) /\ s \o t \in Seq(Reports) OBVIOUS
<1>2. a \in Seq(Reports) /\ Len(a) = Len(r) + Len(s) + Len(t) BY <1>1
<1>3. b \in Seq(Reports) /\ Len(b) = Len(r) + Len(s) + Len(t) BY <1>1
<1>4. ASSUME NEW i \in 1..Len(a) PROVE a[i] = b[i]
  <2>1. CASE i <= Len(r) BY <1>1, <1>2, <2>1
  <2>2. CASE i > Len(r) /\ i <= Len(r) + Len(s) BY <1>1, <1>2, <2>2
  <2>3. CASE i > Len(r) + Len(s) BY <1>1, <1>2, <2>3
  <2> QED BY <1>1, <1>2, <2>1, <2>2, <2>3
<1> HIDE DEF a, b
<1>5. a = b BY <1>2, <1>3, <1>4
<1> QED BY <1>5 DEF a, b

LEMMA PeekStep ==
  ASSUME GatewayInv, NEW c \in Conns, Peek(c)
  PROVE  GatewayInv'
<1> DEFINE k == conn[c]
<1> DEFINE first == FirstRead(c)
<1> DEFINE Request(auth) == IF first = <<>> THEN <<>> ELSE <<Event(c, "http", first, auth)>>
<1> DEFINE captured == IF Asset(c) \in Capture THEN ObservedUnits(c, first) ELSE <<>>
<1>1. Sound(k, events[c]) /\ k.phase = "peek" BY DEF GatewayInv, Peek, At
<1>2. first \in Seq(Nat) /\ k.phase \in Attached BY <1>1 DEF Sound, Units, FirstRead, Attached
<1>3. PICK auth \in Answers(c) :
        IF auth = "none"
          THEN /\ Set(c, [k EXCEPT !.phase = "connect", !.first = first, !.up = <<>>])
               /\ Report(c, Request(auth) \o captured)
          ELSE Set(c, AnsweredHere(k)) /\ Report(c, Request(auth))
  BY DEF Peek
<1>4. auth \in {"none", "success", "failure"} BY <1>3 DEF Answers
<1>5. /\ Request(auth) \in Seq(Reports)
      /\ \A i \in DOMAIN Request(auth) : OwnReport(k, Request(auth)[i])
  <2> DEFINE e == Event(c, "http", first, auth)
  <2>1. OwnReport(k, e) BY <1>1, <1>2, <1>4, EventFacts
  <2> HIDE DEF e, first
  <2>2. e \in Reports BY <2>1 DEF OwnReport
  <2>3. CASE Request(auth) = <<e>> BY <2>1, <2>2, <2>3
  <2>4. CASE Request(auth) = <<>> BY <2>4
  <2> QED BY <2>3, <2>4 DEF e
<1>6. /\ captured \in Seq(Reports)
      /\ \A i \in DOMAIN captured : OwnReport(k, captured[i])
  <2>1. /\ ObservedUnits(c, first) \in Seq(Reports)
        /\ \A i \in DOMAIN ObservedUnits(c, first) : OwnReport(k, ObservedUnits(c, first)[i])
    BY <1>1, <1>2, ObservedFacts
  <2> HIDE DEF first
  <2>2. captured = <<>> \/ captured = ObservedUnits(c, first) OBVIOUS
  <2> HIDE DEF captured
  <2>3. CASE captured = <<>> BY <2>3
  <2>4. CASE captured = ObservedUnits(c, first) BY <2>1, <2>4
  <2> QED BY <2>2, <2>3, <2>4
<1> HIDE DEF first, Request, captured
<1>7. Sound(k, events[c] \o Request(auth)) BY <1>1, <1>2, <1>5, Reporting
<1>8. CASE auth = "none"
  <2> DEFINE j == [k EXCEPT !.phase = "connect", !.first = first, !.up = <<>>]
  <2> DEFINE r == (events[c] \o Request(auth)) \o captured
  <2>1. Set(c, j) /\ Report(c, Request(auth) \o captured) BY <1>3, <1>8
  <2>2. Kin(j, k) BY <1>1 DEF Kin, Sound, Fits, Fields
  <2>3. j.phase = "connect" BY <1>1 DEF Sound, Fits, Fields
  <2>4. j.up = <<>> /\ j.first = first /\ j.sent = k.sent BY <1>1 DEF Sound, Fits, Fields
  <2>5. Sound(k, r) BY <1>2, <1>6, <1>7, Reporting
  <2> HIDE DEF j
  <2>6. Units(j) BY <1>1, <1>2, <2>4 DEF Sound, Units
  <2>7. Sound(j, r) BY <1>2, <2>2, <2>3, <2>5, <2>6, LaterPhase DEF Attached
  <2>8. r = events[c] \o (Request(auth) \o captured)
    <3>1. events[c] \in Seq(Reports) BY <1>1 DEF Sound
    <3>2. Request(auth) \in Seq(Reports) BY <1>5
    <3>3. captured \in Seq(Reports) BY <1>6
    <3> QED BY <3>1, <3>2, <3>3, ReportsConcat, Zenon
  <2>9. events' = [events EXCEPT ![c] = r] BY <2>1, <2>8 DEF Report
  <2>10. conn' = [conn EXCEPT ![c] = j] BY <2>1 DEF Set
  <2> QED BY <2>7, <2>9, <2>10, OneConnection
<1>9. CASE auth # "none"
  <2> DEFINE i == [k EXCEPT !.up = <<>>]
  <2> DEFINE r == events[c] \o Request(auth)
  <2>1. Set(c, Closed(i)) /\ Report(c, Request(auth)) BY <1>3, <1>9 DEF AnsweredHere
  <2>2. Kin(i, k) BY <1>1 DEF Kin, Sound, Fits, Fields
  <2>3. i.phase = k.phase BY <1>1 DEF Sound, Fits, Fields
  <2>4. i.up = <<>> /\ i.first = k.first /\ i.sent = k.sent BY <1>1 DEF Sound, Fits, Fields
  <2> HIDE DEF i
  <2>5. Units(i) BY <1>1, <2>4 DEF Sound, Units
  <2>6. Sound(i, r) BY <1>7, <2>2, <2>3, <2>5, SamePhase
  <2>7. Sound(Closed(i), r) BY <2>6, ClosedSound
  <2>8. events' = [events EXCEPT ![c] = r] BY <2>1 DEF Report
  <2>9. conn' = [conn EXCEPT ![c] = Closed(i)] BY <2>1 DEF Set
  <2> QED BY <2>7, <2>8, <2>9, OneConnection
<1> QED BY <1>8, <1>9

\* Steps that touch none of this.
LEMMA QuietKin ==
  ASSUME GatewayInv, NEW c \in Conns, NEW j, Set(c, j), events' = events,
         Kin(j, conn[c]), Units(j), j.phase = conn[c].phase
  PROVE  GatewayInv'
<1>1. Sound(j, events[c]) BY SamePhase DEF GatewayInv
<1> QED BY <1>1, QuietConnection

\* Steps that may report what an observer was fed with.
LEMMA ObservingKin ==
  ASSUME GatewayInv, NEW c \in Conns, NEW j, Set(c, j), NEW units \in Seq(Nat), NEW new,
         new = <<>> \/ new = ObservedUnits(c, units), Report(c, new), conn[c].phase \in Attached,
         Kin(j, conn[c]), Units(j), j.phase \in Attached \cup {"closed", "leaked"}
  PROVE  GatewayInv'
<1>1. Sound(conn[c], events[c]) BY DEF GatewayInv
<1>2. /\ ObservedUnits(c, units) \in Seq(Reports)
      /\ \A i \in DOMAIN ObservedUnits(c, units) : OwnReport(conn[c], ObservedUnits(c, units)[i])
  BY <1>1, ObservedFacts
<1>3. new \in Seq(Reports) /\ \A i \in DOMAIN new : OwnReport(conn[c], new[i])
  <2>1. CASE new = <<>> BY <2>1
  <2>2. CASE new = ObservedUnits(c, units) BY <1>2, <2>2
  <2> QED BY <2>1, <2>2
<1>4. Sound(conn[c], events[c] \o new) BY <1>1, <1>3, Reporting
<1>5. Sound(j, events[c] \o new) BY <1>4, LaterPhase
<1>6. events' = [events EXCEPT ![c] = events[c] \o new] BY DEF Report
<1>7. conn' = [conn EXCEPT ![c] = j] BY DEF Set
<1> QED BY <1>5, <1>6, <1>7, OneConnection

LEMMA OpenStep ==
  ASSUME GatewayInv, NEW c \in Conns, Open(c)
  PROVE  GatewayInv'
<1> DEFINE k == conn[c]
<1>1. Sound(k, events[c]) /\ k.phase = "connect" BY DEF GatewayInv, Open, At
<1>2. k.phase \in Attached /\ k.first \in Seq(Nat) BY <1>1 DEF Attached, Sound, Units
<1>3. CASE k.route \notin alive
  <2>1. Set(c, Closed(k)) /\ events' = events BY <1>3 DEF Open
  <2> QED BY <1>1, <2>1, ClosedSound, QuietConnection
<1>4. CASE k.route \in alive
  <2> DEFINE j == [k EXCEPT !.phase = "relay", !.got = k.first, !.first = <<>>]
  <2> DEFINE new == IF Asset(c) \in Capture THEN <<>> ELSE ObservedUnits(c, k.first)
  <2>1. Set(c, j) /\ Report(c, new) BY <1>4 DEF Open
  <2>2. Kin(j, k) BY <1>1 DEF Kin, Sound, Fits, Fields
  <2>3. j.phase = "relay" BY <1>1 DEF Sound, Fits, Fields
  <2>4. j.up = k.up /\ j.first = <<>> /\ j.sent = k.sent BY <1>1 DEF Sound, Fits, Fields
  <2>5. new = <<>> \/ new = ObservedUnits(c, k.first) OBVIOUS
  <2> HIDE DEF j, new
  <2>6. Units(j) BY <1>1, <2>4 DEF Sound, Units
  <2>7. j.phase \in Attached \cup {"closed", "leaked"} BY <2>3 DEF Attached
  <2> QED BY <1>2, <2>1, <2>2, <2>5, <2>6, <2>7, ObservingKin
<1> QED BY <1>3, <1>4

LEMMA FirstWriteFailsStep ==
  ASSUME GatewayInv, NEW c \in Conns, FirstWriteFails(c)
  PROVE  GatewayInv'
<1> DEFINE k == conn[c]
<1> DEFINE j == [k EXCEPT !.phase = "leaked", !.first = <<>>, !.cut = TRUE,
                          !.upDone = TRUE, !.downDone = TRUE]
<1> DEFINE new == IF Asset(c) \in Capture THEN <<>> ELSE ObservedUnits(c, k.first)
<1>1. Sound(k, events[c]) /\ k.phase = "connect" BY DEF GatewayInv, FirstWriteFails, At
<1>2. k.phase \in Attached /\ k.first \in Seq(Nat) BY <1>1 DEF Attached, Sound, Units
<1>3. Set(c, j) /\ Report(c, new) BY DEF FirstWriteFails
<1>4. Kin(j, k) BY <1>1 DEF Kin, Sound, Fits, Fields
<1>5. j.phase = "leaked" BY <1>1 DEF Sound, Fits, Fields
<1>6. j.up = k.up /\ j.first = <<>> /\ j.sent = k.sent BY <1>1 DEF Sound, Fits, Fields
<1>7. new = <<>> \/ new = ObservedUnits(c, k.first) OBVIOUS
<1> HIDE DEF j, new
<1>8. Units(j) BY <1>1, <1>6 DEF Sound, Units
<1>9. j.phase \in Attached \cup {"closed", "leaked"} BY <1>5
<1> QED BY <1>2, <1>3, <1>4, <1>7, <1>8, <1>9, ObservingKin

LEMMA PipeUpStep ==
  ASSUME GatewayInv, NEW c \in Conns, PipeUp(c)
  PROVE  GatewayInv'
<1> DEFINE k == conn[c]
<1>1. Sound(k, events[c]) /\ k.phase = "relay" BY DEF GatewayInv, PipeUp, At
<1>2. k.phase \in Attached /\ k.up \in Seq(Nat) BY <1>1 DEF Attached, Sound, Units
<1>3. Report(c, ObservedUnits(c, k.up)) BY DEF PipeUp
<1>4. ASSUME NEW j, Set(c, j), Kin(j, k), j.phase = k.phase,
             j.up = <<>> /\ j.first = k.first /\ j.sent = k.sent
      PROVE  GatewayInv'
  <2>1. Units(j) BY <1>1, <1>4 DEF Sound, Units
  <2>2. j.phase \in Attached \cup {"closed", "leaked"} BY <1>2, <1>4
  <2> QED BY <1>2, <1>3, <1>4, <2>1, <2>2, ObservingKin
<1>5. CASE Set(c, [k EXCEPT !.up = <<>>, !.got = @ \o k.up])
  <2> DEFINE j == [k EXCEPT !.up = <<>>, !.got = @ \o k.up]
  <2>1. Kin(j, k) BY <1>1 DEF Kin, Sound, Fits, Fields
  <2>2. j.phase = k.phase BY <1>1 DEF Sound, Fits, Fields
  <2>3. j.up = <<>> /\ j.first = k.first /\ j.sent = k.sent BY <1>1 DEF Sound, Fits, Fields
  <2>4. Set(c, j) BY <1>5
  <2> HIDE DEF j
  <2> QED BY <1>4, <2>1, <2>2, <2>3, <2>4
<1>6. CASE Set(c, [k EXCEPT !.up = <<>>])
  <2> DEFINE j == [k EXCEPT !.up = <<>>]
  <2>1. Kin(j, k) BY <1>1 DEF Kin, Sound, Fits, Fields
  <2>2. j.phase = k.phase BY <1>1 DEF Sound, Fits, Fields
  <2>3. j.up = <<>> /\ j.first = k.first /\ j.sent = k.sent BY <1>1 DEF Sound, Fits, Fields
  <2>4. Set(c, j) BY <1>6
  <2> HIDE DEF j
  <2> QED BY <1>4, <2>1, <2>2, <2>3, <2>4
<1>7. CASE Set(c, [k EXCEPT !.up = <<>>, !.upDone = TRUE, !.gotEnd = TRUE])
  <2> DEFINE j == [k EXCEPT !.up = <<>>, !.upDone = TRUE, !.gotEnd = TRUE]
  <2>1. Kin(j, k) BY <1>1 DEF Kin, Sound, Fits, Fields
  <2>2. j.phase = k.phase BY <1>1 DEF Sound, Fits, Fields
  <2>3. j.up = <<>> /\ j.first = k.first /\ j.sent = k.sent BY <1>1 DEF Sound, Fits, Fields
  <2>4. Set(c, j) BY <1>7
  <2> HIDE DEF j
  <2> QED BY <1>4, <2>1, <2>2, <2>3, <2>4
<1> QED BY <1>5, <1>6, <1>7 DEF PipeUp

LEMMA PipeUpEndsStep ==
  ASSUME GatewayInv, NEW c \in Conns, PipeUpEnds(c)
  PROVE  GatewayInv'
<1> DEFINE k == conn[c]
<1> DEFINE j == [k EXCEPT !.upDone = TRUE, !.gotEnd = TRUE]
<1>1. Sound(k, events[c]) BY DEF GatewayInv
<1>2. Set(c, j) /\ events' = events BY DEF PipeUpEnds
<1>3. Kin(j, k) BY <1>1 DEF Kin, Sound, Fits, Fields
<1>4. j.phase = k.phase BY <1>1 DEF Sound, Fits, Fields
<1>5. j.up = k.up /\ j.first = k.first /\ j.sent = k.sent BY <1>1 DEF Sound, Fits, Fields
<1> HIDE DEF j
<1>6. Units(j) BY <1>1, <1>5 DEF Sound, Units
<1> QED BY <1>1, <1>2, <1>3, <1>4, <1>6, QuietKin

LEMMA PipeDownStep ==
  ASSUME GatewayInv, NEW c \in Conns, PipeDown(c)
  PROVE  GatewayInv'
<1> DEFINE k == conn[c]
<1>1. Sound(k, events[c]) /\ events' = events BY DEF GatewayInv, PipeDown
<1>2. ASSUME NEW j, Set(c, j), Kin(j, k), j.phase = k.phase,
             j.up = k.up /\ j.first = k.first /\ j.sent = k.sent
      PROVE  GatewayInv'
  <2>1. Units(j) BY <1>1, <1>2 DEF Sound, Units
  <2> QED BY <1>1, <1>2, <2>1, QuietKin
<1>3. CASE Set(c, [k EXCEPT !.down = <<>>, !.rcvd = @ \o k.down])
  <2> DEFINE j == [k EXCEPT !.down = <<>>, !.rcvd = @ \o k.down]
  <2>1. Kin(j, k) BY <1>1 DEF Kin, Sound, Fits, Fields
  <2>2. j.phase = k.phase BY <1>1 DEF Sound, Fits, Fields
  <2>3. j.up = k.up /\ j.first = k.first /\ j.sent = k.sent BY <1>1 DEF Sound, Fits, Fields
  <2>4. Set(c, j) BY <1>3
  <2> HIDE DEF j
  <2> QED BY <1>2, <2>1, <2>2, <2>3, <2>4
<1>4. CASE Set(c, [k EXCEPT !.down = <<>>])
  <2> DEFINE j == [k EXCEPT !.down = <<>>]
  <2>1. Kin(j, k) BY <1>1 DEF Kin, Sound, Fits, Fields
  <2>2. j.phase = k.phase BY <1>1 DEF Sound, Fits, Fields
  <2>3. j.up = k.up /\ j.first = k.first /\ j.sent = k.sent BY <1>1 DEF Sound, Fits, Fields
  <2>4. Set(c, j) BY <1>4
  <2> HIDE DEF j
  <2> QED BY <1>2, <2>1, <2>2, <2>3, <2>4
<1>5. CASE Set(c, [k EXCEPT !.down = <<>>, !.downDone = TRUE, !.rcvdEnd = TRUE])
  <2> DEFINE j == [k EXCEPT !.down = <<>>, !.downDone = TRUE, !.rcvdEnd = TRUE]
  <2>1. Kin(j, k) BY <1>1 DEF Kin, Sound, Fits, Fields
  <2>2. j.phase = k.phase BY <1>1 DEF Sound, Fits, Fields
  <2>3. j.up = k.up /\ j.first = k.first /\ j.sent = k.sent BY <1>1 DEF Sound, Fits, Fields
  <2>4. Set(c, j) BY <1>5
  <2> HIDE DEF j
  <2> QED BY <1>2, <2>1, <2>2, <2>3, <2>4
<1> QED BY <1>3, <1>4, <1>5 DEF PipeDown

LEMMA PipeDownEndsStep ==
  ASSUME GatewayInv, NEW c \in Conns, PipeDownEnds(c)
  PROVE  GatewayInv'
<1> DEFINE k == conn[c]
<1> DEFINE j == [k EXCEPT !.downDone = TRUE, !.rcvdEnd = TRUE]
<1>1. Sound(k, events[c]) BY DEF GatewayInv
<1>2. Set(c, j) /\ events' = events BY DEF PipeDownEnds
<1>3. Kin(j, k) BY <1>1 DEF Kin, Sound, Fits, Fields
<1>4. j.phase = k.phase BY <1>1 DEF Sound, Fits, Fields
<1>5. j.up = k.up /\ j.first = k.first /\ j.sent = k.sent BY <1>1 DEF Sound, Fits, Fields
<1> HIDE DEF j
<1>6. Units(j) BY <1>1, <1>5 DEF Sound, Units
<1> QED BY <1>1, <1>2, <1>3, <1>4, <1>6, QuietKin

LEMMA HandlerEndsStep ==
  ASSUME GatewayInv, NEW c \in Conns, HandlerEnds(c)
  PROVE  GatewayInv'
<1>1. Sound(conn[c], events[c]) BY DEF GatewayInv
<1>2. Set(c, Closed(conn[c])) /\ events' = events BY DEF HandlerEnds
<1> QED BY <1>1, <1>2, ClosedSound, QuietConnection

LEMMA ClientWritesStep ==
  ASSUME GatewayInv, NEW c \in Conns, ClientWrites(c)
  PROVE  GatewayInv'
<1> DEFINE k == conn[c]
<1> DEFINE j == [k EXCEPT !.sent = @ + 1, !.up = Append(@, k.sent + 1)]
<1>1. Sound(k, events[c]) BY DEF GatewayInv
<1>2. Set(c, j) /\ events' = events BY DEF ClientWrites
<1>3. Kin(j, k) BY <1>1 DEF Kin, Sound, Fits, Fields
<1>4. j.phase = k.phase BY <1>1 DEF Sound, Fits, Fields
<1>5. j.up = Append(k.up, k.sent + 1) /\ j.first = k.first /\ j.sent = k.sent + 1
  BY <1>1 DEF Sound, Fits, Fields
<1> HIDE DEF j
<1>6. Units(j) BY <1>1, <1>5 DEF Sound, Units
<1> QED BY <1>1, <1>2, <1>3, <1>4, <1>6, QuietKin

LEMMA ClientFinishesStep ==
  ASSUME GatewayInv, NEW c \in Conns, ClientFinishes(c)
  PROVE  GatewayInv'
<1> DEFINE k == conn[c]
<1> DEFINE j == [k EXCEPT !.fin = TRUE]
<1>1. Sound(k, events[c]) BY DEF GatewayInv
<1>2. Set(c, j) /\ events' = events BY DEF ClientFinishes
<1>3. Kin(j, k) BY <1>1 DEF Kin, Sound, Fits, Fields
<1>4. j.phase = k.phase BY <1>1 DEF Sound, Fits, Fields
<1>5. j.up = k.up /\ j.first = k.first /\ j.sent = k.sent BY <1>1 DEF Sound, Fits, Fields
<1> HIDE DEF j
<1>6. Units(j) BY <1>1, <1>5 DEF Sound, Units
<1> QED BY <1>1, <1>2, <1>3, <1>4, <1>6, QuietKin

LEMMA ClientResetsStep ==
  ASSUME GatewayInv, NEW c \in Conns, ClientResets(c)
  PROVE  GatewayInv'
<1> DEFINE k == conn[c]
<1> DEFINE j == [k EXCEPT !.gone = TRUE, !.up = <<>>]
<1>1. Sound(k, events[c]) BY DEF GatewayInv
<1>2. Set(c, j) /\ events' = events BY DEF ClientResets
<1>3. Kin(j, k) BY <1>1 DEF Kin, Sound, Fits, Fields
<1>4. j.phase = k.phase BY <1>1 DEF Sound, Fits, Fields
<1>5. j.up = <<>> /\ j.first = k.first /\ j.sent = k.sent BY <1>1 DEF Sound, Fits, Fields
<1> HIDE DEF j
<1>6. Units(j) BY <1>1, <1>5 DEF Sound, Units
<1> QED BY <1>1, <1>2, <1>3, <1>4, <1>6, QuietKin

LEMMA BackendWritesStep ==
  ASSUME GatewayInv, NEW c \in Conns, BackendWrites(c)
  PROVE  GatewayInv'
<1> DEFINE k == conn[c]
<1> DEFINE j == [k EXCEPT !.back = @ + 1, !.down = Append(@, k.back + 1)]
<1>1. Sound(k, events[c]) BY DEF GatewayInv
<1>2. Set(c, j) /\ events' = events BY DEF BackendWrites
<1>3. Kin(j, k) BY <1>1 DEF Kin, Sound, Fits, Fields
<1>4. j.phase = k.phase BY <1>1 DEF Sound, Fits, Fields
<1>5. j.up = k.up /\ j.first = k.first /\ j.sent = k.sent BY <1>1 DEF Sound, Fits, Fields
<1> HIDE DEF j
<1>6. Units(j) BY <1>1, <1>5 DEF Sound, Units
<1> QED BY <1>1, <1>2, <1>3, <1>4, <1>6, QuietKin

LEMMA BackendFinishesStep ==
  ASSUME GatewayInv, NEW c \in Conns, BackendFinishes(c)
  PROVE  GatewayInv'
<1> DEFINE k == conn[c]
<1> DEFINE j == [k EXCEPT !.bfin = TRUE]
<1>1. Sound(k, events[c]) BY DEF GatewayInv
<1>2. Set(c, j) /\ events' = events BY DEF BackendFinishes
<1>3. Kin(j, k) BY <1>1 DEF Kin, Sound, Fits, Fields
<1>4. j.phase = k.phase BY <1>1 DEF Sound, Fits, Fields
<1>5. j.up = k.up /\ j.first = k.first /\ j.sent = k.sent BY <1>1 DEF Sound, Fits, Fields
<1> HIDE DEF j
<1>6. Units(j) BY <1>1, <1>5 DEF Sound, Units
<1> QED BY <1>1, <1>2, <1>3, <1>4, <1>6, QuietKin

LEMMA BackendStopsStep ==
  ASSUME GatewayInv, NEW r \in Backends, BackendStops(r)
  PROVE  GatewayInv'
<1> DEFINE Cut(c) == IF At(c, "relay") /\ conn[c].route = r THEN [conn[c] EXCEPT !.cut = TRUE]
                                                          ELSE conn[c]
<1>1. conn' = [c \in Conns |-> Cut(c)] /\ events' = events BY DEF BackendStops
<1>2. ASSUME NEW c \in Conns PROVE Sound(Cut(c), events[c])
  <2> DEFINE k == conn[c]
  <2> DEFINE j == [k EXCEPT !.cut = TRUE]
  <2>1. Sound(k, events[c]) BY DEF GatewayInv
  <2>2. Kin(j, k) BY <2>1 DEF Kin, Sound, Fits, Fields
  <2>3. j.phase = k.phase BY <2>1 DEF Sound, Fits, Fields
  <2>4. j.up = k.up /\ j.first = k.first /\ j.sent = k.sent BY <2>1 DEF Sound, Fits, Fields
  <2>5. Cut(c) = j \/ Cut(c) = k OBVIOUS
  <2> HIDE DEF j, Cut
  <2>6. Units(j) BY <2>1, <2>4 DEF Sound, Units
  <2>7. Sound(j, events[c]) BY <2>1, <2>2, <2>3, <2>6, SamePhase
  <2> QED BY <2>1, <2>5, <2>7
<1> HIDE DEF Cut
<1>3. \A c \in Conns : Sound(conn'[c], events'[c]) BY <1>1, <1>2
<1>4. conn' = [c \in Conns |-> conn'[c]] BY <1>1
<1>5. events' = [c \in Conns |-> events'[c]] BY <1>1 DEF GatewayInv
<1> QED BY <1>3, <1>4, <1>5 DEF GatewayInv

-------------------------------------------------------------------------------
(* Theorems.                                                                 *)

LEMMA GatewayInit == Init => GatewayInv
<1> SUFFICES ASSUME Init PROVE GatewayInv OBVIOUS
<1>1. conn = [c \in Conns |-> Idle] /\ events = [c \in Conns |-> <<>>] BY DEF Init
<1>2. Fits(Idle) BY DEF Fits, Fields, Idle
<1>3. Idle.up = <<>> /\ Idle.first = <<>> /\ Idle.sent = 0 BY DEF Idle
<1>4. Idle.phase = "idle" /\ Idle.route = NoRoute BY DEF Idle
<1>5. Units(Idle) BY <1>3 DEF Units
<1>6. Sound(Idle, <<>>) BY <1>2, <1>4, <1>5 DEF Sound, Attribution, Attached
<1> QED BY <1>1, <1>6 DEF GatewayInv

LEMMA GatewayNext ==
  ASSUME GatewayInv, [Next]_vars
  PROVE  GatewayInv'
<1>1. ASSUME NEW c \in Conns, Handler(c) PROVE GatewayInv'
  BY <1>1, RouteStep, PeekStep, OpenStep, PipeUpStep, PipeUpEndsStep, PipeDownStep,
     PipeDownEndsStep, HandlerEndsStep DEF Handler
<1>2. ASSUME NEW c \in Conns, FirstWriteFails(c) PROVE GatewayInv' BY <1>2, FirstWriteFailsStep
<1>3. ASSUME NEW c \in Conns, NEW client \in Clients, NEW p \in Ports, NEW login \in Logins,
             Connect(c, client, p, login)
      PROVE  GatewayInv'
  BY <1>3, ConnectStep
<1>4. ASSUME NEW c \in Conns, ClientWrites(c) \/ ClientFinishes(c) \/ ClientResets(c)
      PROVE  GatewayInv'
  BY <1>4, ClientWritesStep, ClientFinishesStep, ClientResetsStep
<1>5. ASSUME NEW c \in Conns, BackendWrites(c) \/ BackendFinishes(c) PROVE GatewayInv'
  BY <1>5, BackendWritesStep, BackendFinishesStep
<1>6. ASSUME NEW r \in Backends, BackendStops(r) PROVE GatewayInv' BY <1>6, BackendStopsStep
<1>7. CASE \E b \in Bindings, x \in Assets : WriteRoute(b, x)
  BY <1>7 DEF WriteRoute, GatewayInv
<1>8. CASE UNCHANGED vars BY <1>8 DEF vars, GatewayInv
<1> QED BY <1>1, <1>2, <1>3, <1>4, <1>5, <1>6, <1>7, <1>8 DEF Next

\* Connections keep the route they were given, and all that was reported of one
\* is about that route, for any table, clients, ports and faults.
THEOREM GatewayInvariant == Spec => []GatewayInv
<1>1. GatewayInv /\ [Next]_vars => GatewayInv' BY GatewayNext
<1> QED BY GatewayInit, <1>1, PTL DEF Spec

\* A connection leads to its own attacker's backend of its port, or under the
\* fallback to the only one the port has, and all its events say so: the selection
\* of app.py is read once, and reports are made from what was selected.
THEOREM RightAttackerTheorem == Spec => []RightAttacker
<1>1. GatewayInv => RightAttacker
  <2> SUFFICES ASSUME GatewayInv, NEW c \in Conns, conn[c].route # NoRoute
               PROVE  /\ Port[Asset(c)] = conn[c].port
                      /\ Key(conn[c].route) = conn[c].client \/ (Fallback /\ conn[c].alone)
                      /\ \A i \in DOMAIN events[c] :
                           events[c][i].attacker = Key(conn[c].route) /\ events[c][i].asset = Asset(c)
    BY DEF RightAttacker
  <2>1. Sound(conn[c], events[c]) BY DEF GatewayInv
  <2> QED BY <2>1 DEF Sound, Attribution, Asset, Key
<1> QED BY <1>1, GatewayInvariant, PTL

-------------------------------------------------------------------------------
(* The two streams of a connection, as Tunnel sees them.                     *)

Directions == {"up", "down"}
SentOf(k, d) == IF d = "up" THEN k.sent ELSE k.back
EndedOf(k, d) == IF d = "up" THEN k.fin ELSE k.bfin
GotOf(k, d) == IF d = "up" THEN k.got ELSE k.rcvd
ClosedOf(k, d) == IF d = "up" THEN k.gotEnd ELSE k.rcvdEnd
LostOf(k) == k.gone \/ k.cut \/ (k.phase = "closed" /\ k.got = <<>> /\ k.back = 0)

sentView == [s \in Streams |-> SentOf(conn[s[1]], s[2])]
endedView == [s \in Streams |-> EndedOf(conn[s[1]], s[2])]
gotView == [s \in Streams |-> GotOf(conn[s[1]], s[2])]
closedView == [s \in Streams |-> ClosedOf(conn[s[1]], s[2])]
brokenView == [s \in Streams |-> LostOf(conn[s[1]])]

LEMMA ViewsAre ==
  /\ TunnelView!vars = <<sentView, endedView, gotView, closedView, brokenView>>
  /\ TunnelView!Init <=>
       /\ sentView = [s \in Streams |-> 0] /\ endedView = [s \in Streams |-> FALSE]
       /\ gotView = [s \in Streams |-> <<>>] /\ closedView = [s \in Streams |-> FALSE]
       /\ brokenView = [s \in Streams |-> FALSE]
BY DEF TunnelView!vars, TunnelView!Init, sentView, endedView, gotView, closedView, brokenView,
       SentOf, EndedOf, GotOf, ClosedOf, LostOf, Lost, Refused

\* A step of one connection changes the views of its own streams.
Streaming(c, j) ==
  /\ conn' = [d \in Conns |-> IF d = c THEN j ELSE conn[d]]
  /\ \A e \in Conns : conn[e].gotEnd \in BOOLEAN /\ conn[e].rcvdEnd \in BOOLEAN
SameSent(j, k) == \A d \in Directions : SentOf(j, d) = SentOf(k, d)
SameEnded(j, k) == \A d \in Directions : EndedOf(j, d) = EndedOf(k, d)
SameGot(j, k) == \A d \in Directions : GotOf(j, d) = GotOf(k, d)
SameClosed(j, k) == \A d \in Directions : ClosedOf(j, d) = ClosedOf(k, d)
SameLost(j, k) == LostOf(j) = LostOf(k)

LEMMA StreamFacts ==
  ASSUME NEW s \in Streams PROVE s[1] \in Conns /\ s[2] \in Directions /\ s = <<s[1], s[2]>>
BY DEF Streams, Directions

LEMMA SentMoves ==
  ASSUME NEW c \in Conns, NEW j, Streaming(c, j)
  PROVE  sentView' = [s \in Streams |-> IF s[1] = c THEN SentOf(j, s[2]) ELSE sentView[s]]
BY StreamFacts DEF sentView, Streaming
LEMMA EndedMoves ==
  ASSUME NEW c \in Conns, NEW j, Streaming(c, j)
  PROVE  endedView' = [s \in Streams |-> IF s[1] = c THEN EndedOf(j, s[2]) ELSE endedView[s]]
BY StreamFacts DEF endedView, Streaming
LEMMA GotMoves ==
  ASSUME NEW c \in Conns, NEW j, Streaming(c, j)
  PROVE  gotView' = [s \in Streams |-> IF s[1] = c THEN GotOf(j, s[2]) ELSE gotView[s]]
BY StreamFacts DEF gotView, Streaming
LEMMA ClosedMoves ==
  ASSUME NEW c \in Conns, NEW j, Streaming(c, j)
  PROVE  closedView' = [s \in Streams |-> IF s[1] = c THEN ClosedOf(j, s[2]) ELSE closedView[s]]
BY StreamFacts DEF closedView, Streaming
LEMMA BrokenMoves ==
  ASSUME NEW c \in Conns, NEW j, Streaming(c, j)
  PROVE  brokenView' = [s \in Streams |-> IF s[1] = c THEN LostOf(j) ELSE brokenView[s]]
BY StreamFacts DEF brokenView, Streaming

LEMMA SameViews ==
  ASSUME NEW c \in Conns, NEW j, Streaming(c, j)
  PROVE  /\ SameSent(j, conn[c]) => sentView' = sentView
         /\ SameEnded(j, conn[c]) => endedView' = endedView
         /\ SameGot(j, conn[c]) => gotView' = gotView
         /\ SameClosed(j, conn[c]) => closedView' = closedView
         /\ SameLost(j, conn[c]) => brokenView' = brokenView
<1>1. SameSent(j, conn[c]) => sentView' = sentView
  BY SentMoves, StreamFacts DEF SameSent, sentView
<1>2. SameEnded(j, conn[c]) => endedView' = endedView
  BY EndedMoves, StreamFacts DEF SameEnded, endedView
<1>3. SameGot(j, conn[c]) => gotView' = gotView
  BY GotMoves, StreamFacts DEF SameGot, gotView
<1>4. SameClosed(j, conn[c]) => closedView' = closedView
  BY ClosedMoves, StreamFacts DEF SameClosed, closedView
<1>5. SameLost(j, conn[c]) => brokenView' = brokenView
  BY BrokenMoves, StreamFacts DEF SameLost, brokenView
<1> QED BY <1>1, <1>2, <1>3, <1>4, <1>5

Stutters == UNCHANGED <<sentView, endedView, gotView, closedView, brokenView>>
TunnelStep == TunnelView!Next \/ Stutters

LEMMA NothingSeen ==
  ASSUME NEW c \in Conns, NEW j, Streaming(c, j), SameSent(j, conn[c]), SameEnded(j, conn[c]),
         SameGot(j, conn[c]), SameClosed(j, conn[c]), SameLost(j, conn[c])
  PROVE  TunnelStep
BY SameViews DEF Stutters, TunnelStep

LEMMA WriteSeen ==
  ASSUME NEW c \in Conns, NEW j, NEW d \in Directions, Streaming(c, j), ~EndedOf(conn[c], d),
         \A e \in Directions : SentOf(j, e) = SentOf(conn[c], e) + (IF e = d THEN 1 ELSE 0),
         SentOf(conn[c], "up") \in Nat, SentOf(conn[c], "down") \in Nat,
         SameEnded(j, conn[c]), SameGot(j, conn[c]), SameClosed(j, conn[c]), SameLost(j, conn[c])
  PROVE  TunnelStep
<1> DEFINE x == <<c, d>>
<1>1. x \in Streams BY DEF Streams, Directions
<1>2. TunnelView!Write(x) <=>
        /\ ~endedView[x]
        /\ sentView' = [sentView EXCEPT ![x] = @ + 1]
        /\ UNCHANGED <<endedView, gotView, closedView, brokenView>>
  BY DEF TunnelView!Write, sentView, endedView, gotView, closedView, brokenView,
         SentOf, EndedOf, GotOf, ClosedOf, LostOf, Lost, Refused
<1>3. ~endedView[x] BY <1>1 DEF endedView
<1>4. sentView' = [sentView EXCEPT ![x] = @ + 1]
  <2>1. ASSUME NEW s \in Streams
        PROVE  (IF s[1] = c THEN SentOf(j, s[2]) ELSE sentView[s]) = [sentView EXCEPT ![x] = @ + 1][s]
    <3>1. s[2] \in Directions /\ s = <<s[1], s[2]>> /\ SentOf(conn[c], s[2]) \in Nat
      BY StreamFacts DEF Directions
    <3>2. sentView = [t \in Streams |-> sentView[t]] /\ sentView[s] = SentOf(conn[s[1]], s[2])
      BY DEF sentView
    <3> QED BY <1>1, <3>1, <3>2
  <2>2. DOMAIN sentView = Streams BY DEF sentView
  <2> QED BY <2>1, <2>2, SentMoves
<1>5. TunnelView!Write(x) BY <1>2, <1>3, <1>4, SameViews
<1> QED BY <1>1, <1>5 DEF TunnelView!Next, TunnelStep

LEMMA FinishSeen ==
  ASSUME NEW c \in Conns, NEW j, NEW d \in Directions, Streaming(c, j),
         EndedOf(j, d) = TRUE, \A e \in Directions : e # d => EndedOf(j, e) = EndedOf(conn[c], e),
         SameSent(j, conn[c]), SameGot(j, conn[c]), SameClosed(j, conn[c]), SameLost(j, conn[c])
  PROVE  TunnelStep
<1> DEFINE x == <<c, d>>
<1>1. x \in Streams BY DEF Streams, Directions
<1>2. TunnelView!Finish(x) <=>
        /\ endedView' = [endedView EXCEPT ![x] = TRUE]
        /\ UNCHANGED <<sentView, gotView, closedView, brokenView>>
  BY DEF TunnelView!Finish, sentView, endedView, gotView, closedView, brokenView,
         SentOf, EndedOf, GotOf, ClosedOf, LostOf, Lost, Refused
<1>4. endedView' = [endedView EXCEPT ![x] = TRUE]
  <2> DEFINE now(s) == IF s[1] = c THEN EndedOf(j, s[2]) ELSE endedView[s]
             yes == TRUE
  <2>1. now(x) = yes OBVIOUS
  <2> HIDE DEF yes
  <2>2. ASSUME NEW s \in Streams, s # x PROVE now(s) = endedView[s]
    <3>1. s[2] \in Directions /\ s = <<s[1], s[2]>>
      BY StreamFacts
    <3>2. endedView[s] = EndedOf(conn[s[1]], s[2])
      BY DEF endedView
    <3> HIDE DEF endedView
    <3>3. CASE s[1] = c
      <4>1. s[2] # d BY <2>2, <3>1, <3>3
      <4> QED BY <3>1, <3>2, <3>3, <4>1
    <3>4. CASE s[1] # c BY <3>4
    <3> QED BY <3>3, <3>4
  <2>3. endedView' = [s \in Streams |-> now(s)] BY EndedMoves
  <2>4. endedView = [s \in Streams |-> endedView[s]] BY DEF endedView
  <2> HIDE DEF now
  <2>5. endedView' = [endedView EXCEPT ![x] = yes] BY <1>1, <2>1, <2>2, <2>3, <2>4
  <2> QED BY <2>5 DEF yes
<1>5. TunnelView!Finish(x) BY <1>2, <1>4, SameViews
<1> QED BY <1>1, <1>5 DEF TunnelView!Next, TunnelStep

LEMMA DeliverSeen ==
  ASSUME NEW c \in Conns, NEW j, NEW d \in Directions, Streaming(c, j), ~ClosedOf(conn[c], d),
         NEW n \in Len(GotOf(conn[c], d)) + 1 .. SentOf(conn[c], d),
         \A e \in Directions : GotOf(j, e) = IF e = d THEN [i \in 1..n |-> i] ELSE GotOf(conn[c], e),
         SameSent(j, conn[c]), SameEnded(j, conn[c]), SameClosed(j, conn[c]), SameLost(j, conn[c])
  PROVE  TunnelStep
<1> DEFINE x == <<c, d>>
<1>1. x \in Streams BY DEF Streams, Directions
<1>2. TunnelView!Deliver(x) <=>
        /\ ~closedView[x]
        /\ \E m \in Len(gotView[x]) + 1 .. sentView[x] : gotView' = [gotView EXCEPT ![x] = [i \in 1..m |-> i]]
        /\ UNCHANGED <<sentView, endedView, closedView, brokenView>>
  BY DEF TunnelView!Deliver, sentView, endedView, gotView, closedView, brokenView,
         SentOf, EndedOf, GotOf, ClosedOf, LostOf, Lost, Refused
<1>3. ~closedView[x] /\ n \in Len(gotView[x]) + 1 .. sentView[x]
  BY <1>1 DEF closedView, gotView, sentView
<1>4. gotView' = [gotView EXCEPT ![x] = [i \in 1..n |-> i]]
  <2> DEFINE q == [i \in 1..n |-> i]
  <2> HIDE DEF q
  <2>1. ASSUME NEW s \in Streams
        PROVE  (IF s[1] = c THEN GotOf(j, s[2]) ELSE gotView[s]) = [gotView EXCEPT ![x] = q][s]
    <3>1. s[2] \in Directions /\ s = <<s[1], s[2]>>
      BY StreamFacts
    <3>2. gotView = [t \in Streams |-> gotView[t]] /\ gotView[s] = GotOf(conn[s[1]], s[2])
      BY DEF gotView
    <3>3. \A e \in Directions : GotOf(j, e) = IF e = d THEN q ELSE GotOf(conn[c], e)
      BY DEF q
    <3> QED BY <1>1, <3>1, <3>2, <3>3
  <2>2. DOMAIN gotView = Streams BY DEF gotView
  <2>3. gotView' = [gotView EXCEPT ![x] = q] BY <2>1, <2>2, GotMoves
  <2> QED BY <2>3 DEF q
<1>5. TunnelView!Deliver(x) BY <1>2, <1>3, <1>4, SameViews
<1> QED BY <1>1, <1>5 DEF TunnelView!Next, TunnelStep

LEMMA EndSeen ==
  ASSUME NEW c \in Conns, NEW j, NEW d \in Directions, Streaming(c, j),
         LostOf(conn[c]) \/ (EndedOf(conn[c], d) /\ Len(GotOf(conn[c], d)) = SentOf(conn[c], d)),
         ClosedOf(j, d) = TRUE, \A e \in Directions : e # d => ClosedOf(j, e) = ClosedOf(conn[c], e),
         SameSent(j, conn[c]), SameEnded(j, conn[c]), SameGot(j, conn[c]), SameLost(j, conn[c])
  PROVE  TunnelStep
<1> DEFINE x == <<c, d>>
<1>1. x \in Streams BY DEF Streams, Directions
<1>2. TunnelView!DeliverEnd(x) <=>
        /\ brokenView[x] \/ (endedView[x] /\ Len(gotView[x]) = sentView[x])
        /\ closedView' = [closedView EXCEPT ![x] = TRUE]
        /\ UNCHANGED <<sentView, endedView, gotView, brokenView>>
  BY DEF TunnelView!DeliverEnd, sentView, endedView, gotView, closedView, brokenView,
         SentOf, EndedOf, GotOf, ClosedOf, LostOf, Lost, Refused
<1>3. brokenView[x] \/ (endedView[x] /\ Len(gotView[x]) = sentView[x])
  BY <1>1 DEF brokenView, endedView, gotView, sentView
<1>4. closedView' = [closedView EXCEPT ![x] = TRUE]
  <2> DEFINE now(s) == IF s[1] = c THEN ClosedOf(j, s[2]) ELSE closedView[s]
             yes == TRUE
  <2>1. now(x) = yes OBVIOUS
  <2> HIDE DEF yes
  <2>2. ASSUME NEW s \in Streams, s # x PROVE now(s) = closedView[s]
    <3>1. s[2] \in Directions /\ s = <<s[1], s[2]>>
      BY StreamFacts
    <3>2. closedView[s] = ClosedOf(conn[s[1]], s[2])
      BY DEF closedView
    <3> HIDE DEF closedView
    <3>3. CASE s[1] = c
      <4>1. s[2] # d BY <2>2, <3>1, <3>3
      <4> QED BY <3>1, <3>2, <3>3, <4>1
    <3>4. CASE s[1] # c BY <3>4
    <3> QED BY <3>3, <3>4
  <2>3. closedView' = [s \in Streams |-> now(s)] BY ClosedMoves
  <2>4. closedView = [s \in Streams |-> closedView[s]] BY DEF closedView
  <2> HIDE DEF now
  <2>5. closedView' = [closedView EXCEPT ![x] = yes] BY <1>1, <2>1, <2>2, <2>3, <2>4
  <2> QED BY <2>5 DEF yes
<1>5. TunnelView!DeliverEnd(x) BY <1>2, <1>3, <1>4, SameViews
<1> QED BY <1>1, <1>5 DEF TunnelView!Next, TunnelStep

\* Both streams of a connection break, and both ends may notice.
LEMMA BreakSeen ==
  ASSUME NEW c \in Conns, NEW j, Streaming(c, j), LostOf(j) = TRUE,
         \/ SameClosed(j, conn[c])
         \/ \A d \in Directions : ClosedOf(j, d) = TRUE,
         SameSent(j, conn[c]), SameEnded(j, conn[c]), SameGot(j, conn[c])
  PROVE  TunnelStep
<1> DEFINE S == {c} \X Directions
<1>1. S \in SUBSET Streams BY DEF Streams, Directions
<1>2. TunnelView!Break(S) <=>
        /\ brokenView' = [s \in Streams |-> brokenView[s] \/ s \in S]
        /\ \E T \in SUBSET S : closedView' = [s \in Streams |-> closedView[s] \/ s \in T]
        /\ UNCHANGED <<sentView, endedView, gotView>>
  BY DEF TunnelView!Break, sentView, endedView, gotView, closedView, brokenView,
         SentOf, EndedOf, GotOf, ClosedOf, LostOf, Lost, Refused
<1>3. brokenView' = [s \in Streams |-> brokenView[s] \/ s \in S]
  <2>1. ASSUME NEW s \in Streams
        PROVE  (IF s[1] = c THEN LostOf(j) ELSE brokenView[s]) = (brokenView[s] \/ s \in S)
    <3>1. s \in S <=> s[1] = c BY StreamFacts
    <3>2. brokenView[s] \in BOOLEAN BY DEF brokenView, LostOf
    <3> QED BY <3>1, <3>2
  <2> QED BY <2>1, BrokenMoves
<1>4. ASSUME NEW s \in Streams PROVE closedView[s] \in BOOLEAN
  BY <1>4, StreamFacts DEF closedView, ClosedOf, Directions, Streaming
<1>5. CASE SameClosed(j, conn[c])
  <2>1. closedView' = closedView BY <1>5, SameViews
  <2>2. closedView = [s \in Streams |-> closedView[s] \/ s \in {}] BY <1>4 DEF closedView
  <2>3. {} \in SUBSET S OBVIOUS
  <2>4. TunnelView!Break(S) BY <1>2, <1>3, <2>1, <2>2, <2>3, SameViews
  <2> QED BY <1>1, <2>4 DEF TunnelView!Next, TunnelStep
<1>6. CASE \A d \in Directions : ClosedOf(j, d) = TRUE
  <2>1. ASSUME NEW s \in Streams
        PROVE  (IF s[1] = c THEN ClosedOf(j, s[2]) ELSE closedView[s]) = (closedView[s] \/ s \in S)
    <3>1. (s \in S <=> s[1] = c) /\ s[2] \in Directions BY StreamFacts
    <3>2. closedView[s] \in BOOLEAN BY <1>4
    <3> QED BY <1>6, <3>1, <3>2
  <2>2. closedView' = [s \in Streams |-> closedView[s] \/ s \in S] BY <2>1, ClosedMoves
  <2>3. S \in SUBSET S OBVIOUS
  <2>4. TunnelView!Break(S) BY <1>2, <1>3, <2>2, <2>3, SameViews
  <2> QED BY <1>1, <2>4 DEF TunnelView!Next, TunnelStep
<1> QED BY <1>5, <1>6

-------------------------------------------------------------------------------
(* What a connection carries.  Units are numbered, and what the gateway has  *)
(* read follows on what the other end has.                                   *)

Numbered(q, m) == \A i \in DOMAIN q : q[i] = m + i

LEMMA Empty == <<>> \in Seq(Nat) /\ Len(<<>>) = 0 /\ \A m : Numbered(<<>>, m)
BY DEF Numbered
LEMMA NumberedAppend ==
  ASSUME NEW q \in Seq(Nat), NEW m \in Nat, Numbered(q, m)
  PROVE  /\ Append(q, m + Len(q) + 1) \in Seq(Nat)
         /\ Len(Append(q, m + Len(q) + 1)) = Len(q) + 1
         /\ Numbered(Append(q, m + Len(q) + 1), m)
BY DEF Numbered
LEMMA NumberedConcat ==
  ASSUME NEW p \in Seq(Nat), NEW q \in Seq(Nat), NEW m \in Nat, Numbered(p, m), Numbered(q, m + Len(p))
  PROVE  /\ p \o q \in Seq(Nat)
         /\ Len(p \o q) = Len(p) + Len(q)
         /\ Numbered(p \o q, m)
<1>1. p \o q \in Seq(Nat) /\ Len(p \o q) = Len(p) + Len(q) OBVIOUS
<1>2. ASSUME NEW i \in DOMAIN (p \o q) PROVE (p \o q)[i] = m + i
  <2>1. i \in 1..(Len(p) + Len(q)) BY <1>1
  <2>2. CASE i <= Len(p)
    <3>1. i \in DOMAIN p /\ (p \o q)[i] = p[i] BY <2>1, <2>2
    <3> QED BY <3>1 DEF Numbered
  <2>3. CASE i > Len(p)
    <3>1. i - Len(p) \in DOMAIN q /\ (p \o q)[i] = q[i - Len(p)] BY <2>1, <2>3
    <3>2. q[i - Len(p)] = (m + Len(p)) + (i - Len(p)) BY <3>1 DEF Numbered
    <3> QED BY <2>1, <3>1, <3>2
  <2> QED BY <2>1, <2>2, <2>3
<1> QED BY <1>1, <1>2 DEF Numbered
LEMMA NumberedIs ==
  ASSUME NEW q \in Seq(Nat), Numbered(q, 0)
  PROVE  q = [i \in 1..Len(q) |-> i]
BY DEF Numbered

Buffers(k) ==
  /\ k.got \in Seq(Nat) /\ k.rcvd \in Seq(Nat) /\ k.down \in Seq(Nat) /\ k.back \in Nat
  /\ k.gotEnd \in BOOLEAN /\ k.rcvdEnd \in BOOLEAN
Unconnected(k) ==
  /\ k.phase \in {"accepted", "peek"} => k.first = <<>>
  /\ k.phase \in {"accepted", "peek", "connect"} =>
       /\ k.got = <<>> /\ k.rcvd = <<>> /\ k.down = <<>> /\ k.back = 0
       /\ ~k.gotEnd /\ ~k.rcvdEnd /\ ~k.cut
Flags(k) ==
  /\ k.phase \in {"accepted", "peek", "connect"} => ~k.upDone /\ ~k.downDone
  /\ k.phase = "relay" => k.first = <<>> /\ (k.gotEnd <=> k.upDone) /\ (k.rcvdEnd <=> k.downDone)
UpStream(k) ==
  /\ Numbered(k.first, 0) /\ Len(k.first) <= k.sent
  /\ Numbered(k.got, 0) /\ Len(k.got) <= k.sent
  /\ Numbered(k.up, k.sent - Len(k.up)) /\ Len(k.up) <= k.sent
  /\ k.gone => k.up = <<>>
  /\ k.phase \in Handling /\ ~k.gone /\ ~k.cut => Len(k.got) + Len(k.first) + Len(k.up) = k.sent
DownStream(k) ==
  /\ Numbered(k.rcvd, 0) /\ Len(k.rcvd) <= k.back
  /\ ~k.gone => Len(k.rcvd) + Len(k.down) = k.back /\ Numbered(k.down, Len(k.rcvd))
Carries(k) ==
  /\ k.phase = "idle" => k = Idle
  /\ Buffers(k) /\ Unconnected(k) /\ Flags(k) /\ UpStream(k) /\ DownStream(k)
StreamInv == \A c \in Conns : Carries(conn[c])

\* j is k but for some fields.
Agree(j, k, F) == Fits(j) /\ \A f \in Fields \ F : j[f] = k[f]

LEMMA SameBy ==
  ASSUME NEW j, NEW k, NEW F, Agree(j, k, F)
  PROVE  /\ {"sent", "back"} \cap F = {} => SameSent(j, k)
         /\ {"fin", "bfin"} \cap F = {} => SameEnded(j, k)
         /\ {"got", "rcvd"} \cap F = {} => SameGot(j, k)
         /\ {"gotEnd", "rcvdEnd"} \cap F = {} => SameClosed(j, k)
         /\ {"gone", "cut", "phase", "got", "back"} \cap F = {} => SameLost(j, k)
<1>1. {"sent", "back"} \cap F = {} => SameSent(j, k) BY DEF Agree, Fields, SameSent, SentOf
<1>2. {"fin", "bfin"} \cap F = {} => SameEnded(j, k) BY DEF Agree, Fields, SameEnded, EndedOf
<1>3. {"got", "rcvd"} \cap F = {} => SameGot(j, k) BY DEF Agree, Fields, SameGot, GotOf
<1>4. {"gotEnd", "rcvdEnd"} \cap F = {} => SameClosed(j, k) BY DEF Agree, Fields, SameClosed, ClosedOf
<1>5. {"gone", "cut", "phase", "got", "back"} \cap F = {} => SameLost(j, k)
  BY DEF Agree, Fields, SameLost, LostOf
<1> QED BY <1>1, <1>2, <1>3, <1>4, <1>5

LEMMA CarriesOn ==
  ASSUME GatewayInv, StreamInv, NEW c \in Conns, NEW j, Set(c, j)
  PROVE  Streaming(c, j) /\ (Carries(j) => StreamInv')
<1>1. conn' = [d \in Conns |-> IF d = c THEN j ELSE conn[d]] BY DEF GatewayInv, Set
<1>2. \A e \in Conns : conn[e].gotEnd \in BOOLEAN /\ conn[e].rcvdEnd \in BOOLEAN
  BY DEF StreamInv, Carries, Buffers
<1> QED BY <1>1, <1>2 DEF StreamInv, Streaming

LEMMA CarriedFacts ==
  ASSUME GatewayInv, StreamInv, NEW c \in Conns
  PROVE  Fits(conn[c]) /\ Units(conn[c]) /\ Carries(conn[c])
BY DEF GatewayInv, StreamInv, Sound

LEMMA CarryConnect ==
  ASSUME GatewayInv, StreamInv, NEW c \in Conns, NEW client, NEW p, NEW login, Connect(c, client, p, login)
  PROVE  StreamInv' /\ TunnelStep
<1> DEFINE k == conn[c]
           j == [Idle EXCEPT !.phase = "accepted", !.client = client, !.port = p, !.login = login]
<1>1. Fits(k) /\ k = Idle BY CarriedFacts DEF Connect, At, Carries
<1>2. Set(c, j) BY DEF Connect
<1>3. Agree(j, k, {"phase", "client", "port", "login"}) /\ j.phase = "accepted"
  BY <1>1 DEF Fits, Agree, Idle, Fields
<1>4. /\ j.first = <<>> /\ j.got = <<>> /\ j.rcvd = <<>> /\ j.up = <<>> /\ j.down = <<>>
      /\ j.sent = 0 /\ j.back = 0 /\ j.gone = FALSE /\ j.cut = FALSE
      /\ j.gotEnd = FALSE /\ j.rcvdEnd = FALSE /\ j.upDone = FALSE /\ j.downDone = FALSE
  BY DEF Idle
<1> HIDE DEF j
<1>5. Buffers(j) /\ Unconnected(j) /\ Flags(j)
  <2>1. <<>> \in Seq(Nat) /\ 0 \in Nat OBVIOUS
  <2>2. Buffers(j) BY <2>1, <1>4 DEF Buffers
  <2>3. Unconnected(j) BY <1>4 DEF Unconnected
  <2>4. Flags(j) BY <1>3, <1>4 DEF Flags
  <2> QED BY <2>2, <2>3, <2>4
<1>6. UpStream(j) /\ DownStream(j) BY <1>3, <1>4 DEF UpStream, DownStream, Numbered
<1>7. Carries(j) BY <1>3, <1>5, <1>6 DEF Carries
<1>8. SameLost(j, k) BY <1>1, <1>3, <1>4 DEF SameLost, LostOf, Idle
<1>9. TunnelStep BY <1>2, <1>3, <1>8, SameBy, CarriesOn, NothingSeen
<1> QED BY <1>2, <1>7, <1>9, CarriesOn

\* A connection that is given up before anything was relayed is refused.
LEMMA CarryClosed ==
  ASSUME GatewayInv, StreamInv, NEW c \in Conns, NEW i, Set(c, Closed(i)),
         conn[c].phase \in {"accepted", "peek", "connect"},
         Agree(i, conn[c], {"up"}), i.up = conn[c].up \/ i.up = <<>>
  PROVE  StreamInv' /\ TunnelStep
<1> DEFINE k == conn[c]
           j == Closed(i)
<1>1. Fits(k) /\ Units(k) /\ Carries(k) BY CarriedFacts
<1>2. Agree(j, i, {"phase", "gotEnd", "rcvdEnd", "upDone", "downDone"})
  BY DEF Agree, Fits, Closed
<1>3. j.phase = "closed" /\ j.gotEnd = TRUE /\ j.rcvdEnd = TRUE /\ j.upDone = TRUE /\ j.downDone = TRUE
  BY DEF Agree, Fits, Fields, Closed
<1> HIDE DEF j
<1>4. Agree(j, k, {"up", "phase", "gotEnd", "rcvdEnd", "upDone", "downDone"})
  BY <1>2 DEF Agree
<1>5. /\ j.first = k.first /\ j.got = k.got /\ j.rcvd = k.rcvd /\ j.down = k.down
      /\ j.sent = k.sent /\ j.back = k.back /\ j.gone = k.gone /\ j.up = i.up
  BY <1>2, <1>4 DEF Agree, Fields
<1>6. Buffers(j) /\ Unconnected(j) /\ Flags(j)
  BY <1>1, <1>3, <1>5 DEF Carries, Buffers, Unconnected, Flags
<1>7. UpStream(j)
  <2>1. CASE i.up = k.up BY <1>1, <1>3, <1>5, <2>1 DEF Carries, UpStream, Handling
  <2>2. CASE i.up = <<>> BY <1>1, <1>3, <1>5, <2>2 DEF Carries, UpStream, Handling, Units, Numbered
  <2> QED BY <2>1, <2>2
<1>8. DownStream(j) BY <1>1, <1>5 DEF Carries, DownStream
<1>9. Carries(j) BY <1>3, <1>6, <1>7, <1>8 DEF Carries
<1>10. LostOf(j) = TRUE BY <1>1, <1>3, <1>5 DEF Carries, Unconnected, LostOf
<1>11. \A d \in Directions : ClosedOf(j, d) = TRUE BY <1>3 DEF ClosedOf
<1>12. Set(c, j) BY DEF j
<1>13. SameSent(j, k) /\ SameEnded(j, k) /\ SameGot(j, k) BY <1>4, SameBy
<1>14. Streaming(c, j) BY <1>12, CarriesOn
<1>15. TunnelStep BY <1>10, <1>11, <1>13, <1>14, BreakSeen
<1> QED BY <1>9, <1>12, <1>15, CarriesOn

\* Finding a route is nothing the two ends see.
LEMMA CarryQuietly ==
  ASSUME GatewayInv, StreamInv, NEW c \in Conns, NEW j, Set(c, j),
         Agree(j, conn[c], {"phase", "route", "alone"}),
         conn[c].phase = "accepted", j.phase \in {"peek", "connect"}
  PROVE  StreamInv' /\ TunnelStep
<1> DEFINE k == conn[c]
<1>1. Fits(k) /\ Units(k) /\ Carries(k) BY CarriedFacts
<1>2. /\ j.first = k.first /\ j.got = k.got /\ j.rcvd = k.rcvd /\ j.up = k.up /\ j.down = k.down
      /\ j.sent = k.sent /\ j.back = k.back /\ j.gone = k.gone /\ j.cut = k.cut
      /\ j.gotEnd = k.gotEnd /\ j.rcvdEnd = k.rcvdEnd
      /\ j.upDone = k.upDone /\ j.downDone = k.downDone
  BY DEF Agree, Fields
<1>3. Buffers(j) BY <1>1, <1>2 DEF Carries, Buffers
<1>4. Unconnected(j) BY <1>1, <1>2 DEF Carries, Unconnected
<1>5. Flags(j) BY <1>1, <1>2 DEF Carries, Flags
<1>6. UpStream(j) BY <1>1, <1>2 DEF Carries, UpStream, Handling
<1>7. DownStream(j) BY <1>1, <1>2 DEF Carries, DownStream
<1>8. Carries(j) BY <1>3, <1>4, <1>5, <1>6, <1>7 DEF Carries
<1>9. SameLost(j, k) BY <1>2 DEF SameLost, LostOf
<1>10. SameSent(j, k) /\ SameEnded(j, k) /\ SameGot(j, k) /\ SameClosed(j, k)
  BY SameBy
<1>11. Streaming(c, j) BY CarriesOn
<1>12. TunnelStep BY <1>9, <1>10, <1>11, NothingSeen
<1> QED BY <1>8, <1>12, CarriesOn

LEMMA CarryRoute ==
  ASSUME GatewayInv, StreamInv, NEW c \in Conns, Route(c)
  PROVE  StreamInv' /\ TunnelStep
<1> DEFINE k == conn[c]
<1>1. Fits(k) /\ Units(k) /\ Carries(k) /\ k.phase = "accepted" BY CarriedFacts DEF Route, At
<1>2. CASE Set(c, Closed(k))
  <2>1. Agree(k, k, {"up"}) BY <1>1 DEF Agree
  <2> QED BY <1>1, <1>2, <2>1, CarryClosed
<1>3. CASE \E r \in Backends :
             Set(c, [k EXCEPT !.phase = IF k.port \in HttpPorts THEN "peek" ELSE "connect",
                              !.route = r, !.alone = OfPort(k.port) = {r}])
  <2>1. PICK r \in Backends :
             Set(c, [k EXCEPT !.phase = IF k.port \in HttpPorts THEN "peek" ELSE "connect",
                              !.route = r, !.alone = OfPort(k.port) = {r}])
    BY <1>3
  <2> DEFINE j == [k EXCEPT !.phase = IF k.port \in HttpPorts THEN "peek" ELSE "connect",
                            !.route = r, !.alone = OfPort(k.port) = {r}]
  <2>2. Agree(j, k, {"phase", "route", "alone"}) /\ j.phase \in {"peek", "connect"}
    BY <1>1 DEF Agree, Fits, Fields
  <2>3. Set(c, j) BY <2>1
  <2> HIDE DEF j
  <2> QED BY <1>1, <2>2, <2>3, CarryQuietly
<1> QED BY <1>2, <1>3 DEF Route

\* Nothing is read before the first read.
LEMMA ReadFirst ==
  ASSUME NEW k, Units(k), Carries(k), k.phase = "peek"
  PROVE  /\ k.got = <<>> /\ k.first = <<>> /\ Numbered(k.up, 0) /\ Len(k.up) <= k.sent
         /\ ~k.gone => Len(k.up) = k.sent
<1>1. k.got = <<>> /\ k.first = <<>> /\ ~k.cut BY DEF Carries, Unconnected
<1>2. CASE k.gone BY <1>1, <1>2 DEF Carries, UpStream, Numbered, Units
<1>3. CASE ~k.gone
  <2>1. Len(k.up) = k.sent /\ Len(k.up) \in Nat BY <1>1, <1>3 DEF Carries, UpStream, Handling, Units
  <2>2. k.sent - Len(k.up) = 0 BY <2>1 DEF Units
  <2> QED BY <1>1, <2>1, <2>2 DEF Carries, UpStream, Units
<1> QED BY <1>2, <1>3

\* What has been read before there was a backend waits for it.
LEMMA CarryPeek ==
  ASSUME GatewayInv, StreamInv, NEW c \in Conns, Peek(c)
  PROVE  StreamInv' /\ TunnelStep
<1> DEFINE k == conn[c]
           a == [k EXCEPT !.up = <<>>]
           j == [k EXCEPT !.phase = "connect", !.first = FirstRead(c), !.up = <<>>]
<1>1. Fits(k) /\ Units(k) /\ Carries(k) /\ k.phase = "peek" BY CarriedFacts DEF Peek, At
<1>2. Set(c, j) \/ Set(c, Closed(a)) BY DEF Peek, AnsweredHere
<1>3. CASE Set(c, Closed(a))
  <2>1. Agree(a, k, {"up"}) /\ a.up = <<>> BY <1>1 DEF Agree, Fits, Fields
  <2> HIDE DEF a
  <2> QED BY <1>1, <1>3, <2>1, CarryClosed
<1>4. CASE Set(c, j)
  <2>1. Agree(j, k, {"phase", "first", "up"})
    BY <1>1 DEF Agree, Fits, Fields
  <2>2. j.phase = "connect" /\ j.first = k.up /\ j.up = <<>>
    BY <1>1 DEF Fits, Fields, FirstRead
  <2> HIDE DEF j
  <2>3. /\ j.got = k.got /\ j.rcvd = k.rcvd /\ j.down = k.down /\ j.sent = k.sent /\ j.back = k.back
        /\ j.gone = k.gone /\ j.cut = k.cut /\ j.gotEnd = k.gotEnd /\ j.rcvdEnd = k.rcvdEnd
        /\ j.upDone = k.upDone /\ j.downDone = k.downDone
    BY <2>1 DEF Agree, Fields
  <2>4. Buffers(j) BY <1>1, <2>3 DEF Carries, Buffers
  <2>5. Unconnected(j) BY <1>1, <2>2, <2>3 DEF Carries, Unconnected
  <2>6. Flags(j) BY <1>1, <2>2, <2>3 DEF Carries, Flags
  <2>8. /\ k.got = <<>> /\ k.first = <<>> /\ Numbered(k.up, 0) /\ Len(k.up) <= k.sent
        /\ ~k.gone => Len(k.up) = k.sent
    BY <1>1, ReadFirst
  <2>9. UpStream(j)
    BY <1>1, <2>2, <2>3, <2>8 DEF Carries, UpStream, Units, Numbered
  <2>10. DownStream(j) BY <1>1, <2>3 DEF Carries, DownStream
  <2>11. Carries(j) BY <2>2, <2>4, <2>5, <2>6, <2>9, <2>10 DEF Carries
  <2>12. SameLost(j, k) BY <1>1, <2>2, <2>3 DEF SameLost, LostOf
  <2>13. SameSent(j, k) /\ SameEnded(j, k) /\ SameGot(j, k) /\ SameClosed(j, k)
    BY <2>1, SameBy
  <2>14. Streaming(c, j) BY <1>4, CarriesOn
  <2>15. TunnelStep BY <2>12, <2>13, <2>14, NothingSeen
  <2> QED BY <1>4, <2>11, <2>15, CarriesOn
<1> QED BY <1>2, <1>3, <1>4

\* Units that are read and go nowhere: their end is gone.
LEMMA CarriesDropped ==
  ASSUME NEW j, NEW k, Units(k), Carries(k), Agree(j, k, {"up"}), j.up = <<>>,
         k.phase = "relay", k.cut
  PROVE  Carries(j)
<1>1. /\ j.first = k.first /\ j.got = k.got /\ j.rcvd = k.rcvd /\ j.down = k.down /\ j.sent = k.sent
      /\ j.back = k.back /\ j.phase = k.phase /\ j.gone = k.gone /\ j.cut = k.cut
      /\ j.gotEnd = k.gotEnd /\ j.rcvdEnd = k.rcvdEnd /\ j.upDone = k.upDone /\ j.downDone = k.downDone
  BY DEF Agree, Fields
<1>2. Buffers(j) BY <1>1 DEF Carries, Buffers
<1>3. Unconnected(j) /\ Flags(j) BY <1>1 DEF Carries, Unconnected, Flags
<1>4. UpStream(j) BY <1>1 DEF Carries, UpStream, Numbered, Units
<1>5. DownStream(j) BY <1>1 DEF Carries, DownStream
<1> QED BY <1>1, <1>2, <1>3, <1>4, <1>5 DEF Carries

\* A pipe that is over has told the other end.
LEMMA CarriesEnded ==
  ASSUME NEW j, NEW k, Units(k), Carries(k), k.phase = "relay",
         \/ /\ Agree(j, k, {"up", "upDone", "gotEnd"}) /\ j.upDone = TRUE /\ j.gotEnd = TRUE
            /\ j.up = k.up \/ (j.up = <<>> /\ k.cut)
         \/ /\ Agree(j, k, {"down", "downDone", "rcvdEnd"}) /\ j.downDone = TRUE /\ j.rcvdEnd = TRUE
            /\ j.down = k.down \/ (j.down = <<>> /\ k.gone)
  PROVE  Carries(j)
<1>1. /\ j.first = k.first /\ j.got = k.got /\ j.rcvd = k.rcvd /\ j.sent = k.sent
      /\ j.back = k.back /\ j.phase = k.phase /\ j.gone = k.gone /\ j.cut = k.cut
      /\ (j.gotEnd = k.gotEnd /\ j.upDone = k.upDone) \/ (j.gotEnd = TRUE /\ j.upDone = TRUE)
      /\ (j.rcvdEnd = k.rcvdEnd /\ j.downDone = k.downDone) \/ (j.rcvdEnd = TRUE /\ j.downDone = TRUE)
  BY DEF Agree, Fields
<1>2. j.up = k.up \/ (j.up = <<>> /\ k.cut) BY DEF Agree, Fields
<1>3. j.down = k.down \/ (j.down = <<>> /\ k.gone) BY DEF Agree, Fields
<1>4. Buffers(j)
  <2>1. j.down \in Seq(Nat) BY <1>3, Empty DEF Carries, Buffers
  <2> QED BY <1>1, <2>1 DEF Carries, Buffers
<1>5. Unconnected(j) /\ Flags(j) BY <1>1 DEF Carries, Unconnected, Flags
<1>6. UpStream(j)
  <2>1. CASE j.up = k.up BY <1>1, <2>1 DEF Carries, UpStream
  <2>2. CASE j.up = <<>> /\ k.cut BY <1>1, <2>2 DEF Carries, UpStream, Numbered, Units
  <2> QED BY <1>2, <2>1, <2>2
<1>7. DownStream(j) BY <1>1, <1>3 DEF Carries, DownStream
<1> QED BY <1>1, <1>4, <1>5, <1>6, <1>7 DEF Carries

LEMMA CarryOpen ==
  ASSUME GatewayInv, StreamInv, NEW c \in Conns, Open(c)
  PROVE  StreamInv' /\ TunnelStep
<1> DEFINE k == conn[c]
           j == [k EXCEPT !.phase = "relay", !.got = k.first, !.first = <<>>]
<1>1. Fits(k) /\ Units(k) /\ Carries(k) /\ k.phase = "connect" BY CarriedFacts DEF Open, At
<1>2. Set(c, j) \/ Set(c, Closed(k)) BY DEF Open
<1>3. CASE Set(c, Closed(k))
  <2>1. Agree(k, k, {"up"}) BY <1>1 DEF Agree
  <2> QED BY <1>1, <1>3, <2>1, CarryClosed
<1>4. CASE Set(c, j)
  <2>1. Agree(j, k, {"phase", "first", "got"})
    BY <1>1 DEF Agree, Fits, Fields
  <2>2. j.phase = "relay" /\ j.first = <<>> /\ j.got = k.first
    BY <1>1 DEF Fits, Fields
  <2> HIDE DEF j
  <2>3. /\ j.up = k.up /\ j.rcvd = k.rcvd /\ j.down = k.down /\ j.sent = k.sent /\ j.back = k.back
        /\ j.gone = k.gone /\ j.cut = k.cut /\ j.gotEnd = k.gotEnd /\ j.rcvdEnd = k.rcvdEnd
        /\ j.upDone = k.upDone /\ j.downDone = k.downDone
    BY <2>1 DEF Agree, Fields
  <2>4. Buffers(j) BY <1>1, <2>2, <2>3 DEF Carries, Buffers, Units
  <2>5. Unconnected(j) BY <2>2 DEF Unconnected
  <2>6. k.got = <<>> /\ ~k.cut /\ ~k.gotEnd /\ ~k.rcvdEnd /\ ~k.upDone /\ ~k.downDone
    BY <1>1 DEF Carries, Unconnected, Flags
  <2>7. Flags(j) BY <2>2, <2>3, <2>6 DEF Flags
  <2>8. /\ Numbered(k.first, 0) /\ Len(k.first) <= k.sent
        /\ Numbered(k.up, k.sent - Len(k.up)) /\ Len(k.up) <= k.sent
        /\ k.gone => k.up = <<>>
        /\ ~k.gone => Len(k.first) + Len(k.up) = k.sent
    <3>1. UpStream(k) BY <1>1 DEF Carries
    <3>2. k.phase \in Handling BY <1>1 DEF Handling
    <3>3. ~k.gone => Len(k.got) + Len(k.first) + Len(k.up) = k.sent BY <2>6, <3>1, <3>2 DEF UpStream
    <3>4. Len(k.first) \in Nat /\ Len(k.up) \in Nat /\ Len(k.got) = 0 BY <1>1, <2>6, Empty DEF Units
    <3> DEFINE f == Len(k.first)  g == Len(k.got)  u == Len(k.up)
    <3> HIDE DEF f, g, u
    <3>a. f \in Nat /\ u \in Nat /\ g = 0 /\ (~k.gone => g + f + u = k.sent) BY <3>3, <3>4 DEF f, g, u
    <3>b. 0 + f + u = f + u BY <3>a
    <3>5. ~k.gone => Len(k.first) + Len(k.up) = k.sent BY <3>a, <3>b DEF f, u
    <3> QED BY <3>1, <3>5 DEF UpStream
  <2>9. UpStream(j)
    <3>1. Len(k.first) \in Nat /\ Len(k.up) \in Nat /\ k.sent \in Nat BY <1>1 DEF Units
    <3>2. Len(k.first) + 0 + Len(k.up) = Len(k.first) + Len(k.up) /\ 0 <= k.sent BY <3>1
    <3> QED BY <2>2, <2>3, <2>8, <3>2, Empty DEF UpStream
  <2>10. DownStream(j) BY <1>1, <2>3 DEF Carries, DownStream
  <2>11. Carries(j) BY <2>2, <2>4, <2>5, <2>7, <2>9, <2>10 DEF Carries
  <2>12. SameLost(j, k) BY <1>1, <2>2, <2>3 DEF SameLost, LostOf
  <2>13. SameSent(j, k) /\ SameEnded(j, k) /\ SameClosed(j, k) BY <2>1, SameBy
  <2>14. Streaming(c, j) BY <1>4, CarriesOn
  <2>15. CASE k.first = <<>>
    <3>1. SameGot(j, k) BY <2>2, <2>3, <2>6, <2>15 DEF SameGot, GotOf
    <3>2. TunnelStep BY <2>12, <2>13, <2>14, <3>1, NothingSeen
    <3> QED BY <1>4, <2>11, <3>2, CarriesOn
  <2>16. CASE k.first # <<>>
    <3>1. Len(k.first) \in Len(GotOf(k, "up")) + 1 .. SentOf(k, "up")
      BY <1>1, <2>6, <2>8, <2>16 DEF GotOf, SentOf, Units
    <3>2. k.first = [i \in 1..Len(k.first) |-> i] BY <1>1, <2>8, NumberedIs DEF Units
    <3>3. \A e \in Directions :
            GotOf(j, e) = IF e = "up" THEN [i \in 1..Len(k.first) |-> i] ELSE GotOf(k, e)
      BY <2>2, <2>3, <3>2 DEF GotOf
    <3>4. ~ClosedOf(k, "up") /\ "up" \in Directions BY <2>6 DEF ClosedOf, Directions
    <3>5. TunnelStep BY <2>12, <2>13, <2>14, <3>1, <3>3, <3>4, DeliverSeen
    <3> QED BY <1>4, <2>11, <3>5, CarriesOn
  <2> QED BY <2>15, <2>16
<1> QED BY <1>2, <1>3, <1>4

\* The tunnel breaks, and the client is not told.
LEMMA CarryFirstWriteFails ==
  ASSUME GatewayInv, StreamInv, NEW c \in Conns, FirstWriteFails(c)
  PROVE  StreamInv' /\ TunnelStep
<1> DEFINE k == conn[c]
           j == [k EXCEPT !.phase = "leaked", !.first = <<>>, !.cut = TRUE, !.upDone = TRUE, !.downDone = TRUE]
<1>1. Fits(k) /\ Units(k) /\ Carries(k) /\ Set(c, j) BY CarriedFacts DEF FirstWriteFails
<1>2. Agree(j, k, {"phase", "first", "cut", "upDone", "downDone"})
  BY <1>1 DEF Agree, Fits, Fields
<1>3. j.phase = "leaked" /\ j.first = <<>> /\ j.cut = TRUE
  BY <1>1 DEF Fits, Fields
<1> HIDE DEF j
<1>4. /\ j.up = k.up /\ j.got = k.got /\ j.rcvd = k.rcvd /\ j.down = k.down /\ j.sent = k.sent /\ j.back = k.back
      /\ j.gone = k.gone /\ j.gotEnd = k.gotEnd /\ j.rcvdEnd = k.rcvdEnd
  BY <1>2 DEF Agree, Fields
<1>5. Buffers(j) BY <1>1, <1>4 DEF Carries, Buffers
<1>6. Unconnected(j) /\ Flags(j) BY <1>3 DEF Unconnected, Flags
<1>7. UpStream(j) BY <1>1, <1>3, <1>4 DEF Carries, UpStream, Units, Numbered, Handling
<1>8. DownStream(j) BY <1>1, <1>4 DEF Carries, DownStream
<1>9. Carries(j) BY <1>3, <1>5, <1>6, <1>7, <1>8 DEF Carries
<1>10. LostOf(j) = TRUE BY <1>3 DEF LostOf
<1>11. SameSent(j, k) /\ SameEnded(j, k) /\ SameGot(j, k) /\ SameClosed(j, k) BY <1>2, SameBy
<1>12. Streaming(c, j) BY <1>1, CarriesOn
<1>13. TunnelStep BY <1>10, <1>11, <1>12, BreakSeen
<1> QED BY <1>1, <1>9, <1>13, CarriesOn

\* The attacker's units go to the backend; what is written to one that is gone is
\* lost, or tells the pipe that it is.
LEMMA CarryPipeUp ==
  ASSUME GatewayInv, StreamInv, NEW c \in Conns, PipeUp(c)
  PROVE  StreamInv' /\ TunnelStep
<1> DEFINE k == conn[c]
           delivered == [k EXCEPT !.up = <<>>, !.got = @ \o k.up]
           dropped == [k EXCEPT !.up = <<>>]
           noticed == [k EXCEPT !.up = <<>>, !.upDone = TRUE, !.gotEnd = TRUE]
<1>1. Fits(k) /\ Units(k) /\ Carries(k) BY CarriedFacts
<1>2. k.phase = "relay" /\ ~k.upDone /\ ~k.gone /\ k.up # <<>> BY DEF PipeUp, At
<1>3. ~k.gotEnd /\ k.first = <<>> /\ (k.rcvdEnd <=> k.downDone) BY <1>1, <1>2 DEF Carries, Flags
<1>4. k.up \in Seq(Nat) /\ k.got \in Seq(Nat) /\ k.sent \in Nat BY <1>1 DEF Units, Carries, Buffers
<1>5. /\ Numbered(k.first, 0) /\ Numbered(k.got, 0) /\ Len(k.got) <= k.sent
      /\ Numbered(k.up, k.sent - Len(k.up)) /\ Len(k.up) <= k.sent
      /\ ~k.cut => Len(k.got) + Len(k.up) = k.sent
  <2>1. UpStream(k) BY <1>1 DEF Carries
  <2>2. ~k.cut => Len(k.got) + Len(k.first) + Len(k.up) = k.sent BY <1>2, <2>1 DEF UpStream, Handling
  <2>3. Len(k.got) \in Nat /\ Len(k.up) \in Nat /\ Len(k.first) = 0 BY <1>3, <1>4, Empty
  <2> DEFINE f == Len(k.first)  g == Len(k.got)  u == Len(k.up)
  <2> HIDE DEF f, g, u
  <2>a. g \in Nat /\ u \in Nat /\ f = 0 /\ (~k.cut => g + f + u = k.sent) BY <2>2, <2>3 DEF f, g, u
  <2>b. g + 0 + u = g + u BY <2>a
  <2>4. ~k.cut => Len(k.got) + Len(k.up) = k.sent BY <2>a, <2>b DEF g, u
  <2> QED BY <2>1, <2>4 DEF UpStream
<1>6. CASE ~k.cut /\ Set(c, delivered)
  <2> DEFINE j == delivered
  <2>1. Agree(j, k, {"up", "got"}) /\ j.up = <<>> /\ j.got = k.got \o k.up
    BY <1>1 DEF Agree, Fits, Fields
  <2>2. Set(c, j) BY <1>6
  <2> HIDE DEF j, delivered
  <2>3. /\ j.first = k.first /\ j.rcvd = k.rcvd /\ j.down = k.down /\ j.sent = k.sent /\ j.back = k.back
        /\ j.phase = k.phase
        /\ j.gone = k.gone /\ j.cut = k.cut /\ j.gotEnd = k.gotEnd /\ j.rcvdEnd = k.rcvdEnd
        /\ j.upDone = k.upDone /\ j.downDone = k.downDone
    BY <2>1 DEF Agree, Fields
  <2>4. Len(k.up) \in Nat /\ Len(k.got) \in Nat /\ Len(k.up) > 0 BY <1>2, <1>4
  <2> DEFINE u == Len(k.up)  g == Len(k.got)
  <2>a. u \in Nat /\ g \in Nat /\ k.sent \in Nat /\ g + u = k.sent /\ u > 0 BY <1>4, <1>5, <1>6, <2>4
  <2> HIDE DEF u, g
  <2>b. k.sent - u = g /\ 0 + g = g /\ g + 1 <= k.sent BY <2>a
  <2>5. k.sent - Len(k.up) = Len(k.got) /\ 0 + Len(k.got) = Len(k.got) /\ Len(k.got) + 1 <= k.sent
    BY <2>b DEF u, g
  <2>6. Numbered(k.up, 0 + Len(k.got)) BY <1>5, <2>5
  <2>7. j.got \in Seq(Nat) /\ Len(j.got) = Len(k.got) + Len(k.up) /\ Numbered(j.got, 0)
    BY <1>4, <1>5, <2>1, <2>6, NumberedConcat
  <2>8. Len(j.got) = k.sent BY <1>5, <1>6, <2>7
  <2>9. Buffers(j) BY <1>1, <2>3, <2>7 DEF Carries, Buffers
  <2>10. Unconnected(j) /\ Flags(j) BY <1>1, <1>2, <2>3 DEF Carries, Unconnected, Flags
  <2>11. UpStream(j)
    <3>1. Len(j.got) <= k.sent /\ 0 <= k.sent /\ Len(j.got) + 0 + 0 = k.sent BY <1>4, <2>8
    <3> QED BY <1>3, <2>1, <2>3, <2>7, <3>1, Empty DEF UpStream
  <2>12. DownStream(j) BY <1>1, <2>3 DEF Carries, DownStream
  <2>13. Carries(j) BY <1>2, <2>3, <2>9, <2>10, <2>11, <2>12 DEF Carries
  <2>14. SameLost(j, k) BY <1>2, <2>3 DEF SameLost, LostOf
  <2>15. SameSent(j, k) /\ SameEnded(j, k) /\ SameClosed(j, k) BY <2>1, SameBy
  <2>16. Streaming(c, j) BY <2>2, CarriesOn
  <2>17. k.sent \in Len(GotOf(k, "up")) + 1 .. SentOf(k, "up")
    BY <1>4, <2>4, <2>5 DEF GotOf, SentOf
  <2>18. j.got = [i \in 1..k.sent |-> i] BY <2>7, <2>8, NumberedIs
  <2>19. \A e \in Directions : GotOf(j, e) = IF e = "up" THEN [i \in 1..k.sent |-> i] ELSE GotOf(k, e)
    BY <2>3, <2>18 DEF GotOf
  <2>20. ~ClosedOf(k, "up") /\ "up" \in Directions BY <1>3 DEF ClosedOf, Directions
  <2>21. TunnelStep BY <2>14, <2>15, <2>16, <2>17, <2>19, <2>20, DeliverSeen
  <2> QED BY <2>2, <2>13, <2>21, CarriesOn
<1>7. CASE k.cut /\ Set(c, dropped)
  <2> DEFINE j == dropped
  <2>1. Agree(j, k, {"up"}) /\ j.up = <<>> BY <1>1 DEF Agree, Fits, Fields
  <2>2. Set(c, j) BY <1>7
  <2> HIDE DEF j, dropped
  <2>3. Carries(j) BY <1>1, <1>2, <1>7, <2>1, CarriesDropped
  <2>4. /\ SameSent(j, k) /\ SameEnded(j, k) /\ SameGot(j, k) /\ SameClosed(j, k) /\ SameLost(j, k)
    BY <2>1, SameBy
  <2>5. Streaming(c, j) BY <2>2, CarriesOn
  <2>6. TunnelStep BY <2>4, <2>5, NothingSeen
  <2> QED BY <2>2, <2>3, <2>6, CarriesOn
<1>8. CASE k.cut /\ Set(c, noticed)
  <2> DEFINE j == noticed
  <2>1. Agree(j, k, {"up", "upDone", "gotEnd"}) BY <1>1 DEF Agree, Fits, Fields
  <2>2. j.up = <<>> /\ j.upDone = TRUE /\ j.gotEnd = TRUE BY <1>1 DEF Agree, Fits, Fields
  <2>3. Set(c, j) BY <1>8
  <2> HIDE DEF j, noticed
  <2>4. Carries(j) BY <1>1, <1>2, <1>8, <2>1, <2>2, CarriesEnded
  <2>5. /\ SameSent(j, k) /\ SameEnded(j, k) /\ SameGot(j, k) /\ SameLost(j, k)
    BY <2>1, SameBy
  <2>6. Streaming(c, j) BY <2>3, CarriesOn
  <2>7. LostOf(k) BY <1>8 DEF LostOf
  <2>8. j.rcvdEnd = k.rcvdEnd BY <2>1 DEF Agree, Fields
  <2>9. ClosedOf(j, "up") = TRUE /\ "up" \in Directions BY <2>2 DEF ClosedOf, Directions
  <2>10. \A e \in Directions : e # "up" => ClosedOf(j, e) = ClosedOf(k, e) BY <2>8 DEF ClosedOf
  <2>11. TunnelStep BY <2>5, <2>6, <2>7, <2>9, <2>10, EndSeen
  <2> QED BY <2>3, <2>4, <2>11, CarriesOn
<1> QED BY <1>6, <1>7, <1>8 DEF PipeUp

LEMMA CarryPipeUpEnds ==
  ASSUME GatewayInv, StreamInv, NEW c \in Conns, PipeUpEnds(c)
  PROVE  StreamInv' /\ TunnelStep
<1> DEFINE k == conn[c]
           j == [k EXCEPT !.upDone = TRUE, !.gotEnd = TRUE]
<1>1. Fits(k) /\ Units(k) /\ Carries(k) /\ Set(c, j) BY CarriedFacts DEF PipeUpEnds
<1>2. k.phase = "relay" /\ (k.gone \/ (k.fin /\ k.up = <<>>)) BY DEF PipeUpEnds, At
<1>3. Agree(j, k, {"upDone", "gotEnd"}) /\ j.upDone = TRUE /\ j.gotEnd = TRUE
  BY <1>1 DEF Agree, Fits, Fields
<1> HIDE DEF j
<1>4. j.up = k.up /\ j.rcvdEnd = k.rcvdEnd BY <1>3 DEF Agree, Fields
<1>5. Agree(j, k, {"up", "upDone", "gotEnd"}) BY <1>3 DEF Agree
<1>6. Carries(j) BY <1>1, <1>2, <1>3, <1>4, <1>5, CarriesEnded
<1>7. SameSent(j, k) /\ SameEnded(j, k) /\ SameGot(j, k) /\ SameLost(j, k) BY <1>3, SameBy
<1>8. Streaming(c, j) BY <1>1, CarriesOn
<1>9. ClosedOf(j, "up") = TRUE /\ "up" \in Directions BY <1>3 DEF ClosedOf, Directions
<1>10. \A e \in Directions : e # "up" => ClosedOf(j, e) = ClosedOf(k, e) BY <1>4 DEF ClosedOf
<1>11. LostOf(k) \/ (EndedOf(k, "up") /\ Len(GotOf(k, "up")) = SentOf(k, "up"))
  <2>1. CASE k.gone \/ k.cut BY <2>1 DEF LostOf
  <2>2. CASE ~k.gone /\ ~k.cut
    <3>1. UpStream(k) /\ k.first = <<>> /\ k.up = <<>> /\ k.fin /\ k.got \in Seq(Nat)
      BY <1>1, <1>2, <2>2 DEF Carries, Flags, Buffers
    <3>2. Len(k.got) + Len(k.first) + Len(k.up) = k.sent BY <1>2, <2>2, <3>1 DEF UpStream, Handling
    <3> DEFINE g == Len(k.got)  f == Len(k.first)
    <3>3. g \in Nat /\ f = 0 /\ Len(k.up) = f BY <3>1, Empty
    <3>4. g + f + f = k.sent BY <3>2, <3>3
    <3> HIDE DEF g, f
    <3>5. g = k.sent BY <3>3, <3>4
    <3>6. Len(k.got) = k.sent BY <3>5 DEF g
    <3> QED BY <3>1, <3>6 DEF EndedOf, GotOf, SentOf
  <2> QED BY <2>1, <2>2
<1>12. TunnelStep BY <1>7, <1>8, <1>9, <1>10, <1>11, EndSeen
<1> QED BY <1>1, <1>6, <1>12, CarriesOn

\* The same the other way.
LEMMA CarryPipeDown ==
  ASSUME GatewayInv, StreamInv, NEW c \in Conns, PipeDown(c)
  PROVE  StreamInv' /\ TunnelStep
<1> DEFINE k == conn[c]
           delivered == [k EXCEPT !.down = <<>>, !.rcvd = @ \o k.down]
           dropped == [k EXCEPT !.down = <<>>]
           noticed == [k EXCEPT !.down = <<>>, !.downDone = TRUE, !.rcvdEnd = TRUE]
<1>1. Fits(k) /\ Units(k) /\ Carries(k) BY CarriedFacts
<1>2. k.phase = "relay" /\ ~k.downDone /\ k.down # <<>> BY DEF PipeDown, At
<1>3. ~k.rcvdEnd BY <1>1, <1>2 DEF Carries, Flags
<1>4. k.down \in Seq(Nat) /\ k.rcvd \in Seq(Nat) /\ k.back \in Nat BY <1>1 DEF Carries, Buffers
<1>5. CASE ~k.gone /\ Set(c, delivered)
  <2> DEFINE j == delivered
  <2>1. Agree(j, k, {"down", "rcvd"}) /\ j.down = <<>> /\ j.rcvd = k.rcvd \o k.down
    BY <1>1 DEF Agree, Fits, Fields
  <2>2. Set(c, j) BY <1>5
  <2> HIDE DEF j, delivered
  <2>3. /\ j.first = k.first /\ j.got = k.got /\ j.up = k.up /\ j.sent = k.sent /\ j.back = k.back
        /\ j.phase = k.phase
        /\ j.gone = k.gone /\ j.cut = k.cut /\ j.gotEnd = k.gotEnd /\ j.rcvdEnd = k.rcvdEnd
        /\ j.upDone = k.upDone /\ j.downDone = k.downDone
    BY <2>1 DEF Agree, Fields
  <2> DEFINE g == Len(k.rcvd)  u == Len(k.down)
  <2>4. Numbered(k.rcvd, 0) /\ Numbered(k.down, g) /\ g + u = k.back
    BY <1>1, <1>5 DEF Carries, DownStream
  <2>5. g \in Nat /\ u \in Nat /\ u > 0 BY <1>2, <1>4
  <2> HIDE DEF g, u
  <2>6. 0 + g = g /\ k.back \in g + 1 .. k.back BY <1>4, <2>4, <2>5
  <2>7. Numbered(k.down, 0 + Len(k.rcvd)) BY <2>4, <2>6 DEF g
  <2>8. j.rcvd \in Seq(Nat) /\ Len(j.rcvd) = Len(k.rcvd) + Len(k.down) /\ Numbered(j.rcvd, 0)
    BY <1>4, <2>1, <2>4, <2>7, NumberedConcat
  <2>9. Len(j.rcvd) = k.back BY <2>4, <2>8 DEF g, u
  <2>10. Buffers(j) BY <1>1, <2>1, <2>3, <2>8, Empty DEF Carries, Buffers
  <2>11. Unconnected(j) /\ Flags(j) BY <1>1, <1>2, <2>3 DEF Carries, Unconnected, Flags
  <2>12. UpStream(j) BY <1>1, <2>3 DEF Carries, UpStream
  <2>13. DownStream(j)
    <3>1. Len(j.rcvd) <= k.back /\ Len(j.rcvd) + 0 = k.back BY <1>4, <2>9
    <3> QED BY <2>1, <2>3, <2>8, <3>1, Empty DEF DownStream
  <2>14. Carries(j) BY <1>2, <2>3, <2>10, <2>11, <2>12, <2>13 DEF Carries
  <2>15. SameLost(j, k) BY <1>2, <2>3 DEF SameLost, LostOf
  <2>16. SameSent(j, k) /\ SameEnded(j, k) /\ SameClosed(j, k) BY <2>1, SameBy
  <2>17. Streaming(c, j) BY <2>2, CarriesOn
  <2>18. k.back \in Len(GotOf(k, "down")) + 1 .. SentOf(k, "down")
    BY <2>6 DEF GotOf, SentOf, g
  <2>19. j.rcvd = [i \in 1..k.back |-> i] BY <2>8, <2>9, NumberedIs
  <2>20. \A e \in Directions : GotOf(j, e) = IF e = "down" THEN [i \in 1..k.back |-> i] ELSE GotOf(k, e)
    BY <2>3, <2>19 DEF GotOf, Directions
  <2>21. ~ClosedOf(k, "down") /\ "down" \in Directions BY <1>3 DEF ClosedOf, Directions
  <2>22. TunnelStep BY <2>15, <2>16, <2>17, <2>18, <2>20, <2>21, DeliverSeen
  <2> QED BY <2>2, <2>14, <2>22, CarriesOn
<1>6. CASE k.gone /\ Set(c, dropped)
  <2> DEFINE j == dropped
  <2>1. Agree(j, k, {"down"}) /\ j.down = <<>> BY <1>1 DEF Agree, Fits, Fields
  <2>2. Set(c, j) BY <1>6
  <2> HIDE DEF j, dropped
  <2>3. /\ j.first = k.first /\ j.got = k.got /\ j.up = k.up /\ j.sent = k.sent /\ j.back = k.back
        /\ j.phase = k.phase /\ j.rcvd = k.rcvd
        /\ j.gone = k.gone /\ j.cut = k.cut /\ j.gotEnd = k.gotEnd /\ j.rcvdEnd = k.rcvdEnd
        /\ j.upDone = k.upDone /\ j.downDone = k.downDone
    BY <2>1 DEF Agree, Fields
  <2>4. Buffers(j) BY <1>1, <2>1, <2>3, Empty DEF Carries, Buffers
  <2>5. Unconnected(j) /\ Flags(j) BY <1>1, <1>2, <2>3 DEF Carries, Unconnected, Flags
  <2>6. UpStream(j) BY <1>1, <2>3 DEF Carries, UpStream
  <2>7. DownStream(j) BY <1>1, <1>6, <2>3 DEF Carries, DownStream
  <2>8. Carries(j) BY <1>2, <2>3, <2>4, <2>5, <2>6, <2>7 DEF Carries
  <2>9. /\ SameSent(j, k) /\ SameEnded(j, k) /\ SameGot(j, k) /\ SameClosed(j, k) /\ SameLost(j, k)
    BY <2>1, SameBy
  <2>10. Streaming(c, j) BY <2>2, CarriesOn
  <2>11. TunnelStep BY <2>9, <2>10, NothingSeen
  <2> QED BY <2>2, <2>8, <2>11, CarriesOn
<1>7. CASE k.gone /\ Set(c, noticed)
  <2> DEFINE j == noticed
  <2>1. Agree(j, k, {"down", "downDone", "rcvdEnd"}) BY <1>1 DEF Agree, Fits, Fields
  <2>2. j.down = <<>> /\ j.downDone = TRUE /\ j.rcvdEnd = TRUE BY <1>1 DEF Agree, Fits, Fields
  <2>3. Set(c, j) BY <1>7
  <2> HIDE DEF j, noticed
  <2>4. Carries(j) BY <1>1, <1>2, <1>7, <2>1, <2>2, CarriesEnded
  <2>5. /\ SameSent(j, k) /\ SameEnded(j, k) /\ SameGot(j, k) /\ SameLost(j, k)
    BY <2>1, SameBy
  <2>6. Streaming(c, j) BY <2>3, CarriesOn
  <2>7. LostOf(k) BY <1>7 DEF LostOf
  <2>8. j.gotEnd = k.gotEnd BY <2>1 DEF Agree, Fields
  <2>9. ClosedOf(j, "down") = TRUE /\ "down" \in Directions BY <2>2 DEF ClosedOf, Directions
  <2>10. \A e \in Directions : e # "down" => ClosedOf(j, e) = ClosedOf(k, e)
    BY <2>8 DEF ClosedOf, Directions
  <2>11. TunnelStep BY <2>5, <2>6, <2>7, <2>9, <2>10, EndSeen
  <2> QED BY <2>3, <2>4, <2>11, CarriesOn
<1> QED BY <1>5, <1>6, <1>7 DEF PipeDown

LEMMA CarryPipeDownEnds ==
  ASSUME GatewayInv, StreamInv, NEW c \in Conns, PipeDownEnds(c)
  PROVE  StreamInv' /\ TunnelStep
<1> DEFINE k == conn[c]
           j == [k EXCEPT !.downDone = TRUE, !.rcvdEnd = TRUE]
<1>1. Fits(k) /\ Units(k) /\ Carries(k) /\ Set(c, j) BY CarriedFacts DEF PipeDownEnds
<1>2. k.phase = "relay" /\ (k.cut \/ (k.bfin /\ k.down = <<>>)) BY DEF PipeDownEnds, At
<1>3. Agree(j, k, {"downDone", "rcvdEnd"}) /\ j.downDone = TRUE /\ j.rcvdEnd = TRUE
  BY <1>1 DEF Agree, Fits, Fields
<1> HIDE DEF j
<1>4. j.down = k.down /\ j.gotEnd = k.gotEnd BY <1>3 DEF Agree, Fields
<1>5. Agree(j, k, {"down", "downDone", "rcvdEnd"}) BY <1>3 DEF Agree
<1>6. Carries(j) BY <1>1, <1>2, <1>3, <1>4, <1>5, CarriesEnded
<1>7. SameSent(j, k) /\ SameEnded(j, k) /\ SameGot(j, k) /\ SameLost(j, k) BY <1>3, SameBy
<1>8. Streaming(c, j) BY <1>1, CarriesOn
<1>9. ClosedOf(j, "down") = TRUE /\ "down" \in Directions BY <1>3 DEF ClosedOf, Directions
<1>10. \A e \in Directions : e # "down" => ClosedOf(j, e) = ClosedOf(k, e)
  BY <1>4 DEF ClosedOf, Directions
<1>11. LostOf(k) \/ (EndedOf(k, "down") /\ Len(GotOf(k, "down")) = SentOf(k, "down"))
  <2>1. CASE k.gone \/ k.cut BY <2>1 DEF LostOf
  <2>2. CASE ~k.gone /\ ~k.cut
    <3> DEFINE g == Len(k.rcvd)  f == Len(k.down)
    <3>1. k.bfin /\ k.rcvd \in Seq(Nat) /\ g + f = k.back
      BY <1>1, <1>2, <2>2 DEF Carries, DownStream, Buffers
    <3>2. g \in Nat /\ f = 0 BY <1>2, <2>2, <3>1, Empty
    <3> HIDE DEF g, f
    <3>3. g = k.back BY <3>1, <3>2
    <3>4. Len(k.rcvd) = k.back BY <3>3 DEF g
    <3> QED BY <3>1, <3>4 DEF EndedOf, GotOf, SentOf
  <2> QED BY <2>1, <2>2
<1>12. TunnelStep BY <1>7, <1>8, <1>9, <1>10, <1>11, EndSeen
<1> QED BY <1>1, <1>6, <1>12, CarriesOn

\* Both ends have been told already when the handler closes; with nothing relayed,
\* the tunnel counts as refused from then on.
LEMMA CarryHandlerEnds ==
  ASSUME GatewayInv, StreamInv, NEW c \in Conns, HandlerEnds(c)
  PROVE  StreamInv' /\ TunnelStep
<1> DEFINE k == conn[c]
           j == Closed(k)
<1>1. Fits(k) /\ Units(k) /\ Carries(k) /\ Set(c, j) BY CarriedFacts DEF HandlerEnds
<1>2. k.phase = "relay" /\ k.upDone /\ k.downDone BY DEF HandlerEnds, At
<1>3. Agree(j, k, {"phase", "gotEnd", "rcvdEnd", "upDone", "downDone"})
  BY <1>1 DEF Agree, Fits, Fields, Closed
<1>4. j.phase = "closed" /\ j.gotEnd = TRUE /\ j.rcvdEnd = TRUE
  BY <1>1 DEF Fits, Fields, Closed
<1> HIDE DEF j
<1>5. /\ j.up = k.up /\ j.first = k.first /\ j.got = k.got /\ j.rcvd = k.rcvd /\ j.down = k.down
      /\ j.sent = k.sent /\ j.back = k.back /\ j.gone = k.gone /\ j.cut = k.cut
  BY <1>3 DEF Agree, Fields
<1>6. Buffers(j) BY <1>1, <1>4, <1>5 DEF Carries, Buffers
<1>7. Unconnected(j) /\ Flags(j) BY <1>4 DEF Unconnected, Flags
<1>8. UpStream(j) BY <1>1, <1>4, <1>5 DEF Carries, UpStream, Handling
<1>9. DownStream(j) BY <1>1, <1>5 DEF Carries, DownStream
<1>10. Carries(j) BY <1>4, <1>6, <1>7, <1>8, <1>9 DEF Carries
<1>11. SameSent(j, k) /\ SameEnded(j, k) /\ SameGot(j, k) BY <1>3, SameBy
<1>12. SameClosed(j, k)
  <2>1. k.gotEnd /\ k.rcvdEnd /\ k.gotEnd \in BOOLEAN /\ k.rcvdEnd \in BOOLEAN
    BY <1>1, <1>2 DEF Carries, Flags, Buffers
  <2> QED BY <1>4, <2>1 DEF SameClosed, ClosedOf
<1>13. Streaming(c, j) BY <1>1, CarriesOn
<1>14. CASE LostOf(j)
  <2>1. LostOf(j) = TRUE BY <1>14 DEF LostOf
  <2>2. TunnelStep BY <1>11, <1>12, <1>13, <2>1, BreakSeen
  <2> QED BY <1>1, <1>10, <2>2, CarriesOn
<1>15. CASE ~LostOf(j)
  <2>1. SameLost(j, k) BY <1>2, <1>5, <1>15 DEF LostOf, SameLost
  <2>2. TunnelStep BY <1>11, <1>12, <1>13, <2>1, NothingSeen
  <2> QED BY <1>1, <1>10, <2>2, CarriesOn
<1> QED BY <1>14, <1>15

LEMMA CarriesCut ==
  ASSUME NEW j, NEW k, Carries(k), Agree(j, k, {"cut"}), j.cut = TRUE, k.phase = "relay"
  PROVE  Carries(j)
<1>1. /\ j.first = k.first /\ j.got = k.got /\ j.rcvd = k.rcvd /\ j.up = k.up /\ j.down = k.down
      /\ j.sent = k.sent /\ j.back = k.back /\ j.phase = k.phase /\ j.gone = k.gone
      /\ j.gotEnd = k.gotEnd /\ j.rcvdEnd = k.rcvdEnd /\ j.upDone = k.upDone /\ j.downDone = k.downDone
  BY DEF Agree, Fields
<1>2. Buffers(j) BY <1>1 DEF Carries, Buffers
<1>3. Unconnected(j) /\ Flags(j) BY <1>1 DEF Carries, Unconnected, Flags
<1>4. UpStream(j) BY <1>1 DEF Carries, UpStream
<1>5. DownStream(j) BY <1>1 DEF Carries, DownStream
<1> QED BY <1>1, <1>2, <1>3, <1>4, <1>5 DEF Carries

LEMMA CarryClientWrites ==
  ASSUME GatewayInv, StreamInv, NEW c \in Conns, ClientWrites(c)
  PROVE  StreamInv' /\ TunnelStep
<1> DEFINE k == conn[c]
           j == [k EXCEPT !.sent = @ + 1, !.up = Append(@, k.sent + 1)]
<1>1. Fits(k) /\ Units(k) /\ Carries(k) /\ Set(c, j) BY CarriedFacts DEF ClientWrites
<1>2. k.phase \in Handling /\ ~k.fin /\ ~k.gone BY DEF ClientWrites
<1>3. Agree(j, k, {"sent", "up"}) /\ j.sent = k.sent + 1 /\ j.up = Append(k.up, k.sent + 1)
  BY <1>1 DEF Agree, Fits, Fields
<1> HIDE DEF j
<1>4. /\ j.first = k.first /\ j.got = k.got /\ j.rcvd = k.rcvd /\ j.down = k.down
      /\ j.back = k.back /\ j.phase = k.phase /\ j.gone = k.gone /\ j.cut = k.cut
      /\ j.gotEnd = k.gotEnd /\ j.rcvdEnd = k.rcvdEnd /\ j.upDone = k.upDone /\ j.downDone = k.downDone
  BY <1>3 DEF Agree, Fields
<1>5. Buffers(j) BY <1>1, <1>4 DEF Carries, Buffers
<1>6. Unconnected(j) /\ Flags(j) BY <1>1, <1>4 DEF Carries, Unconnected, Flags
<1> DEFINE u == Len(k.up)  f == Len(k.first)  g == Len(k.got)  s == k.sent
<1>7. /\ u \in Nat /\ f \in Nat /\ g \in Nat /\ s \in Nat /\ k.up \in Seq(Nat)
      /\ u <= s /\ f <= s /\ g <= s /\ Numbered(k.up, s - u) /\ (~k.cut => g + f + u = s)
  <2>1. k.up \in Seq(Nat) /\ k.first \in Seq(Nat) /\ k.got \in Seq(Nat) /\ s \in Nat
    BY <1>1 DEF Units, Carries, Buffers
  <2>2. UpStream(k) BY <1>1 DEF Carries
  <2>3. u <= s /\ f <= s /\ g <= s /\ Numbered(k.up, s - u) BY <2>2 DEF UpStream
  <2>4. ~k.cut => g + f + u = s BY <1>2, <2>2 DEF UpStream
  <2>5. u \in Nat /\ f \in Nat /\ g \in Nat BY <2>1
  <2> HIDE DEF u, f, g, s
  <2> QED BY <2>1, <2>3, <2>4, <2>5
<1>8. Len(j.up) = u + 1 /\ Numbered(j.up, s - u)
  <2> DEFINE m == s - u
  <2> HIDE DEF u, f, g, s
  <2>1. m \in Nat /\ m + u + 1 = s + 1 BY <1>7
  <2> HIDE DEF m
  <2>2. m \in Nat /\ k.up \in Seq(Nat) /\ Numbered(k.up, m) /\ m + Len(k.up) + 1 = k.sent + 1
    BY <1>7, <2>1 DEF m, u, s
  <2>3. /\ Len(Append(k.up, k.sent + 1)) = Len(k.up) + 1
        /\ Numbered(Append(k.up, k.sent + 1), m)
    BY <2>2, NumberedAppend
  <2> QED BY <1>3, <2>3 DEF m, u
<1>9. j.sent = s + 1 /\ Len(j.first) = f /\ Len(j.got) = g BY <1>3, <1>4
<1> HIDE DEF u, f, g, s
<1>10. (s + 1) - (u + 1) = s - u /\ u + 1 <= s + 1 /\ f <= s + 1 /\ g <= s + 1
       /\ (~k.cut => g + f + (u + 1) = s + 1)
  BY <1>7
<1>11. Numbered(k.first, 0) /\ Numbered(k.got, 0) BY <1>1 DEF Carries, UpStream
<1>12. UpStream(j) BY <1>2, <1>4, <1>8, <1>9, <1>10, <1>11 DEF UpStream
<1>13. DownStream(j) BY <1>1, <1>4 DEF Carries, DownStream
<1>14. Carries(j) BY <1>2, <1>4, <1>5, <1>6, <1>12, <1>13 DEF Carries, Handling
<1>15. SameEnded(j, k) /\ SameGot(j, k) /\ SameClosed(j, k) /\ SameLost(j, k) BY <1>3, SameBy
<1>16. Streaming(c, j) BY <1>1, CarriesOn
<1>17. SentOf(k, "up") \in Nat /\ SentOf(k, "down") \in Nat
  BY <1>1 DEF SentOf, Units, Carries, Buffers
<1>18. \A e \in Directions : SentOf(j, e) = SentOf(k, e) + (IF e = "up" THEN 1 ELSE 0)
  <2>1. k.back \in Nat /\ k.back + 0 = k.back BY <1>17 DEF SentOf
  <2> QED BY <1>3, <1>4, <2>1 DEF SentOf, Directions
<1>19. ~EndedOf(k, "up") /\ "up" \in Directions BY <1>2 DEF EndedOf, Directions
<1>20. TunnelStep BY <1>15, <1>16, <1>17, <1>18, <1>19, WriteSeen
<1> QED BY <1>1, <1>14, <1>20, CarriesOn

LEMMA CarryBackendWrites ==
  ASSUME GatewayInv, StreamInv, NEW c \in Conns, BackendWrites(c)
  PROVE  StreamInv' /\ TunnelStep
<1> DEFINE k == conn[c]
           j == [k EXCEPT !.back = @ + 1, !.down = Append(@, k.back + 1)]
<1>1. Fits(k) /\ Units(k) /\ Carries(k) /\ Set(c, j) BY CarriedFacts DEF BackendWrites
<1>2. k.phase = "relay" /\ ~k.bfin BY DEF BackendWrites
<1>3. Agree(j, k, {"back", "down"}) /\ j.back = k.back + 1 /\ j.down = Append(k.down, k.back + 1)
  BY <1>1 DEF Agree, Fits, Fields
<1> HIDE DEF j
<1>4. /\ j.first = k.first /\ j.got = k.got /\ j.rcvd = k.rcvd /\ j.up = k.up
      /\ j.sent = k.sent /\ j.phase = k.phase /\ j.gone = k.gone /\ j.cut = k.cut
      /\ j.gotEnd = k.gotEnd /\ j.rcvdEnd = k.rcvdEnd /\ j.upDone = k.upDone /\ j.downDone = k.downDone
  BY <1>3 DEF Agree, Fields
<1> DEFINE g == Len(k.rcvd)  u == Len(k.down)  b == k.back
<1>5. /\ g \in Nat /\ u \in Nat /\ b \in Nat /\ k.down \in Seq(Nat) /\ k.rcvd \in Seq(Nat)
      /\ Numbered(k.rcvd, 0) /\ g <= b /\ (~k.gone => g + u = b /\ Numbered(k.down, g))
  <2>1. b \in Nat /\ k.down \in Seq(Nat) /\ k.rcvd \in Seq(Nat) BY <1>1 DEF Carries, Buffers
  <2>2. DownStream(k) BY <1>1 DEF Carries
  <2>3. Numbered(k.rcvd, 0) /\ g <= b /\ (~k.gone => g + u = b /\ Numbered(k.down, g))
    BY <2>2 DEF DownStream
  <2>4. g \in Nat /\ u \in Nat BY <2>1
  <2> HIDE DEF g, u, b
  <2> QED BY <2>1, <2>3, <2>4
<1>6. j.down \in Seq(Nat) /\ Len(j.down) = u + 1 /\ j.back = b + 1 /\ Len(j.rcvd) = g
  BY <1>3, <1>4, <1>5
<1>7. Buffers(j) BY <1>1, <1>3, <1>4, <1>5, <1>6 DEF Carries, Buffers
<1>8. Unconnected(j) /\ Flags(j) BY <1>1, <1>2, <1>4 DEF Carries, Unconnected, Flags
<1>9. UpStream(j) BY <1>1, <1>4 DEF Carries, UpStream
<1>10. ~k.gone => Numbered(j.down, g)
  <2> SUFFICES ASSUME ~k.gone PROVE Numbered(j.down, g) OBVIOUS
  <2>1. g + u = b /\ Numbered(k.down, g) BY <1>5
  <2>2. g + Len(k.down) + 1 = k.back + 1 BY <2>1
  <2>3. Numbered(Append(k.down, g + Len(k.down) + 1), g) BY <1>5, <2>1, NumberedAppend
  <2> QED BY <1>3, <2>2, <2>3
<1> HIDE DEF g, u, b
<1>11. g <= b + 1 /\ (~k.gone => g + (u + 1) = b + 1) BY <1>5
<1>12. DownStream(j)
  <2>1. Numbered(j.rcvd, 0) /\ Len(j.rcvd) <= j.back BY <1>4, <1>5, <1>6, <1>11
  <2>2. ~j.gone => Len(j.rcvd) + Len(j.down) = j.back /\ Numbered(j.down, Len(j.rcvd))
    BY <1>4, <1>6, <1>10, <1>11
  <2> QED BY <2>1, <2>2 DEF DownStream
<1>13. Carries(j) BY <1>2, <1>4, <1>7, <1>8, <1>9, <1>12 DEF Carries
<1>14. SameEnded(j, k) /\ SameGot(j, k) /\ SameClosed(j, k) BY <1>3, SameBy
<1>15. SameLost(j, k) BY <1>2, <1>4 DEF SameLost, LostOf
<1>16. Streaming(c, j) BY <1>1, CarriesOn
<1>17. SentOf(k, "up") \in Nat /\ SentOf(k, "down") \in Nat
  BY <1>1 DEF SentOf, Units, Carries, Buffers
<1>18. \A e \in Directions : SentOf(j, e) = SentOf(k, e) + (IF e = "down" THEN 1 ELSE 0)
  <2>1. k.sent \in Nat /\ k.sent + 0 = k.sent BY <1>17 DEF SentOf
  <2> QED BY <1>3, <1>4, <2>1 DEF SentOf, Directions
<1>19. ~EndedOf(k, "down") /\ "down" \in Directions BY <1>2 DEF EndedOf, Directions
<1>20. TunnelStep BY <1>14, <1>15, <1>16, <1>17, <1>18, <1>19, WriteSeen
<1> QED BY <1>1, <1>13, <1>20, CarriesOn

\* The end of a stream takes nothing from what it carries.
LEMMA CarriesFinished ==
  ASSUME NEW j, NEW k, Carries(k), Agree(j, k, {"fin"}) \/ Agree(j, k, {"bfin"}), k.phase # "idle"
  PROVE  Carries(j)
<1>1. /\ j.first = k.first /\ j.got = k.got /\ j.rcvd = k.rcvd /\ j.up = k.up /\ j.down = k.down
      /\ j.sent = k.sent /\ j.back = k.back /\ j.phase = k.phase /\ j.gone = k.gone /\ j.cut = k.cut
      /\ j.gotEnd = k.gotEnd /\ j.rcvdEnd = k.rcvdEnd /\ j.upDone = k.upDone /\ j.downDone = k.downDone
  BY DEF Agree, Fields
<1>2. Buffers(j) BY <1>1 DEF Carries, Buffers
<1>3. Unconnected(j) /\ Flags(j) BY <1>1 DEF Carries, Unconnected, Flags
<1>4. UpStream(j) BY <1>1 DEF Carries, UpStream
<1>5. DownStream(j) BY <1>1 DEF Carries, DownStream
<1> QED BY <1>1, <1>2, <1>3, <1>4, <1>5 DEF Carries

LEMMA CarryClientFinishes ==
  ASSUME GatewayInv, StreamInv, NEW c \in Conns, ClientFinishes(c)
  PROVE  StreamInv' /\ TunnelStep
<1> DEFINE k == conn[c]
           j == [k EXCEPT !.fin = TRUE]
<1>1. Fits(k) /\ Carries(k) /\ Set(c, j) /\ k.phase # "idle"
  BY CarriedFacts DEF ClientFinishes, Handling
<1>2. Agree(j, k, {"fin"}) /\ j.fin = TRUE BY <1>1 DEF Agree, Fits, Fields
<1> HIDE DEF j
<1>3. Carries(j) BY <1>1, <1>2, CarriesFinished
<1>4. SameSent(j, k) /\ SameGot(j, k) /\ SameClosed(j, k) /\ SameLost(j, k) BY <1>2, SameBy
<1>5. Streaming(c, j) BY <1>1, CarriesOn
<1>6. EndedOf(j, "up") = TRUE /\ "up" \in Directions BY <1>2 DEF EndedOf, Directions
<1>7. \A e \in Directions : e # "up" => EndedOf(j, e) = EndedOf(k, e)
  BY <1>2 DEF EndedOf, Agree, Fields
<1>8. TunnelStep BY <1>4, <1>5, <1>6, <1>7, FinishSeen
<1> QED BY <1>1, <1>3, <1>8, CarriesOn

LEMMA CarryBackendFinishes ==
  ASSUME GatewayInv, StreamInv, NEW c \in Conns, BackendFinishes(c)
  PROVE  StreamInv' /\ TunnelStep
<1> DEFINE k == conn[c]
           j == [k EXCEPT !.bfin = TRUE]
<1>1. Fits(k) /\ Carries(k) /\ Set(c, j) /\ k.phase # "idle"
  BY CarriedFacts DEF BackendFinishes, At
<1>2. Agree(j, k, {"bfin"}) /\ j.bfin = TRUE BY <1>1 DEF Agree, Fits, Fields
<1> HIDE DEF j
<1>3. Carries(j) BY <1>1, <1>2, CarriesFinished
<1>4. SameSent(j, k) /\ SameGot(j, k) /\ SameClosed(j, k) /\ SameLost(j, k) BY <1>2, SameBy
<1>5. Streaming(c, j) BY <1>1, CarriesOn
<1>6. EndedOf(j, "down") = TRUE /\ "down" \in Directions BY <1>2 DEF EndedOf, Directions
<1>7. \A e \in Directions : e # "down" => EndedOf(j, e) = EndedOf(k, e)
  BY <1>2 DEF EndedOf, Agree, Fields, Directions
<1>8. TunnelStep BY <1>4, <1>5, <1>6, <1>7, FinishSeen
<1> QED BY <1>1, <1>3, <1>8, CarriesOn

LEMMA CarryClientResets ==
  ASSUME GatewayInv, StreamInv, NEW c \in Conns, ClientResets(c)
  PROVE  StreamInv' /\ TunnelStep
<1> DEFINE k == conn[c]
           j == [k EXCEPT !.gone = TRUE, !.up = <<>>]
<1>1. Fits(k) /\ Units(k) /\ Carries(k) /\ Set(c, j) /\ k.phase \in Handling
  BY CarriedFacts DEF ClientResets
<1>2. Agree(j, k, {"gone", "up"}) /\ j.gone = TRUE /\ j.up = <<>> BY <1>1 DEF Agree, Fits, Fields
<1> HIDE DEF j
<1>3. /\ j.first = k.first /\ j.got = k.got /\ j.rcvd = k.rcvd /\ j.down = k.down
      /\ j.sent = k.sent /\ j.back = k.back /\ j.phase = k.phase /\ j.cut = k.cut
      /\ j.gotEnd = k.gotEnd /\ j.rcvdEnd = k.rcvdEnd /\ j.upDone = k.upDone /\ j.downDone = k.downDone
  BY <1>2 DEF Agree, Fields
<1>4. Buffers(j) BY <1>1, <1>3 DEF Carries, Buffers
<1>5. Unconnected(j) /\ Flags(j) BY <1>1, <1>3 DEF Carries, Unconnected, Flags
<1>6. UpStream(j)
  <2>1. 0 <= k.sent BY <1>1 DEF Units
  <2> QED BY <1>1, <1>2, <1>3, <2>1, Empty DEF Carries, UpStream
<1>7. DownStream(j) BY <1>1, <1>2, <1>3 DEF Carries, DownStream
<1>8. Carries(j) BY <1>1, <1>3, <1>4, <1>5, <1>6, <1>7 DEF Carries, Handling
<1>9. LostOf(j) = TRUE BY <1>2 DEF LostOf
<1>10. SameSent(j, k) /\ SameEnded(j, k) /\ SameGot(j, k) /\ SameClosed(j, k) BY <1>2, SameBy
<1>11. Streaming(c, j) BY <1>1, CarriesOn
<1>12. TunnelStep BY <1>9, <1>10, <1>11, BreakSeen
<1> QED BY <1>1, <1>8, <1>12, CarriesOn

\* A backend that stops cuts all its connections.
LEMMA CarryBackendStops ==
  ASSUME GatewayInv, StreamInv, NEW r, BackendStops(r)
  PROVE  StreamInv' /\ TunnelStep
<1> DEFINE Cuts(c) == At(c, "relay") /\ conn[c].route = r
           j(c) == IF Cuts(c) THEN [conn[c] EXCEPT !.cut = TRUE] ELSE conn[c]
           S == {s \in Streams : Cuts(s[1])}
<1>1. conn' = [c \in Conns |-> j(c)] BY DEF BackendStops
<1>2. ASSUME NEW c \in Conns
      PROVE  /\ Carries(j(c)) /\ SameSent(j(c), conn[c]) /\ SameEnded(j(c), conn[c])
             /\ SameGot(j(c), conn[c]) /\ SameClosed(j(c), conn[c])
             /\ LostOf(j(c)) = (LostOf(conn[c]) \/ Cuts(c))
  <2>1. Fits(conn[c]) /\ Carries(conn[c]) BY CarriedFacts
  <2>2. CASE ~Cuts(c)
    BY <2>1, <2>2 DEF SameSent, SameEnded, SameGot, SameClosed, LostOf
  <2>3. CASE Cuts(c)
    <3> DEFINE i == [conn[c] EXCEPT !.cut = TRUE]
    <3>1. Agree(i, conn[c], {"cut"}) /\ i.cut = TRUE BY <2>1 DEF Agree, Fits, Fields
    <3>2. j(c) = i /\ conn[c].phase = "relay" BY <2>3 DEF At
    <3> HIDE DEF i, j, Cuts
    <3>3. Carries(i) BY <2>1, <3>1, <3>2, CarriesCut
    <3>4. LostOf(i) = TRUE BY <3>1 DEF LostOf
    <3>5. SameSent(i, conn[c]) /\ SameEnded(i, conn[c]) /\ SameGot(i, conn[c]) /\ SameClosed(i, conn[c])
      BY <3>1, SameBy
    <3>6. (LostOf(conn[c]) \/ Cuts(c)) = TRUE BY <2>3
    <3> QED BY <3>2, <3>3, <3>4, <3>5, <3>6
  <2> QED BY <2>2, <2>3
<1> HIDE DEF j, Cuts
<1>3. StreamInv' BY <1>1, <1>2 DEF StreamInv
<1>4. sentView' = sentView /\ endedView' = endedView
  BY <1>1, <1>2, StreamFacts DEF sentView, endedView, SameSent, SameEnded
<1>5. gotView' = gotView BY <1>1, <1>2, StreamFacts DEF gotView, SameGot
<1>6. closedView' = closedView BY <1>1, <1>2, StreamFacts DEF closedView, SameClosed
<1>7. brokenView' = [s \in Streams |-> brokenView[s] \/ s \in S]
  <2>1. brokenView' = [s \in Streams |-> LostOf(j(s[1]))] BY <1>1, StreamFacts DEF brokenView
  <2>2. ASSUME NEW s \in Streams PROVE LostOf(j(s[1])) = (brokenView[s] \/ s \in S)
    BY <1>2, StreamFacts DEF brokenView
  <2> QED BY <2>1, <2>2
<1>8. closedView = [s \in Streams |-> closedView[s] \/ s \in {}]
  <2>1. ASSUME NEW s \in Streams PROVE closedView[s] \in BOOLEAN
    <3>1. Carries(conn[s[1]]) BY StreamFacts DEF StreamInv
    <3> QED BY <3>1, StreamFacts DEF closedView, ClosedOf, Directions, Carries, Buffers
  <2> QED BY <2>1 DEF closedView
<1>9. PICK X \in SUBSET Streams : X = S OBVIOUS
<1>10. TunnelView!Break(X) <=>
        /\ brokenView' = [s \in Streams |-> brokenView[s] \/ s \in X]
        /\ \E T \in SUBSET X : closedView' = [s \in Streams |-> closedView[s] \/ s \in T]
        /\ UNCHANGED <<sentView, endedView, gotView>>
  BY DEF TunnelView!Break, sentView, endedView, gotView, closedView, brokenView,
         SentOf, EndedOf, GotOf, ClosedOf, LostOf, Lost, Refused
<1>11. closedView' = [s \in Streams |-> closedView[s] \/ s \in {}] BY <1>6, <1>8
<1>12. brokenView' = [s \in Streams |-> brokenView[s] \/ s \in X] BY <1>7, <1>9
<1> HIDE DEF S
<1>13. {} \in SUBSET X OBVIOUS
<1>14. TunnelView!Break(X) BY <1>4, <1>5, <1>10, <1>11, <1>12, <1>13
<1>15. TunnelStep BY <1>14 DEF TunnelView!Next, TunnelStep
<1> QED BY <1>3, <1>15

LEMMA CarryInit == Init => StreamInv
<1> SUFFICES ASSUME Init, NEW c \in Conns PROVE Carries(conn[c]) BY DEF StreamInv
<1>1. conn[c] = Idle BY DEF Init
<1>2. /\ Idle.phase = "idle" /\ Idle.first = <<>> /\ Idle.got = <<>> /\ Idle.rcvd = <<>>
      /\ Idle.up = <<>> /\ Idle.down = <<>> /\ Idle.sent = 0 /\ Idle.back = 0
      /\ Idle.gotEnd = FALSE /\ Idle.rcvdEnd = FALSE
  BY DEF Idle
<1>3. Buffers(Idle)
  <2>1. Idle.got \in Seq(Nat) /\ Idle.rcvd \in Seq(Nat) /\ Idle.down \in Seq(Nat) /\ Idle.back \in Nat
    BY <1>2, Empty
  <2>2. Idle.gotEnd \in BOOLEAN /\ Idle.rcvdEnd \in BOOLEAN BY <1>2
  <2> QED BY <2>1, <2>2 DEF Buffers
<1>4. Unconnected(Idle) /\ Flags(Idle) BY <1>2 DEF Unconnected, Flags
<1>5. UpStream(Idle) BY <1>2, Empty DEF UpStream, Handling
<1>6. DownStream(Idle) BY <1>2, Empty DEF DownStream
<1> QED BY <1>1, <1>3, <1>4, <1>5, <1>6 DEF Carries

LEMMA CarryQuiet ==
  ASSUME StreamInv, UNCHANGED conn
  PROVE  StreamInv' /\ TunnelStep
BY DEF StreamInv, TunnelStep, Stutters, sentView, endedView, gotView, closedView, brokenView

LEMMA CarryNext ==
  ASSUME GatewayInv, StreamInv, [Next]_vars
  PROVE  StreamInv' /\ TunnelStep
<1>1. CASE \E c \in Conns : Handler(c)
  BY <1>1, CarryRoute, CarryPeek, CarryOpen, CarryPipeUp, CarryPipeUpEnds, CarryPipeDown,
     CarryPipeDownEnds, CarryHandlerEnds DEF Handler
<1>2. CASE \E c \in Conns : FirstWriteFails(c) BY <1>2, CarryFirstWriteFails
<1>3. CASE \E c \in Conns : \E client \in Clients, p \in Ports, login \in Logins : Connect(c, client, p, login)
  BY <1>3, CarryConnect
<1>4. CASE \E c \in Conns : ClientWrites(c) \/ ClientFinishes(c) \/ ClientResets(c)
  BY <1>4, CarryClientWrites, CarryClientFinishes, CarryClientResets
<1>5. CASE \E c \in Conns : BackendWrites(c) \/ BackendFinishes(c)
  BY <1>5, CarryBackendWrites, CarryBackendFinishes
<1>6. CASE \E r \in Backends : BackendStops(r) BY <1>6, CarryBackendStops
<1>7. CASE \E b \in Bindings, x \in Assets : WriteRoute(b, x) BY <1>7, CarryQuiet DEF WriteRoute
<1>8. CASE UNCHANGED vars BY <1>8, CarryQuiet DEF vars
<1> QED BY <1>1, <1>2, <1>3, <1>4, <1>5, <1>6, <1>7, <1>8 DEF Next

\* The tunnel starts empty.
LEMMA TunnelStarts == Init => TunnelView!Init
<1> SUFFICES ASSUME Init PROVE TunnelView!Init OBVIOUS
<1>1. ASSUME NEW s \in Streams PROVE conn[s[1]] = Idle BY StreamFacts DEF Init
<1>2. /\ Idle.phase = "idle" /\ Idle.sent = 0 /\ Idle.back = 0 /\ Idle.fin = FALSE /\ Idle.bfin = FALSE
      /\ Idle.got = <<>> /\ Idle.rcvd = <<>> /\ Idle.gotEnd = FALSE /\ Idle.rcvdEnd = FALSE
      /\ Idle.gone = FALSE /\ Idle.cut = FALSE
  BY DEF Idle
<1> HIDE DEF Idle
<1>3. sentView = [s \in Streams |-> 0] BY <1>1, <1>2 DEF sentView, SentOf
<1>4. endedView = [s \in Streams |-> FALSE] BY <1>1, <1>2 DEF endedView, EndedOf
<1>5. gotView = [s \in Streams |-> <<>>] BY <1>1, <1>2 DEF gotView, GotOf
<1>6. closedView = [s \in Streams |-> FALSE] BY <1>1, <1>2 DEF closedView, ClosedOf
<1>7. brokenView = [s \in Streams |-> FALSE] BY <1>1, <1>2 DEF brokenView, LostOf
<1> QED BY <1>3, <1>4, <1>5, <1>6, <1>7, ViewsAre

\* What is read, buffered and delivered of a stream is numbered on without a gap.
THEOREM StreamInvariant == Spec => []StreamInv
<1>1. StreamInv /\ GatewayInv /\ [Next]_vars => StreamInv' BY CarryNext
<1> QED BY <1>1, CarryInit, GatewayInvariant, PTL DEF Spec

\* What the two ends of every connection see of each other is a Tunnel, whatever
\* the gateway reads, buffers, reports and gives up in between, and whenever either
\* end, the backend or the routes go away.
THEOREM TransparentTheorem == Spec => Transparent
<1>1. GatewayInv /\ StreamInv /\ [Next]_vars => [TunnelView!Next]_(TunnelView!vars)
  <2> SUFFICES ASSUME GatewayInv, StreamInv, [Next]_vars PROVE [TunnelView!Next]_(TunnelView!vars)
    OBVIOUS
  <2>1. TunnelStep BY CarryNext
  <2>2. Stutters => UNCHANGED TunnelView!vars
    BY DEF Stutters, TunnelView!vars, sentView, endedView, gotView, closedView, brokenView,
           SentOf, EndedOf, GotOf, ClosedOf, LostOf, Lost, Refused
  <2> QED BY <2>1, <2>2 DEF TunnelStep
<1> QED BY <1>1, TunnelStarts, StreamInvariant, GatewayInvariant, PTL DEF Spec, Transparent, TunnelView!Spec

-------------------------------------------------------------------------------
(* What the observers have seen: of an observed backend's connection always  *)
(* the first n units, where n only lags behind what the client has sent by   *)
(* what is still buffered in the gateway.                                    *)

Tallied(reported, n) == InOrder(reported) /\ Seen(reported) = 1..n

LEMMA OneMore ==
  ASSUME NEW r \in Seq(Reports), NEW e
  PROVE  /\ DOMAIN (r \o <<e>>) = 1..(Len(r) + 1)
         /\ DOMAIN r = 1..Len(r) /\ Len(r) \in Nat
         /\ \A i \in DOMAIN r : (r \o <<e>>)[i] = r[i]
         /\ (r \o <<e>>)[Len(r) + 1] = e
OBVIOUS

LEMMA NothingReported ==
  ASSUME NEW r, r = <<>>
  PROVE  Tallied(r, 0)
<1>1. Observations(r) = {} BY DEF Observations
<1> QED BY <1>1 DEF Tallied, InOrder, Seen

\* A request is no observation.
LEMMA RequestReported ==
  ASSUME NEW r \in Seq(Reports), NEW n, Tallied(r, n), NEW e, e.kind # "protocol"
  PROVE  Tallied(r \o <<e>>, n)
<1> DEFINE w == r \o <<e>>
<1>1. /\ DOMAIN w = 1..(Len(r) + 1) /\ DOMAIN r = 1..Len(r) /\ Len(r) \in Nat
      /\ \A i \in DOMAIN r : w[i] = r[i]
      /\ w[Len(r) + 1] = e
  BY OneMore
<1> HIDE DEF w
<1>2. Observations(w) = Observations(r)
  <2>1. ASSUME NEW i \in DOMAIN w, w[i].kind = "protocol" PROVE i \in DOMAIN r
    BY <1>1, <2>1
  <2> QED BY <1>1, <2>1 DEF Observations
<1>3. \A i \in Observations(r) : w[i] = r[i] BY <1>1 DEF Observations
<1>4. InOrder(w) BY <1>2, <1>3 DEF Tallied, InOrder
<1>5. Seen(w) = Seen(r) BY <1>2, <1>3 DEF Seen
<1>6. Tallied(w, n) BY <1>4, <1>5 DEF Tallied
<1> QED BY <1>6 DEF w

\* An observation of the units that come next.
LEMMA UnitsReported ==
  ASSUME NEW r \in Seq(Reports), NEW n \in Nat, Tallied(r, n), NEW e, e.kind = "protocol",
         NEW u \in Seq(Nat), e.units = u, Numbered(u, n)
  PROVE  Tallied(r \o <<e>>, n + Len(u))
<1> DEFINE w == r \o <<e>>
           l == Len(r) + 1
<1>1. /\ DOMAIN w = 1..l /\ DOMAIN r = 1..Len(r) /\ Len(r) \in Nat
      /\ \A i \in DOMAIN r : w[i] = r[i]
      /\ w[l] = e
  BY OneMore
<1> HIDE DEF w
<1>2. Observations(w) = Observations(r) \cup {l} BY <1>1 DEF Observations
<1>3. ASSUME NEW i \in Observations(r) PROVE w[i] = r[i] /\ i < l /\ i \in Nat
  BY <1>1, <1>3 DEF Observations
<1>4. w[l].units = u /\ l \in Nat BY <1>1
<1>5. ASSUME NEW m \in DOMAIN u PROVE u[m] = n + m /\ m \in 1..Len(u)
  BY <1>5 DEF Numbered
<1>6. ASSUME NEW i \in Observations(r), NEW m \in DOMAIN r[i].units PROVE r[i].units[m] \in 1..n
  <2>1. r[i].units[m] \in Seen(r) BY <1>6 DEF Seen, Range
  <2> QED BY <2>1 DEF Tallied
<1> HIDE DEF l
<1>7. InOrder(w)
  <2> SUFFICES ASSUME NEW i \in Observations(w), NEW j \in Observations(w),
                      NEW a \in DOMAIN w[i].units, NEW b \in DOMAIN w[j].units,
                      i < j \/ (i = j /\ a < b)
               PROVE  w[i].units[a] < w[j].units[b]
    BY DEF InOrder
  <2>1. CASE i \in Observations(r) /\ j \in Observations(r)
    <3>1. w[i] = r[i] /\ w[j] = r[j] BY <1>3, <2>1
    <3> QED BY <2>1, <3>1 DEF Tallied, InOrder
  <2>2. CASE i \in Observations(r) /\ j = l
    <3>1. w[i].units[a] \in 1..n BY <1>3, <1>6, <2>2
    <3>2. w[j].units[b] = n + b /\ b \in 1..Len(u) BY <1>4, <1>5, <2>2
    <3> QED BY <3>1, <3>2
  <2>3. CASE i = l /\ j = l
    <3>1. w[i].units[a] = n + a /\ a \in 1..Len(u) BY <1>4, <1>5, <2>3
    <3>2. w[j].units[b] = n + b /\ b \in 1..Len(u) BY <1>4, <1>5, <2>3
    <3>3. a < b BY <1>4, <2>3
    <3> QED BY <3>1, <3>2, <3>3
  <2>4. CASE i = l /\ j \in Observations(r) BY <1>3, <1>4, <2>4
  <2> QED BY <1>2, <2>1, <2>2, <2>3, <2>4
<1>8. Seen(w) = 1..(n + Len(u))
  <2>1. ASSUME NEW x \in Seen(w) PROVE x \in 1..(n + Len(u))
    <3>1. PICK i \in Observations(w) : x \in Range(w[i].units) BY <2>1 DEF Seen
    <3>2. PICK m \in DOMAIN w[i].units : x = w[i].units[m] BY <3>1 DEF Range
    <3>3. CASE i = l
      <4>1. x = n + m /\ m \in 1..Len(u) BY <1>4, <1>5, <3>2, <3>3
      <4> QED BY <4>1
    <3>4. CASE i \in Observations(r)
      <4>1. x \in 1..n BY <1>3, <1>6, <3>2, <3>4
      <4> QED BY <4>1
    <3> QED BY <1>2, <3>3, <3>4
  <2>2. ASSUME NEW x \in 1..(n + Len(u)) PROVE x \in Seen(w)
    <3>1. CASE x <= n
      <4>1. x \in Seen(r) BY <2>2, <3>1 DEF Tallied
      <4>2. PICK i \in Observations(r) : x \in Range(r[i].units) BY <4>1 DEF Seen
      <4>3. w[i] = r[i] /\ i \in Observations(w) BY <1>2, <1>3, <4>2
      <4> QED BY <4>2, <4>3 DEF Seen
    <3>2. CASE x > n
      <4>1. x - n \in DOMAIN u BY <2>2, <3>2
      <4>2. u[x - n] = x BY <1>5, <2>2, <4>1
      <4>3. x \in Range(w[l].units) BY <1>4, <4>1, <4>2 DEF Range
      <4> QED BY <1>2, <4>3 DEF Seen
    <3> QED BY <2>2, <3>1, <3>2
  <2> QED BY <2>1, <2>2
<1>9. Tallied(w, n + Len(u)) BY <1>7, <1>8 DEF Tallied
<1> QED BY <1>9 DEF w

LEMMA ObservedReported ==
  ASSUME NEW c, Asset(c) \in Observed, NEW r \in Seq(Reports), NEW n \in Nat, Tallied(r, n),
         NEW u \in Seq(Nat), Numbered(u, n)
  PROVE  Tallied(r \o ObservedUnits(c, u), n + Len(u))
<1>1. CASE u = <<>>
  <2>1. ObservedUnits(c, u) = <<>> BY <1>1 DEF ObservedUnits
  <2>2. r \o ObservedUnits(c, u) = r BY <2>1
  <2>3. n + Len(u) = n BY <1>1, Empty
  <2> QED BY <2>2, <2>3
<1>2. CASE u # <<>>
  <2> DEFINE e == Event(c, "protocol", u, "none")
  <2>1. ObservedUnits(c, u) = <<e>> BY <1>2 DEF ObservedUnits
  <2>2. e.kind = "protocol" /\ e.units = u BY DEF Event
  <2> HIDE DEF e
  <2> QED BY <2>1, <2>2, UnitsReported
<1> QED BY <1>1, <1>2

Unobserved(k) == IF k.route[2] \in Capture THEN 0 ELSE Len(k.first)
Position(k, n) ==
  /\ k.phase \in Attached /\ ~k.gone => n + Unobserved(k) + Len(k.up) = k.sent
  /\ k.phase = "connect" => IF k.route[2] \in Capture THEN n = Len(k.first) ELSE n = 0
  /\ k.phase = "peek" => n = 0
Accounted(k, reported) == k.route # NoRoute /\ k.route[2] \in Observed =>
  \E n \in Len(k.got)..k.sent : Tallied(reported, n) /\ Position(k, n)
ObservedInv == \A c \in Conns : Accounted(conn[c], events[c])

LEMMA AccountsOn ==
  ASSUME GatewayInv, ObservedInv, NEW c \in Conns, NEW j, NEW r, Set(c, j),
         events' = [events EXCEPT ![c] = r], Accounted(j, r)
  PROVE  ObservedInv'
<1>1. conn' = [d \in Conns |-> IF d = c THEN j ELSE conn[d]] BY DEF GatewayInv, Set
<1>2. events' = [d \in Conns |-> IF d = c THEN r ELSE events[d]] BY DEF GatewayInv
<1> QED BY <1>1, <1>2 DEF ObservedInv

\* What changes neither what was reported nor what is left to report.
LEMMA SameAccount ==
  ASSUME NEW j, NEW k, NEW r, Accounted(k, r), j.route = k.route, j.got = k.got, j.first = k.first,
         j.sent = k.sent, j.phase = k.phase \/ j.phase \in {"closed", "leaked"},
         j.gone \/ (j.up = k.up /\ j.gone = k.gone) \/ j.phase \in {"closed", "leaked"}
  PROVE  Accounted(j, r)
<1> SUFFICES ASSUME j.route # NoRoute, j.route[2] \in Observed
             PROVE  \E n \in Len(j.got)..j.sent : Tallied(r, n) /\ Position(j, n)
  BY DEF Accounted
<1>1. PICK n \in Len(k.got)..k.sent : Tallied(r, n) /\ Position(k, n) BY DEF Accounted
<1>2. Position(j, n) BY <1>1 DEF Position, Unobserved, Attached
<1> QED BY <1>1, <1>2

LEMMA QuietAccount ==
  ASSUME GatewayInv, StreamInv, ObservedInv, NEW c \in Conns, NEW j, Set(c, j), events' = events,
         j.route = conn[c].route, j.got = conn[c].got, j.first = conn[c].first, j.sent = conn[c].sent,
         j.phase = conn[c].phase \/ j.phase \in {"closed", "leaked"},
         j.gone \/ (j.up = conn[c].up /\ j.gone = conn[c].gone) \/ j.phase \in {"closed", "leaked"}
  PROVE  ObservedInv'
<1>1. Accounted(conn[c], events[c]) BY DEF ObservedInv
<1>2. Accounted(j, events[c]) BY <1>1, SameAccount
<1>3. events' = [events EXCEPT ![c] = events[c]] BY DEF GatewayInv
<1> QED BY <1>2, <1>3, AccountsOn

\* The fields that no account is about.
Aside == {"fin", "gotEnd", "back", "down", "bfin", "cut", "rcvd", "rcvdEnd", "upDone", "downDone"}
LEMMA AsideAccount ==
  ASSUME GatewayInv, StreamInv, ObservedInv, NEW c \in Conns, NEW j, Set(c, j), events' = events,
         Agree(j, conn[c], Aside)
  PROVE  ObservedInv'
<1>1. /\ j.route = conn[c].route /\ j.got = conn[c].got /\ j.first = conn[c].first
      /\ j.sent = conn[c].sent /\ j.phase = conn[c].phase /\ j.up = conn[c].up
      /\ j.gone = conn[c].gone
  BY DEF Agree, Fields, Aside
<1> QED BY <1>1, QuietAccount

LEMMA ClosedAccount ==
  ASSUME GatewayInv, StreamInv, ObservedInv, NEW c \in Conns, NEW i, Set(c, Closed(i)),
         Agree(i, conn[c], {"up"}), NEW r, Accounted(conn[c], r), events' = [events EXCEPT ![c] = r]
  PROVE  ObservedInv'
<1> DEFINE j == Closed(i)
<1>1. /\ j.phase = "closed" /\ j.route = i.route /\ j.got = i.got /\ j.first = i.first /\ j.sent = i.sent
  BY DEF Agree, Fits, Fields, Closed
<1>2. /\ i.route = conn[c].route /\ i.got = conn[c].got /\ i.first = conn[c].first
      /\ i.sent = conn[c].sent
  BY DEF Agree, Fields
<1>3. Set(c, j) OBVIOUS
<1> HIDE DEF j
<1>4. Accounted(j, r) BY <1>1, <1>2, SameAccount
<1> QED BY <1>3, <1>4, AccountsOn

LEMMA AccountConnect ==
  ASSUME GatewayInv, StreamInv, ObservedInv, NEW c \in Conns, NEW client, NEW p, NEW login,
         Connect(c, client, p, login)
  PROVE  ObservedInv'
<1> DEFINE j == [Idle EXCEPT !.phase = "accepted", !.client = client, !.port = p, !.login = login]
<1>1. j.route = NoRoute BY DEF Idle
<1>2. Set(c, j) /\ events' = [events EXCEPT ![c] = events[c]] BY DEF Connect, GatewayInv
<1> HIDE DEF j
<1>3. Accounted(j, events[c]) BY <1>1 DEF Accounted
<1> QED BY <1>2, <1>3, AccountsOn

LEMMA AccountRoute ==
  ASSUME GatewayInv, StreamInv, ObservedInv, NEW c \in Conns, Route(c)
  PROVE  ObservedInv'
<1> DEFINE k == conn[c]
<1>1. Fits(k) /\ Units(k) /\ Carries(k) /\ k.phase = "accepted" BY CarriedFacts DEF Route, At
<1>2. events' = [events EXCEPT ![c] = events[c]] /\ Accounted(k, events[c])
  BY DEF Route, GatewayInv, ObservedInv
<1>3. CASE Set(c, Closed(k))
  <2>1. Agree(k, k, {"up"}) BY <1>1 DEF Agree
  <2> QED BY <1>2, <1>3, <2>1, ClosedAccount
<1>4. CASE \E r \in Backends :
             Set(c, [k EXCEPT !.phase = IF k.port \in HttpPorts THEN "peek" ELSE "connect",
                              !.route = r, !.alone = OfPort(k.port) = {r}])
  <2>1. PICK r \in Backends :
             Set(c, [k EXCEPT !.phase = IF k.port \in HttpPorts THEN "peek" ELSE "connect",
                              !.route = r, !.alone = OfPort(k.port) = {r}])
    BY <1>4
  <2> DEFINE j == [k EXCEPT !.phase = IF k.port \in HttpPorts THEN "peek" ELSE "connect",
                            !.route = r, !.alone = OfPort(k.port) = {r}]
  <2>2. Agree(j, k, {"phase", "route", "alone"}) /\ j.phase \in {"peek", "connect"}
    BY <1>1 DEF Agree, Fits, Fields
  <2>3. Set(c, j) BY <2>1
  <2> HIDE DEF j
  <2>4. j.first = k.first /\ j.got = k.got /\ j.up = k.up /\ j.sent = k.sent /\ j.gone = k.gone
    BY <2>2 DEF Agree, Fields
  <2>5. k.first = <<>> /\ k.got = <<>> /\ ~k.cut BY <1>1 DEF Carries, Unconnected
  <2>6. events[c] = <<>> BY <1>1 DEF GatewayInv, Sound, Attribution
  <2>7. Tallied(events[c], 0) BY <2>6, NothingReported
  <2>8. k.sent \in Nat /\ Len(k.up) \in Nat /\ 0 \in Len(j.got)..j.sent
    <3>1. k.sent \in Nat /\ Len(k.up) \in Nat /\ Len(j.got) = 0 BY <1>1, <2>4, <2>5, Empty DEF Units
    <3> QED BY <2>4, <3>1
  <2>9. ~k.gone => 0 + 0 + Len(k.up) = k.sent
    <3>1. UpStream(k) /\ k.phase \in Handling BY <1>1 DEF Carries, Handling
    <3>2. ~k.gone => Len(k.got) + Len(k.first) + Len(k.up) = k.sent BY <2>5, <3>1 DEF UpStream
    <3>3. Len(k.got) = 0 /\ Len(k.first) = 0 BY <2>5, Empty
    <3> QED BY <3>2, <3>3
  <2>10. Unobserved(j) = 0 /\ Len(j.first) = 0 BY <2>4, <2>5, Empty DEF Unobserved
  <2>11. Position(j, 0) BY <2>4, <2>9, <2>10 DEF Position
  <2>12. Accounted(j, events[c]) BY <2>7, <2>8, <2>11 DEF Accounted
  <2> QED BY <1>2, <2>3, <2>12, AccountsOn
<1> QED BY <1>3, <1>4 DEF Route

LEMMA AccountPeek ==
  ASSUME GatewayInv, StreamInv, ObservedInv, NEW c \in Conns, Peek(c)
  PROVE  ObservedInv'
<1> DEFINE k == conn[c]
           first == FirstRead(c)
           Request(auth) == IF first = <<>> THEN <<>> ELSE <<Event(c, "http", first, auth)>>
           captured == IF Asset(c) \in Capture THEN ObservedUnits(c, first) ELSE <<>>
<1>1. Fits(k) /\ Units(k) /\ Carries(k) /\ k.phase = "peek" BY CarriedFacts DEF Peek, At
<1>2. first = k.up /\ k.up \in Seq(Nat) /\ k.sent \in Nat BY <1>1 DEF Units, FirstRead
<1>3. PICK auth \in Answers(c) :
        IF auth = "none"
          THEN /\ Set(c, [k EXCEPT !.phase = "connect", !.first = first, !.up = <<>>])
               /\ Report(c, Request(auth) \o captured)
          ELSE Set(c, AnsweredHere(k)) /\ Report(c, Request(auth))
  BY DEF Peek
<1>4. Sound(k, events[c]) /\ events[c] \in Seq(Reports) /\ k.phase \in Attached
  BY <1>1 DEF GatewayInv, Sound, Attached
<1>5. auth \in {"none", "success", "failure"} BY <1>3 DEF Answers
<1> DEFINE q == events[c] \o Request(auth)
<1>6. /\ q \in Seq(Reports)
      /\ \A n : Tallied(events[c], n) => Tallied(q, n)
  <2> DEFINE e == Event(c, "http", first, auth)
  <2>1. e \in Reports BY <1>2, <1>4, <1>5, EventFacts DEF OwnReport
  <2>2. e.kind # "protocol" BY DEF Event
  <2> HIDE DEF e, first
  <2>3. CASE Request(auth) = <<e>>
    <3>1. q = events[c] \o <<e>> BY <2>3
    <3>2. events[c] \o <<e>> \in Seq(Reports) BY <1>4, <2>1
    <3>3. \A n : Tallied(events[c], n) => Tallied(events[c] \o <<e>>, n)
      BY <1>4, <2>2, RequestReported
    <3> QED BY <3>1, <3>2, <3>3
  <2>4. CASE Request(auth) = <<>>
    <3>1. events[c] \o <<>> = events[c] BY <1>4
    <3>2. q = events[c] \o <<>> BY <2>4
    <3> HIDE DEF q, Request
    <3> QED BY <1>4, <3>1, <3>2
  <2> QED BY <2>3, <2>4 DEF e
<1>7. Request(auth) \in Seq(Reports)
  <2> DEFINE e == Event(c, "http", first, auth)
  <2>1. e \in Reports BY <1>2, <1>4, <1>5, EventFacts DEF OwnReport
  <2> HIDE DEF e, first
  <2>3. CASE Request(auth) = <<e>> BY <2>1, <2>3
  <2>4. CASE Request(auth) = <<>> BY <2>4
  <2> QED BY <2>3, <2>4 DEF e
<1>8. Accounted(k, events[c]) BY DEF ObservedInv
<1> HIDE DEF Request, captured
<1>9. CASE auth # "none"
  <2> DEFINE a == [k EXCEPT !.up = <<>>]
  <2>1. Set(c, Closed(a)) BY <1>3, <1>9 DEF AnsweredHere
  <2>2. Agree(a, k, {"up"}) BY <1>1 DEF Agree, Fits, Fields
  <2> HIDE DEF a
  <2>3. Accounted(k, q) BY <1>6, <1>8 DEF Accounted
  <2>4. events' = [events EXCEPT ![c] = q] BY <1>3, <1>9 DEF Report
  <2> HIDE DEF q
  <2> QED BY <2>1, <2>2, <2>3, <2>4, ClosedAccount
<1>10. CASE auth = "none"
  <2> DEFINE j == [k EXCEPT !.phase = "connect", !.first = first, !.up = <<>>]
             r == q \o captured
  <2>1. Set(c, j) /\ Report(c, Request(auth) \o captured) BY <1>3, <1>10
  <2>2. Agree(j, k, {"phase", "first", "up"}) /\ j.phase = "connect" /\ j.up = <<>> /\ j.first = k.up
    BY <1>1, <1>2 DEF Agree, Fits, Fields
  <2> HIDE DEF j
  <2>3. j.got = k.got /\ j.sent = k.sent /\ j.gone = k.gone /\ j.route = k.route
    BY <2>2 DEF Agree, Fields
  <2>4. captured \in Seq(Reports)
    <3>1. ObservedUnits(c, first) \in Seq(Reports) BY <1>2, <1>4, ObservedFacts
    <3> HIDE DEF first
    <3>2. CASE captured = <<>> BY <3>2
    <3>3. CASE captured = ObservedUnits(c, first) BY <3>1, <3>3
    <3> QED BY <3>2, <3>3 DEF captured
  <2>5. events' = [events EXCEPT ![c] = r]
    <3>1. r = events[c] \o (Request(auth) \o captured)
      BY <1>4, <1>7, <2>4, ReportsConcat, Zenon
    <3> QED BY <2>1, <3>1 DEF Report
  <2>6. ASSUME k.route # NoRoute, k.route[2] \in Observed
        PROVE  \E n \in Len(j.got)..j.sent : Tallied(r, n) /\ Position(j, n)
    <3>1. PICK n \in Len(k.got)..k.sent : Tallied(events[c], n) /\ Position(k, n)
      BY <1>8, <2>6 DEF Accounted
    <3>2. n = 0 BY <1>1, <3>1 DEF Position
    <3>3. Tallied(q, 0) BY <1>6, <3>1, <3>2
    <3>4. k.got = <<>> /\ k.first = <<>> /\ Numbered(k.up, 0) /\ Len(k.up) <= k.sent
          /\ (~k.gone => Len(k.up) = k.sent)
      BY <1>1, ReadFirst
    <3>5. Len(j.got) = 0 /\ Len(j.up) = 0 /\ Len(k.up) \in Nat /\ Len(j.first) = Len(k.up)
      BY <1>2, <2>2, <2>3, <3>4, Empty
    <3>6. CASE Asset(c) \in Capture
      <4>1. Tallied(q \o ObservedUnits(c, k.up), 0 + Len(k.up))
        BY <1>2, <1>6, <2>6, <3>3, <3>4, ObservedReported DEF Asset
      <4>2. r = q \o ObservedUnits(c, k.up) BY <1>2, <3>6 DEF captured
      <4> DEFINE u == Len(k.up)
      <4>3. u \in Nat /\ 0 + u = u /\ u + 0 + 0 = u BY <3>5
      <4> HIDE DEF u, q, r
      <4>4. Tallied(r, u) BY <4>1, <4>2, <4>3 DEF u
      <4>5. Unobserved(j) = 0 BY <2>3, <3>6 DEF Unobserved, Asset
      <4>6. Position(j, u) BY <2>2, <2>3, <3>4, <3>5, <3>6, <4>3, <4>5 DEF Position, Asset, u
      <4>7. u \in Len(j.got)..j.sent BY <1>2, <2>3, <3>4, <3>5, <4>3 DEF u
      <4> QED BY <4>4, <4>6, <4>7
    <3>7. CASE Asset(c) \notin Capture
      <4>1. r = q BY <1>6, <3>7 DEF captured
      <4> HIDE DEF q, r
      <4>2. Tallied(r, 0) BY <3>3, <4>1
      <4>3. Unobserved(j) = Len(k.up) BY <2>2, <2>3, <3>7 DEF Unobserved, Asset
      <4> DEFINE u == Len(k.up)
      <4>4. u \in Nat /\ 0 + u + 0 = u BY <3>5
      <4> HIDE DEF u
      <4>5. Position(j, 0) BY <2>2, <2>3, <3>4, <3>5, <3>7, <4>3, <4>4 DEF Position, Asset, u
      <4>6. 0 \in Len(j.got)..j.sent BY <1>2, <2>3, <3>5
      <4> QED BY <4>2, <4>5, <4>6
    <3> QED BY <3>6, <3>7
  <2>7. Accounted(j, r) BY <2>3, <2>6 DEF Accounted
  <2> HIDE DEF r
  <2> QED BY <2>1, <2>5, <2>7, AccountsOn
<1> QED BY <1>9, <1>10

LEMMA AttachedRoute ==
  ASSUME GatewayInv, NEW c \in Conns, conn[c].phase \in Attached
  PROVE  conn[c].route # NoRoute
<1>1. conn[c].route \in Backends BY DEF GatewayInv, Sound, Attribution
<1> QED BY <1>1 DEF Backends, NoRoute

\* What is read before the backend is connected is observed then, unless a capture
\* observer has seen it already.
LEMMA FirstAccount ==
  ASSUME GatewayInv, StreamInv, ObservedInv, NEW c \in Conns, NEW j, Set(c, j),
         conn[c].phase = "connect", conn[c].route # NoRoute,
         Report(c, IF Asset(c) \in Capture THEN <<>> ELSE ObservedUnits(c, conn[c].first)),
         j.route = conn[c].route, j.sent = conn[c].sent, j.first = <<>>,
         \/ /\ j.phase = "relay" /\ j.got = conn[c].first
            /\ j.gone = conn[c].gone /\ j.up = conn[c].up
         \/ j.phase = "leaked" /\ j.got = <<>>
  PROVE  ObservedInv'
<1> DEFINE k == conn[c]
           new == IF Asset(c) \in Capture THEN <<>> ELSE ObservedUnits(c, k.first)
           r == events[c] \o new
           u == Len(k.first)
           w == Len(k.up)
<1>1. Units(k) /\ Carries(k) BY CarriedFacts
<1>2. events' = [events EXCEPT ![c] = r] BY DEF Report
<1>3. events[c] \in Seq(Reports) /\ Accounted(k, events[c]) BY DEF GatewayInv, Sound, ObservedInv
<1>4. k.first \in Seq(Nat) /\ k.up \in Seq(Nat) /\ k.sent \in Nat BY <1>1 DEF Units
<1>5. u \in Nat /\ w \in Nat BY <1>4
<1>6. UpStream(k) BY <1>1 DEF Carries
<1>7. Numbered(k.first, 0) /\ u <= k.sent BY <1>6 DEF UpStream
<1>8. k.got = <<>> /\ Len(k.got) = 0 BY <1>1, Empty DEF Carries, Unconnected
<1>9. ASSUME j.route # NoRoute, j.route[2] \in Observed
      PROVE  \E n \in Len(j.got)..j.sent : Tallied(r, n) /\ Position(j, n)
  <2>1. PICK n \in Len(k.got)..k.sent : Tallied(events[c], n) /\ Position(k, n)
    BY <1>3, <1>9 DEF Accounted
  <2>2. Asset(c) \in Observed BY <1>9 DEF Asset
  <2> HIDE DEF u, w
  <2>3. Tallied(r, u)
    <3>1. CASE Asset(c) \in Capture
      <4>1. n = u BY <2>1, <3>1 DEF Position, Asset, u
      <4>2. events[c] \o <<>> = events[c] BY <1>3
      <4>3. r = events[c] BY <3>1, <4>2
      <4> QED BY <2>1, <4>1, <4>3
    <3>2. CASE Asset(c) \notin Capture
      <4>1. n = 0 BY <2>1, <3>2 DEF Position, Asset
      <4>2. Tallied(events[c] \o ObservedUnits(c, k.first), 0 + Len(k.first))
        BY <1>3, <1>4, <1>7, <2>1, <2>2, <4>1, ObservedReported
      <4>3. r = events[c] \o ObservedUnits(c, k.first) BY <3>2
      <4>4. 0 + u = u BY <1>5
      <4> HIDE DEF r
      <4> QED BY <4>2, <4>3, <4>4 DEF u
    <3> QED BY <3>1, <3>2
  <2>4. ~k.gone => u + w = k.sent
    <3>1. ~k.gone => n + Unobserved(k) + w = k.sent BY <2>1 DEF Position, Attached, w
    <3>2. n + Unobserved(k) = u
      <4>1. CASE Asset(c) \in Capture
        <5>1. n = u /\ Unobserved(k) = 0 BY <2>1, <4>1 DEF Position, Asset, Unobserved, u
        <5> QED BY <1>5, <5>1
      <4>2. CASE Asset(c) \notin Capture
        <5>1. n = 0 /\ Unobserved(k) = u BY <2>1, <4>2 DEF Position, Asset, Unobserved, u
        <5> QED BY <1>5, <5>1
      <4> QED BY <4>1, <4>2
    <3> QED BY <3>1, <3>2
  <2>5. Unobserved(j) = 0 BY Empty DEF Unobserved
  <2>6. u + 0 + w = u + w BY <1>5
  <2>7. Position(j, u) BY <2>4, <2>5, <2>6 DEF Position, Attached, w
  <2>8. Len(j.got) = u \/ Len(j.got) = 0 BY Empty DEF u
  <2>9. u \in Len(j.got)..j.sent BY <1>4, <1>5, <1>7, <2>8
  <2> HIDE DEF r
  <2> QED BY <2>3, <2>7, <2>9
<1> HIDE DEF r
<1>10. Accounted(j, r) BY <1>9 DEF Accounted
<1> QED BY <1>2, <1>10, AccountsOn

LEMMA AccountOpen ==
  ASSUME GatewayInv, StreamInv, ObservedInv, NEW c \in Conns, Open(c)
  PROVE  ObservedInv'
<1> DEFINE k == conn[c]
<1>1. Fits(k) /\ Carries(k) /\ k.phase = "connect" BY CarriedFacts DEF Open, At
<1>2. CASE k.route \notin alive
  <2>1. Set(c, Closed(k)) /\ events' = [events EXCEPT ![c] = events[c]]
    BY <1>2 DEF Open, GatewayInv
  <2>2. Agree(k, k, {"up"}) /\ Accounted(k, events[c]) BY <1>1 DEF Agree, ObservedInv
  <2> QED BY <2>1, <2>2, ClosedAccount
<1>3. CASE k.route \in alive
  <2> DEFINE j == [k EXCEPT !.phase = "relay", !.got = k.first, !.first = <<>>]
  <2>1. Set(c, j) /\ Report(c, IF Asset(c) \in Capture THEN <<>> ELSE ObservedUnits(c, k.first))
    BY <1>3 DEF Open
  <2>2. /\ j.phase = "relay" /\ j.got = k.first /\ j.first = <<>>
        /\ j.route = k.route /\ j.sent = k.sent /\ j.gone = k.gone /\ j.up = k.up
    BY <1>1 DEF Fits, Fields
  <2>3. k.route # NoRoute BY <1>1, AttachedRoute DEF Attached
  <2> HIDE DEF j
  <2> QED BY <1>1, <2>1, <2>2, <2>3, FirstAccount
<1> QED BY <1>2, <1>3

LEMMA AccountFirstWriteFails ==
  ASSUME GatewayInv, StreamInv, ObservedInv, NEW c \in Conns, FirstWriteFails(c)
  PROVE  ObservedInv'
<1> DEFINE k == conn[c]
           j == [k EXCEPT !.phase = "leaked", !.first = <<>>, !.cut = TRUE, !.upDone = TRUE, !.downDone = TRUE]
<1>1. Fits(k) /\ Carries(k) /\ k.phase = "connect" BY CarriedFacts DEF FirstWriteFails, At
<1>2. Set(c, j) /\ Report(c, IF Asset(c) \in Capture THEN <<>> ELSE ObservedUnits(c, k.first))
  BY DEF FirstWriteFails
<1>3. j.phase = "leaked" /\ j.first = <<>> /\ j.route = k.route /\ j.sent = k.sent /\ j.got = k.got
  BY <1>1 DEF Fits, Fields
<1>4. k.got = <<>> /\ k.route # NoRoute BY <1>1, AttachedRoute DEF Carries, Unconnected, Attached
<1> HIDE DEF j
<1> QED BY <1>1, <1>2, <1>3, <1>4, FirstAccount

LEMMA AccountPipeUp ==
  ASSUME GatewayInv, StreamInv, ObservedInv, NEW c \in Conns, PipeUp(c)
  PROVE  ObservedInv'
<1> DEFINE k == conn[c]
           r == events[c] \o ObservedUnits(c, k.up)
           u == Len(k.up)
<1>1. Fits(k) /\ Units(k) /\ Carries(k) BY CarriedFacts
<1>2. k.phase = "relay" /\ ~k.gone BY DEF PipeUp, At
<1>3. events' = [events EXCEPT ![c] = r] BY DEF PipeUp, Report
<1>4. events[c] \in Seq(Reports) /\ Accounted(k, events[c]) BY DEF GatewayInv, Sound, ObservedInv
<1>5. k.up \in Seq(Nat) /\ k.got \in Seq(Nat) /\ k.sent \in Nat /\ u \in Nat
  BY <1>1 DEF Units, Carries, Buffers
<1>6. UpStream(k) /\ k.first = <<>> BY <1>1, <1>2 DEF Carries, Flags
<1>7. ASSUME k.route # NoRoute, k.route[2] \in Observed
      PROVE  Tallied(r, k.sent)
  <2>1. PICK n \in Len(k.got)..k.sent : Tallied(events[c], n) /\ Position(k, n)
    BY <1>4, <1>7 DEF Accounted
  <2>2. Asset(c) \in Observed BY <1>7 DEF Asset
  <2>3. n \in Nat BY <1>5, <2>1
  <2> HIDE DEF u
  <2>4. n + Unobserved(k) + u = k.sent BY <1>2, <2>1 DEF Position, Attached, u
  <2>5. Unobserved(k) = 0 BY <1>6, Empty DEF Unobserved
  <2>6. n + u = k.sent /\ k.sent - u = n BY <1>5, <2>3, <2>4, <2>5
  <2>7. Numbered(k.up, n) BY <1>6, <2>6 DEF UpStream, u
  <2>8. Tallied(r, n + Len(k.up)) BY <1>4, <1>5, <2>1, <2>2, <2>3, <2>7, ObservedReported
  <2> HIDE DEF r
  <2> QED BY <2>6, <2>8 DEF u
<1> HIDE DEF r, u
<1>8. ASSUME NEW j, Set(c, j), j.route = k.route, j.sent = k.sent, j.phase = "relay", j.first = k.first,
             j.up = <<>>, j.got = k.got \/ (j.got = k.got \o k.up /\ ~k.cut)
      PROVE  ObservedInv'
  <2>1. Len(j.got) <= k.sent
    <3>1. CASE j.got = k.got BY <1>6, <3>1 DEF UpStream
    <3>2. CASE j.got = k.got \o k.up /\ ~k.cut
      <4> DEFINE g == Len(k.got)
      <4>1. Len(j.got) = g + u /\ g \in Nat BY <1>5, <3>2 DEF u
      <4>2. g + Len(k.first) + u = k.sent BY <1>2, <1>6, <3>2 DEF UpStream, Handling, u
      <4>3. Len(k.first) = 0 BY <1>6, Empty
      <4> HIDE DEF g
      <4>4. g + u = k.sent BY <1>5, <4>1, <4>2, <4>3
      <4> QED BY <1>5, <4>1, <4>4
    <3> QED BY <1>8, <3>1, <3>2
  <2>2. Len(j.got) \in Nat
    <3> DEFINE both == k.got \o k.up
    <3>1. both \in Seq(Nat) BY <1>5
    <3> HIDE DEF both
    <3>2. j.got = k.got \/ j.got = both BY <1>8 DEF both
    <3>3. j.got \in Seq(Nat) BY <1>5, <3>1, <3>2
    <3> QED BY <3>3
  <2>3. k.sent \in Len(j.got)..j.sent BY <1>5, <1>8, <2>1, <2>2
  <2>4. Position(j, k.sent)
    <3>1. Unobserved(j) = 0 /\ Len(j.up) = 0 BY <1>6, <1>8, Empty DEF Unobserved
    <3>2. k.sent + 0 + 0 = k.sent BY <1>5
    <3> QED BY <1>8, <3>1, <3>2 DEF Position
  <2>5. Accounted(j, r) BY <1>7, <1>8, <2>3, <2>4 DEF Accounted
  <2> QED BY <1>3, <1>8, <2>5, AccountsOn
<1>9. CASE ~k.cut /\ Set(c, [k EXCEPT !.up = <<>>, !.got = @ \o k.up])
  <2> DEFINE j == [k EXCEPT !.up = <<>>, !.got = @ \o k.up]
  <2>1. /\ j.route = k.route /\ j.sent = k.sent /\ j.phase = "relay" /\ j.first = k.first
        /\ j.up = <<>> /\ j.got = k.got \o k.up
    BY <1>1, <1>2 DEF Fits, Fields
  <2>2. Set(c, j) BY <1>9
  <2> HIDE DEF j
  <2> QED BY <1>8, <1>9, <2>1, <2>2
<1>10. CASE Set(c, [k EXCEPT !.up = <<>>])
  <2> DEFINE j == [k EXCEPT !.up = <<>>]
  <2>1. /\ j.route = k.route /\ j.sent = k.sent /\ j.phase = "relay" /\ j.first = k.first
        /\ j.up = <<>> /\ j.got = k.got
    BY <1>1, <1>2 DEF Fits, Fields
  <2>2. Set(c, j) BY <1>10
  <2> HIDE DEF j
  <2> QED BY <1>8, <2>1, <2>2
<1>11. CASE Set(c, [k EXCEPT !.up = <<>>, !.upDone = TRUE, !.gotEnd = TRUE])
  <2> DEFINE j == [k EXCEPT !.up = <<>>, !.upDone = TRUE, !.gotEnd = TRUE]
  <2>1. /\ j.route = k.route /\ j.sent = k.sent /\ j.phase = "relay" /\ j.first = k.first
        /\ j.up = <<>> /\ j.got = k.got
    BY <1>1, <1>2 DEF Fits, Fields
  <2>2. Set(c, j) BY <1>11
  <2> HIDE DEF j
  <2> QED BY <1>8, <2>1, <2>2
<1> QED BY <1>9, <1>10, <1>11 DEF PipeUp

LEMMA AccountPipes ==
  ASSUME GatewayInv, StreamInv, ObservedInv, NEW c \in Conns,
         PipeUpEnds(c) \/ PipeDown(c) \/ PipeDownEnds(c)
  PROVE  ObservedInv'
<1> DEFINE k == conn[c]
<1>1. Fits(k) BY CarriedFacts
<1>2. events' = events BY DEF PipeUpEnds, PipeDown, PipeDownEnds
<1>3. CASE Set(c, [k EXCEPT !.upDone = TRUE, !.gotEnd = TRUE])
  <2>1. Agree([k EXCEPT !.upDone = TRUE, !.gotEnd = TRUE], k, Aside)
    BY <1>1 DEF Agree, Fits, Fields, Aside
  <2> QED BY <1>2, <1>3, <2>1, AsideAccount
<1>4. CASE Set(c, [k EXCEPT !.down = <<>>, !.rcvd = @ \o k.down])
  <2>1. Agree([k EXCEPT !.down = <<>>, !.rcvd = @ \o k.down], k, Aside)
    BY <1>1 DEF Agree, Fits, Fields, Aside
  <2> QED BY <1>2, <1>4, <2>1, AsideAccount
<1>5. CASE Set(c, [k EXCEPT !.down = <<>>])
  <2>1. Agree([k EXCEPT !.down = <<>>], k, Aside) BY <1>1 DEF Agree, Fits, Fields, Aside
  <2> QED BY <1>2, <1>5, <2>1, AsideAccount
<1>6. CASE Set(c, [k EXCEPT !.down = <<>>, !.downDone = TRUE, !.rcvdEnd = TRUE])
  <2>1. Agree([k EXCEPT !.down = <<>>, !.downDone = TRUE, !.rcvdEnd = TRUE], k, Aside)
    BY <1>1 DEF Agree, Fits, Fields, Aside
  <2> QED BY <1>2, <1>6, <2>1, AsideAccount
<1>7. CASE Set(c, [k EXCEPT !.downDone = TRUE, !.rcvdEnd = TRUE])
  <2>1. Agree([k EXCEPT !.downDone = TRUE, !.rcvdEnd = TRUE], k, Aside)
    BY <1>1 DEF Agree, Fits, Fields, Aside
  <2> QED BY <1>2, <1>7, <2>1, AsideAccount
<1> QED BY <1>3, <1>4, <1>5, <1>6, <1>7 DEF PipeUpEnds, PipeDown, PipeDownEnds

LEMMA AccountHandlerEnds ==
  ASSUME GatewayInv, StreamInv, ObservedInv, NEW c \in Conns, HandlerEnds(c)
  PROVE  ObservedInv'
<1>1. Set(c, Closed(conn[c])) /\ events' = [events EXCEPT ![c] = events[c]]
  BY DEF HandlerEnds, GatewayInv
<1>2. Agree(conn[c], conn[c], {"up"}) /\ Accounted(conn[c], events[c])
  BY CarriedFacts DEF Agree, ObservedInv
<1> QED BY <1>1, <1>2, ClosedAccount

LEMMA AccountClientWrites ==
  ASSUME GatewayInv, StreamInv, ObservedInv, NEW c \in Conns, ClientWrites(c)
  PROVE  ObservedInv'
<1> DEFINE k == conn[c]
           j == [k EXCEPT !.sent = @ + 1, !.up = Append(@, k.sent + 1)]
<1>1. Fits(k) /\ Units(k) /\ Carries(k) BY CarriedFacts
<1>2. Set(c, j) /\ events' = [events EXCEPT ![c] = events[c]] BY DEF ClientWrites, GatewayInv
<1>3. Agree(j, k, {"sent", "up"}) /\ j.sent = k.sent + 1 /\ j.up = Append(k.up, k.sent + 1)
  BY <1>1 DEF Agree, Fits, Fields
<1> HIDE DEF j
<1>4. j.route = k.route /\ j.got = k.got /\ j.first = k.first /\ j.phase = k.phase /\ j.gone = k.gone
  BY <1>3 DEF Agree, Fields
<1> DEFINE u == Len(k.up)  f == Unobserved(k)
<1>5. k.up \in Seq(Nat) /\ k.first \in Seq(Nat) /\ k.got \in Seq(Nat) /\ k.sent \in Nat
  BY <1>1 DEF Units, Carries, Buffers
<1>6. u \in Nat /\ f \in Nat /\ Len(j.up) = u + 1 /\ Unobserved(j) = f /\ Len(k.got) \in Nat
  BY <1>3, <1>4, <1>5 DEF Unobserved
<1>7. Accounted(k, events[c]) BY DEF ObservedInv
<1>8. ASSUME j.route # NoRoute, j.route[2] \in Observed
      PROVE  \E n \in Len(j.got)..j.sent : Tallied(events[c], n) /\ Position(j, n)
  <2>1. PICK n \in Len(k.got)..k.sent : Tallied(events[c], n) /\ Position(k, n)
    BY <1>4, <1>7, <1>8 DEF Accounted
  <2> HIDE DEF u, f
  <2>2. n \in Nat /\ n \in Len(j.got)..j.sent BY <1>3, <1>4, <1>5, <1>6, <2>1
  <2>3. k.phase \in Attached /\ ~k.gone => n + f + (u + 1) = k.sent + 1
    <3>1. k.phase \in Attached /\ ~k.gone => n + f + u = k.sent BY <2>1 DEF Position, u, f
    <3> QED BY <1>5, <1>6, <2>2, <3>1
  <2>4. Position(j, n) BY <1>3, <1>4, <1>6, <2>1, <2>3 DEF Position
  <2> QED BY <2>1, <2>2, <2>4
<1>9. Accounted(j, events[c]) BY <1>8 DEF Accounted
<1> QED BY <1>2, <1>9, AccountsOn

LEMMA AccountEnds ==
  ASSUME GatewayInv, StreamInv, ObservedInv, NEW c \in Conns,
         ClientFinishes(c) \/ BackendWrites(c) \/ BackendFinishes(c)
  PROVE  ObservedInv'
<1> DEFINE k == conn[c]
<1>1. Fits(k) BY CarriedFacts
<1>2. events' = events BY DEF ClientFinishes, BackendWrites, BackendFinishes
<1>3. CASE Set(c, [k EXCEPT !.fin = TRUE])
  <2>1. Agree([k EXCEPT !.fin = TRUE], k, Aside) BY <1>1 DEF Agree, Fits, Fields, Aside
  <2> QED BY <1>2, <1>3, <2>1, AsideAccount
<1>4. CASE Set(c, [k EXCEPT !.back = @ + 1, !.down = Append(@, k.back + 1)])
  <2>1. Agree([k EXCEPT !.back = @ + 1, !.down = Append(@, k.back + 1)], k, Aside)
    BY <1>1 DEF Agree, Fits, Fields, Aside
  <2> QED BY <1>2, <1>4, <2>1, AsideAccount
<1>5. CASE Set(c, [k EXCEPT !.bfin = TRUE])
  <2>1. Agree([k EXCEPT !.bfin = TRUE], k, Aside) BY <1>1 DEF Agree, Fits, Fields, Aside
  <2> QED BY <1>2, <1>5, <2>1, AsideAccount
<1> QED BY <1>3, <1>4, <1>5 DEF ClientFinishes, BackendWrites, BackendFinishes

LEMMA AccountClientResets ==
  ASSUME GatewayInv, StreamInv, ObservedInv, NEW c \in Conns, ClientResets(c)
  PROVE  ObservedInv'
<1> DEFINE k == conn[c]
           j == [k EXCEPT !.gone = TRUE, !.up = <<>>]
<1>1. Fits(k) /\ Set(c, j) /\ events' = events BY CarriedFacts DEF ClientResets
<1>2. /\ j.route = k.route /\ j.got = k.got /\ j.first = k.first /\ j.sent = k.sent
      /\ j.phase = k.phase /\ j.gone = TRUE
  BY <1>1 DEF Fits, Fields
<1> HIDE DEF j
<1> QED BY <1>1, <1>2, QuietAccount

LEMMA AccountBackendStops ==
  ASSUME GatewayInv, StreamInv, ObservedInv, NEW r, BackendStops(r)
  PROVE  ObservedInv'
<1> DEFINE j(c) == IF At(c, "relay") /\ conn[c].route = r THEN [conn[c] EXCEPT !.cut = TRUE] ELSE conn[c]
<1>1. conn' = [c \in Conns |-> j(c)] /\ events' = events BY DEF BackendStops
<1>2. ASSUME NEW c \in Conns PROVE Accounted(j(c), events[c])
  <2>1. Fits(conn[c]) /\ Accounted(conn[c], events[c]) BY CarriedFacts DEF ObservedInv
  <2>2. /\ j(c).route = conn[c].route /\ j(c).got = conn[c].got /\ j(c).first = conn[c].first
        /\ j(c).sent = conn[c].sent /\ j(c).phase = conn[c].phase /\ j(c).up = conn[c].up
        /\ j(c).gone = conn[c].gone
    BY <2>1 DEF Fits, Fields
  <2> HIDE DEF j
  <2> QED BY <2>1, <2>2, SameAccount
<1> HIDE DEF j
<1> QED BY <1>1, <1>2 DEF ObservedInv

LEMMA AccountInit == Init => ObservedInv
<1> SUFFICES ASSUME Init, NEW c \in Conns PROVE Accounted(conn[c], events[c]) BY DEF ObservedInv
<1>1. conn[c] = Idle BY DEF Init
<1>2. Idle.route = NoRoute BY DEF Idle
<1> QED BY <1>1, <1>2 DEF Accounted

LEMMA AccountNext ==
  ASSUME GatewayInv, StreamInv, ObservedInv, [Next]_vars
  PROVE  ObservedInv'
<1>1. CASE \E c \in Conns : Handler(c)
  BY <1>1, AccountRoute, AccountPeek, AccountOpen, AccountPipeUp, AccountPipes,
     AccountHandlerEnds DEF Handler
<1>2. CASE \E c \in Conns : FirstWriteFails(c) BY <1>2, AccountFirstWriteFails
<1>3. CASE \E c \in Conns : \E client \in Clients, p \in Ports, login \in Logins : Connect(c, client, p, login)
  BY <1>3, AccountConnect
<1>4. CASE \E c \in Conns : ClientWrites(c) \/ ClientFinishes(c) \/ ClientResets(c)
  BY <1>4, AccountClientWrites, AccountEnds, AccountClientResets
<1>5. CASE \E c \in Conns : BackendWrites(c) \/ BackendFinishes(c) BY <1>5, AccountEnds
<1>6. CASE \E r \in Backends : BackendStops(r) BY <1>6, AccountBackendStops
<1>7. CASE \E b \in Bindings, x \in Assets : WriteRoute(b, x) BY <1>7 DEF WriteRoute, ObservedInv
<1>8. CASE UNCHANGED vars BY <1>8 DEF vars, ObservedInv
<1> QED BY <1>1, <1>2, <1>3, <1>4, <1>5, <1>6, <1>7, <1>8 DEF Next

\* What the observers have been fed with is always what the client sent first, in
\* order and each unit once, whether a read was reported before the backend was
\* connected, when it was, or as it was passed on, and it includes all the backend has.
THEOREM ObservedOnceTheorem == Spec => []ObservedOnce
<1>1. ObservedInv /\ StreamInv /\ GatewayInv /\ [Next]_vars => ObservedInv' BY AccountNext
<1>2. ObservedInv => ObservedOnce
  BY DEF ObservedInv, ObservedOnce, Accounted, Tallied, Asset
<1> QED BY <1>1, <1>2, AccountInit, StreamInvariant, GatewayInvariant, PTL DEF Spec
===============================================================================
