------------------------------ MODULE AssetGateway ------------------------------
(***************************************************************************)
(* The asset gateway (services/asset_gateway/app.py): one asyncio process  *)
(* that accepts attackers' connections on fixed public ports, looks up the *)
(* route table once per connection, and copies bytes both ways between the *)
(* attacker and the backend container, reporting on the way what it        *)
(* recognises.                                                             *)
(*                                                                         *)
(* Handlers interleave at every await: the first read of an HTTP port, the *)
(* connect to the backend, each read of the two pipes.  Everything between *)
(* two awaits is one step.  The orchestrator rewrites the route table and  *)
(* containers stop at any time.  A stream is a sequence of numbered units  *)
(* (requests, commands), and a read returns whatever has arrived.          *)
(***************************************************************************)
EXTENDS Integers, Sequences, FiniteSets, SequencesExt

CONSTANTS
  Conns,       \* connections
  Clients,     \* source addresses, which are attacker keys
  Bindings,    \* binding ids
  Owner,       \* binding -> its attacker key
  Assets,      \* assets with a gateway route
  Port,        \* asset -> its public port
  HttpPorts,   \* HONEYPOT_ASSET_GATEWAY_HTTP_PORTS
  Portal,      \* internal-portal, whose login the gateway answers itself
  Observed,    \* assets with a protocol observer
  Capture,     \* of these, the capture backends (_high_interaction_source)
  Fallback,    \* HONEYPOT_ASSET_GATEWAY_SINGLE_ROUTE_FALLBACK
  MaxUnits,    \* bound: units written by the client of a connection
  MaxReplies,  \* bound: units written by its backend
  MaxWrites,   \* bound: writes of the route table
  MaxCuts      \* bound: resets by clients, and backends that stop

ASSUME GatewayAssumption ==
  /\ Owner \in [Bindings -> Clients]
  /\ Capture \subseteq Observed /\ Observed \subseteq Assets /\ Portal \in Assets \ Capture
  /\ Fallback \in BOOLEAN
  /\ {MaxUnits, MaxReplies, MaxWrites, MaxCuts} \subseteq Nat

VARIABLES
  routes,  \* asset_gateway_routes.json: binding -> asset -> its updated_at, or 0
  alive,   \* the backends that accept connections, as <<binding, asset>>
  conn,    \* each connection and its handler
  events,  \* connection -> what was written to the event files on behalf of it
  spent    \* how many writes and cuts there were

vars == <<routes, alive, conn, events, spent>>

Ports == {Port[x] : x \in Assets}
Backends == Bindings \X Assets
NoRoute == <<>>

\* What _http_form_values makes of a client's first unit: no login form, the form
\* with the credential that was leaked to the client, or with another.
Logins == {"none", "valid", "invalid"}

-------------------------------------------------------------------------------
(* Routes.                                                                   *)

Table == {r \in Backends : routes[r[1]][r[2]] > 0}
OfPort(p) == {r \in Table : Port[r[2]] = p}
Key(r) == Owner[r[1]]
Updated(r) == routes[r[1]][r[2]]

\* select_route: an attacker's newest route of the port, or, as a fallback, the
\* only one there is.  Mutant: another attacker's is good enough.
Exact(p, client) == {r \in OfPort(p) : Key(r) = client}
SelectsAnyones(p, client, r) ==
  r \in OfPort(p) /\ \A q \in OfPort(p) : Updated(q) <= Updated(r)
Selects(p, client, r) ==
  \/ r \in Exact(p, client) /\ \A q \in Exact(p, client) : Updated(q) <= Updated(r)
  \/ Fallback /\ Exact(p, client) = {} /\ OfPort(p) = {r}

-------------------------------------------------------------------------------
(* Connections.                                                              *)

\* up, down: units that have arrived at the gateway and were not read yet; got,
\* rcvd: what the backend and the client have read; fin, bfin: the client, the
\* backend has finished writing; gone, cut: it is no longer there at all; gotEnd,
\* rcvdEnd: they have been told of the other's end; upDone, downDone: a pipe is
\* over; first: what was read before the backend was connected; alone: history,
\* whether the port had no other route when this one was selected.
Idle ==
  [phase |-> "idle", client |-> "nobody", port |-> "none", login |-> "none", route |-> NoRoute,
   alone |-> FALSE, sent |-> 0, up |-> <<>>, fin |-> FALSE, gone |-> FALSE, first |-> <<>>,
   got |-> <<>>, gotEnd |-> FALSE, back |-> 0, down |-> <<>>, bfin |-> FALSE, cut |-> FALSE,
   rcvd |-> <<>>, rcvdEnd |-> FALSE, upDone |-> FALSE, downDone |-> FALSE]

Handling == {"accepted", "peek", "connect", "relay"}
At(c, phase) == conn[c].phase = phase
Asset(c) == conn[c].route[2]
Set(c, r) == conn' = [conn EXCEPT ![c] = r]

\* A line of internal_http_events.jsonl, or of one of the two files of protocol
\* events, which name an attacker and an asset but no binding.  auth: the result of
\* a login that the gateway answered.
Event(c, kind, units, auth) ==
  [kind |-> kind, attacker |-> Key(conn[c].route), asset |-> Asset(c), units |-> units, auth |-> auth]
Report(c, new) == events' = [events EXCEPT ![c] = @ \o new]

\* Observers are fed with what was read, if anything.
ObservedUnits(c, units) ==
  IF Asset(c) \in Observed /\ units # <<>> THEN <<Event(c, "protocol", units, "none")>> ELSE <<>>

Init ==
  /\ routes = [b \in Bindings |-> [x \in Assets |-> 0]]
  /\ alive = {}
  /\ conn = [c \in Conns |-> Idle]
  /\ events = [c \in Conns |-> <<>>]
  /\ spent = [writes |-> 0, cuts |-> 0]

Spend(what, bound) == spent[what] < bound /\ spent' = [spent EXCEPT ![what] = @ + 1]

\* A client connects; login: whether its first unit is a POST of the portal's login.
Connect(c, client, p, login) ==
  /\ At(c, "idle")
  /\ Set(c, [Idle EXCEPT !.phase = "accepted", !.client = client, !.port = p, !.login = login])
  /\ UNCHANGED <<routes, alive, events, spent>>

\* Nobody is connected to, or nobody any more: both sides are closed.
Closed(r) == [r EXCEPT !.phase = "closed", !.gotEnd = TRUE, !.rcvdEnd = TRUE,
                       !.upDone = TRUE, !.downDone = TRUE]

\* _handle_connection up to its first await.
Route(c) ==
  LET k == conn[c]
  IN /\ At(c, "accepted")
     /\ \/ /\ \A r \in Backends : ~Selects(k.port, k.client, r)
           /\ Set(c, Closed(k))
        \/ \E r \in Backends :
             /\ Selects(k.port, k.client, r)
             /\ Set(c, [k EXCEPT !.phase = IF k.port \in HttpPorts THEN "peek" ELSE "connect",
                                 !.route = r, !.alone = OfPort(k.port) = {r}])
     /\ UNCHANGED <<routes, alive, events, spent>>

\* _read_initial_client_data: what has arrived, which is nothing at the peek timeout
\* or at the client's end or reset.
FirstRead(c) == conn[c].up

\* _internal_portal_session_result and _with_auth_result: what the gateway makes of
\* the first read.  A login whose body is still on its way has no credential.
Answers(c) ==
  LET k == conn[c]
  IN CASE FirstRead(c) = <<>> \/ k.login = "none" \/ Asset(c) # Portal -> {"none"}
       [] k.login = "valid" -> {"success", "failure"}
       [] OTHER -> {"failure"}

\* _write_http_response: the gateway answers for the backend, and closes.
AnsweredHere(k) == Closed([k EXCEPT !.up = <<>>])

\* The first read of an HTTP port is reported as a request, a login to the portal is
\* answered here, and capture backends have it observed even if they turn out to be
\* down.
Peek(c) ==
  LET k == conn[c]
      first == FirstRead(c)
      Request(auth) == IF first = <<>> THEN <<>> ELSE <<Event(c, "http", first, auth)>>
      captured == IF Asset(c) \in Capture THEN ObservedUnits(c, first) ELSE <<>>
  IN /\ At(c, "peek")
     /\ \E auth \in Answers(c) :
          IF auth = "none"
            THEN /\ Set(c, [k EXCEPT !.phase = "connect", !.first = first, !.up = <<>>])
                 /\ Report(c, Request(auth) \o captured)
            ELSE Set(c, AnsweredHere(k)) /\ Report(c, Request(auth))
     /\ UNCHANGED <<routes, alive, spent>>

\* The connect fails, or the backend gets what was read.  Mutants: what a capture
\* observer has seen is observed again; what was read first is forgotten.
OpenObservesAgain(c) ==
  LET k == conn[c]
  IN /\ At(c, "connect")
     /\ IF k.route \in alive
          THEN /\ Set(c, [k EXCEPT !.phase = "relay", !.got = k.first, !.first = <<>>])
               /\ Report(c, ObservedUnits(c, k.first))
          ELSE Set(c, Closed(k)) /\ UNCHANGED events
     /\ UNCHANGED <<routes, alive, spent>>
OpenForgets(c) ==
  LET k == conn[c]
  IN /\ At(c, "connect")
     /\ Set(c, IF k.route \in alive THEN [k EXCEPT !.phase = "relay", !.first = <<>>] ELSE Closed(k))
     /\ UNCHANGED <<routes, alive, events, spent>>
Open(c) ==
  LET k == conn[c]
  IN /\ At(c, "connect")
     /\ IF k.route \in alive
          THEN /\ Set(c, [k EXCEPT !.phase = "relay", !.got = k.first, !.first = <<>>])
               /\ Report(c, IF Asset(c) \in Capture THEN <<>> ELSE ObservedUnits(c, k.first))
          ELSE Set(c, Closed(k)) /\ UNCHANGED events
     /\ UNCHANGED <<routes, alive, spent>>

\* The backend accepts and resets at once, and the first write fails outside the
\* handler's try: neither side is closed.
FirstWriteFails(c) ==
  LET k == conn[c]
  IN /\ At(c, "connect") /\ k.first # <<>> /\ k.route \in alive
     /\ Spend("cuts", MaxCuts)
     /\ Set(c, [k EXCEPT !.phase = "leaked", !.first = <<>>, !.cut = TRUE, !.upDone = TRUE, !.downDone = TRUE])
     /\ Report(c, IF Asset(c) \in Capture THEN <<>> ELSE ObservedUnits(c, k.first))
     /\ UNCHANGED <<routes, alive>>

\* _pipe, client to backend: observe, then write.  The write fails if the backend
\* is gone, though not necessarily at once.
PipeUp(c) ==
  LET k == conn[c]
  IN /\ At(c, "relay") /\ ~k.upDone /\ ~k.gone /\ k.up # <<>>
     /\ \/ ~k.cut /\ Set(c, [k EXCEPT !.up = <<>>, !.got = @ \o k.up])
        \/ k.cut /\ Set(c, [k EXCEPT !.up = <<>>])
        \/ k.cut /\ Set(c, [k EXCEPT !.up = <<>>, !.upDone = TRUE, !.gotEnd = TRUE])
     /\ Report(c, ObservedUnits(c, k.up))
     /\ UNCHANGED <<routes, alive, spent>>

\* The client's end, or its reset, which loses what was not read: the backend is
\* told (_finish_write_direction).  Mutant: it is not.
PipeUpEndsSilently(c) ==
  LET k == conn[c]
  IN /\ At(c, "relay") /\ ~k.upDone
     /\ k.gone \/ (k.fin /\ k.up = <<>>)
     /\ Set(c, [k EXCEPT !.upDone = TRUE])
     /\ UNCHANGED <<routes, alive, events, spent>>
PipeUpEnds(c) ==
  LET k == conn[c]
  IN /\ At(c, "relay") /\ ~k.upDone
     /\ k.gone \/ (k.fin /\ k.up = <<>>)
     /\ Set(c, [k EXCEPT !.upDone = TRUE, !.gotEnd = TRUE])
     /\ UNCHANGED <<routes, alive, events, spent>>

\* _pipe, backend to client.
PipeDown(c) ==
  LET k == conn[c]
  IN /\ At(c, "relay") /\ ~k.downDone /\ k.down # <<>>
     /\ \/ ~k.gone /\ Set(c, [k EXCEPT !.down = <<>>, !.rcvd = @ \o k.down])
        \/ k.gone /\ Set(c, [k EXCEPT !.down = <<>>])
        \/ k.gone /\ Set(c, [k EXCEPT !.down = <<>>, !.downDone = TRUE, !.rcvdEnd = TRUE])
     /\ UNCHANGED <<routes, alive, events, spent>>

PipeDownEnds(c) ==
  LET k == conn[c]
  IN /\ At(c, "relay") /\ ~k.downDone
     /\ k.cut \/ (k.bfin /\ k.down = <<>>)
     /\ Set(c, [k EXCEPT !.downDone = TRUE, !.rcvdEnd = TRUE])
     /\ UNCHANGED <<routes, alive, events, spent>>

\* The end of _handle_connection, once both pipes are over.  Mutant: once either is.
HandlerEndsEarly(c) ==
  /\ At(c, "relay") /\ (conn[c].upDone \/ conn[c].downDone)
  /\ Set(c, Closed(conn[c]))
  /\ UNCHANGED <<routes, alive, events, spent>>
HandlerEnds(c) ==
  /\ At(c, "relay") /\ conn[c].upDone /\ conn[c].downDone
  /\ Set(c, Closed(conn[c]))
  /\ UNCHANGED <<routes, alive, events, spent>>

-------------------------------------------------------------------------------
(* Clients, backends and the orchestrator.                                   *)

\* What a client writes after the gateway has closed goes nowhere.
ClientWrites(c) ==
  LET k == conn[c]
  IN /\ k.phase \in Handling /\ ~k.fin /\ ~k.gone /\ k.sent < MaxUnits
     /\ Set(c, [k EXCEPT !.sent = @ + 1, !.up = Append(@, k.sent + 1)])
     /\ UNCHANGED <<routes, alive, events, spent>>

ClientFinishes(c) ==
  /\ conn[c].phase \in Handling /\ ~conn[c].fin /\ ~conn[c].gone
  /\ Set(c, [conn[c] EXCEPT !.fin = TRUE])
  /\ UNCHANGED <<routes, alive, events, spent>>

ClientResets(c) ==
  /\ conn[c].phase \in Handling /\ ~conn[c].gone
  /\ Spend("cuts", MaxCuts)
  /\ Set(c, [conn[c] EXCEPT !.gone = TRUE, !.up = <<>>])
  /\ UNCHANGED <<routes, alive, events>>

BackendWrites(c) ==
  LET k == conn[c]
  IN /\ k.phase = "relay" /\ ~k.bfin /\ ~k.cut /\ k.back < MaxReplies
     /\ Set(c, [k EXCEPT !.back = @ + 1, !.down = Append(@, k.back + 1)])
     /\ UNCHANGED <<routes, alive, events, spent>>

BackendFinishes(c) ==
  /\ At(c, "relay") /\ ~conn[c].bfin /\ ~conn[c].cut
  /\ Set(c, [conn[c] EXCEPT !.bfin = TRUE])
  /\ UNCHANGED <<routes, alive, events, spent>>

\* The container is removed or dies, with all connections to it.
BackendStops(r) ==
  /\ r \in alive
  /\ Spend("cuts", MaxCuts)
  /\ alive' = alive \ {r}
  /\ conn' = [c \in Conns |->
       IF At(c, "relay") /\ conn[c].route = r THEN [conn[c] EXCEPT !.cut = TRUE]
                                              ELSE conn[c]]
  /\ UNCHANGED <<routes, events>>

\* upsert_asset_gateway_routes, for a backend that was just started or revealed.
WriteRoute(b, x) ==
  /\ Spend("writes", MaxWrites)
  /\ routes' = [routes EXCEPT ![b][x] = spent.writes + 1]
  /\ alive' = alive \cup {<<b, x>>}
  /\ UNCHANGED <<conn, events>>

Handler(c) ==
  \/ Route(c) \/ Peek(c) \/ Open(c) \/ PipeUp(c) \/ PipeUpEnds(c)
  \/ PipeDown(c) \/ PipeDownEnds(c) \/ HandlerEnds(c)

Next ==
  \/ \E c \in Conns :
       \/ Handler(c) \/ FirstWriteFails(c)
       \/ \E client \in Clients, p \in Ports, login \in Logins : Connect(c, client, p, login)
       \/ ClientWrites(c) \/ ClientFinishes(c) \/ ClientResets(c)
       \/ BackendWrites(c) \/ BackendFinishes(c)
  \/ \E r \in Backends : BackendStops(r)
  \/ \E b \in Bindings, x \in Assets : WriteRoute(b, x)

\* The event loop runs every handler that can go on.
Spec == Init /\ [][Next]_vars /\ \A c \in Conns : WF_vars(Handler(c))

\* Backends that finish once they have been told that their client has.
BackendsReact ==
  \A c \in Conns : WF_vars(conn[c].gotEnd /\ BackendFinishes(c))

-------------------------------------------------------------------------------
(* Properties.                                                               *)

Streams == Conns \X {"up", "down"}

\* "proxies only attacker-specific fixed-port traffic": a connection leads to its
\* own attacker's backend, and what is reported of it names that attacker and that
\* asset, whatever becomes of the table while it is open.  Only the fallback leads
\* elsewhere, and only to the one attacker who had a route of the port.
RightAttacker ==
  \A c \in Conns : conn[c].route # NoRoute =>
    /\ Port[Asset(c)] = conn[c].port
    /\ Key(conn[c].route) = conn[c].client \/ (Fallback /\ conn[c].alone)
    /\ \A i \in DOMAIN events[c] :
         events[c][i].attacker = Key(conn[c].route) /\ events[c][i].asset = Asset(c)

\* Nothing an attacker tells an observed backend goes unreported or is reported
\* twice: the units observed are the client's, in order and each once, and they
\* include all that the backend has.
Observations(reported) == {i \in DOMAIN reported : reported[i].kind = "protocol"}
Seen(reported) == UNION {Range(reported[i].units) : i \in Observations(reported)}
InOrder(reported) ==
  \A i, j \in Observations(reported) :
    \A m \in DOMAIN reported[i].units, n \in DOMAIN reported[j].units :
      i < j \/ (i = j /\ m < n) => reported[i].units[m] < reported[j].units[n]
ObservedOnce ==
  \A c \in Conns : conn[c].route # NoRoute /\ Asset(c) \in Observed =>
    /\ InOrder(events[c])
    /\ \E n \in Len(conn[c].got)..conn[c].sent : Seen(events[c]) = 1..n

\* The gateway is transparent: what the two ends see of each other is a Tunnel.
Refused(c) == conn[c].phase = "closed" /\ conn[c].got = <<>> /\ conn[c].back = 0
Lost(c) == conn[c].gone \/ conn[c].cut \/ Refused(c)
TunnelView == INSTANCE Tunnel WITH
  sent <- [s \in Streams |-> IF s[2] = "up" THEN conn[s[1]].sent ELSE conn[s[1]].back],
  ended <- [s \in Streams |-> IF s[2] = "up" THEN conn[s[1]].fin ELSE conn[s[1]].bfin],
  got <- [s \in Streams |-> IF s[2] = "up" THEN conn[s[1]].got ELSE conn[s[1]].rcvd],
  closed <- [s \in Streams |-> IF s[2] = "up" THEN conn[s[1]].gotEnd ELSE conn[s[1]].rcvdEnd],
  broken <- [s \in Streams |-> Lost(s[1])]
Transparent == TunnelView!Spec

\* No connection is left open: when its client has finished or is gone, and
\* backends answer an end with an end, the handler closes both sides, unless the
\* backend took the connection only to drop it.
EveryConnectionEnds ==
  BackendsReact => \A c \in Conns : conn[c].fin \/ conn[c].gone ~> conn[c].phase \in {"closed", "leaked"}

===============================================================================
