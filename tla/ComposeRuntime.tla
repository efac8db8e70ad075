----------------------------- MODULE ComposeRuntime -----------------------------
(***************************************************************************)
(* The other backends of HybridTemplateRuntime: assets that a compose file *)
(* describes, and assets without any real runtime, which are only recorded *)
(* (the mock).  Orchestrator has the Docker ones.  A compose asset is a    *)
(* project of several containers, which are started together, connected to *)
(* the internal network one by one, and judged together.                   *)
(*                                                                         *)
(* One binding, and one request at a time; a request names one asset, or   *)
(* recycles.  (What overlapping requests do to each other is the matter of *)
(* Orchestrator.)  Every docker command and every file written is a step,  *)
(* and the orchestrator may crash between any two.                         *)
(***************************************************************************)
EXTENDS Naturals, Sequences

CONSTANTS
  Composed,     \* assets with a compose file
  Mock,         \* assets with no runtime of their own
  Services,     \* the services of a compose file
  Target,       \* gateway_target_service
  Networked,    \* the compose assets that have an internal network
  MaxRequests,  \* bound: requests
  MaxFailures,  \* bound: docker commands that fail
  MaxExits,     \* bound: containers that die on their own
  MaxCrashes    \* bound: crashes of the orchestrator process

Assets == Composed \cup Mock

ASSUME ComposeAssumption ==
  /\ Composed \cap Mock = {} /\ Networked \subseteq Composed /\ Target \in Services
  /\ "none" \notin Assets
  /\ {MaxRequests, MaxFailures, MaxExits, MaxCrashes} \subseteq Nat

VARIABLES
  unlocked,   \* the binding's unlocked assets
  container,  \* compose asset -> service -> "missing", "exited" or "up"
  attached,   \* compose asset -> the services connected to the internal network
  records,    \* asset_runtime.json
  routed,     \* compose assets with a gateway route to their target container
  view,       \* the gateway state
  call,       \* the request in progress
  spent,      \* how many requests, failures, exits and crashes there were
  remnant,    \* history: projects that a start given up, or a removal that failed, has left
  torn        \* history: projects taken down that a record still calls running

vars == <<unlocked, container, attached, records, routed, view, call, spent, remnant, torn>>

Record == [asset : Assets, status : {"running", "stopped", "failed"}, hidden : BOOLEAN]

\* asset, warm: what is being started, and whether as warm standby; stops: the
\* records still to stop.
Phases ==
  {"idle", "find", "attach", "unhide", "up", "ps", "connect", "check", "down", "route", "record",
   "fail", "stopping", "marking", "syncing"}
Idle == [phase |-> "idle", asset |-> "none", warm |-> FALSE, stops |-> {}]
Starting(x, warm) == [phase |-> "find", asset |-> x, warm |-> warm, stops |-> {}]

Running(x) == {i \in DOMAIN records : records[i].asset = x /\ records[i].status = "running"}
Existing(x) == {s \in Services : container[x][s] # "missing"}
AllUp(x) == \A s \in Services : container[x][s] = "up"

\* list_accessible_asset_ids: the compose adapter asks Docker, but the lists of the
\* other two, which take every record that is not Docker's at its word, are joined
\* to its own.  list_failed_asset_ids is the compose adapter's for its assets.
Shown == {i \in DOMAIN records : ~records[i].hidden}
Accessible == {records[i].asset : i \in {j \in Shown : records[j].status = "running"}}
Failed ==
  {records[i].asset : i \in {j \in Shown :
     /\ records[j].asset \in Composed
     /\ \/ records[j].status = "failed"
        \/ records[j].status = "running" /\ ~AllUp(records[j].asset)}}

Init ==
  /\ unlocked = {}
  /\ container = [x \in Composed |-> [s \in Services |-> "missing"]]
  /\ attached = [x \in Composed |-> {}]
  /\ records = <<>>
  /\ routed = {}
  /\ view = [exposed |-> {}, failed |-> {}]
  /\ call = Idle
  /\ spent = [requests |-> 0, failures |-> 0, exits |-> 0, crashes |-> 0]
  /\ remnant = {} /\ torn = {}

-------------------------------------------------------------------------------
At(phase) == call.phase = phase
Goto(phase) == call' = [call EXCEPT !.phase = phase]
Spend(what, bound) == spent[what] < bound /\ spent' = [spent EXCEPT ![what] = @ + 1]
Ended == IF call.warm THEN Idle ELSE [Idle EXCEPT !.phase = "syncing"]

\* Requests: an apply that unlocks x or recycles, and a prewarm.
Unlock(x) ==
  /\ At("idle") /\ Spend("requests", MaxRequests)
  /\ unlocked' = unlocked \cup {x}
  /\ call' = Starting(x, FALSE)
  /\ UNCHANGED <<container, attached, records, routed, view, remnant, torn>>
Prewarm(x) ==
  /\ At("idle") /\ Spend("requests", MaxRequests)
  /\ x \notin unlocked
  /\ call' = Starting(x, TRUE)
  /\ UNCHANGED <<unlocked, container, attached, records, routed, view, remnant, torn>>

\* MockTemplateRuntime.start_asset: a record, unless there is one, which stays as
\* hidden as it was.
StartMock ==
  /\ At("find") /\ call.asset \in Mock
  /\ records' = IF Running(call.asset) # {} THEN records
                ELSE Append(records, [asset |-> call.asset, status |-> "running", hidden |-> call.warm])
  /\ call' = Ended
  /\ UNCHANGED <<unlocked, container, attached, routed, view, spent, remnant, torn>>

\* ComposeTemplateRuntime.start_asset.
Find ==
  /\ At("find") /\ call.asset \in Composed
  /\ call' = IF Running(call.asset) = {} THEN [call EXCEPT !.phase = "up"]
             ELSE IF call.warm THEN Ended ELSE [call EXCEPT !.phase = "attach"]
  /\ UNCHANGED <<unlocked, container, attached, records, routed, view, spent, remnant, torn>>

\* _attach_gateway_route_for_existing_record: the route, then the record.
Attach ==
  /\ At("attach")
  /\ routed' = routed \cup {call.asset}
  /\ Goto("unhide")
  /\ UNCHANGED <<unlocked, container, attached, records, view, spent, remnant, torn>>
Unhide ==
  /\ At("unhide")
  /\ records' = [i \in DOMAIN records |->
       IF i \in Running(call.asset) THEN [records[i] EXCEPT !.hidden = FALSE] ELSE records[i]]
  /\ call' = Ended
  /\ UNCHANGED <<unlocked, container, attached, routed, view, spent, remnant, torn>>

\* A docker command fails: the start is given up, and nothing is cleaned up.
GiveUp ==
  /\ Spend("failures", MaxFailures)
  /\ Goto("fail")
  /\ remnant' = remnant \cup {call.asset}

\* compose up -d creates what is missing and starts what has exited.  It may fail
\* with only some of the services done.
Up ==
  LET x == call.asset
  IN /\ At("up")
     /\ \E done \in SUBSET Services :
          /\ container' = [container EXCEPT ![x] =
               [s \in Services |-> IF s \in done THEN "up" ELSE @[s]]]
          /\ \/ done = Services /\ Goto("ps") /\ UNCHANGED <<spent, remnant>>
             \/ GiveUp
     /\ UNCHANGED <<unlocked, attached, records, routed, view, torn>>

\* compose ps -q.
ListContainers ==
  /\ At("ps")
  /\ \/ /\ Goto(IF call.asset \in Networked THEN "connect" ELSE "check")
        /\ UNCHANGED <<spent, remnant>>
     \/ GiveUp
  /\ UNCHANGED <<unlocked, container, attached, records, routed, view, torn>>

\* _connect_containers_to_network: every container, unless it is connected.  The
\* network may not exist, and a connect may fail.  Mutant: a project with one
\* connected container is taken for connected.
ConnectsProject(x) == IF attached[x] = {} THEN Existing(x) ELSE {}
Unconnected(x) == Existing(x) \ attached[x]
Connect ==
  LET x == call.asset
  IN /\ At("connect")
     /\ \/ /\ \E s \in Unconnected(x) : attached' = [attached EXCEPT ![x] = @ \cup {s}]
           /\ UNCHANGED <<call, spent, remnant>>
        \/ /\ Unconnected(x) = {}
           /\ Goto("check")
           /\ UNCHANGED <<attached, spent, remnant>>
        \/ /\ Unconnected(x) # {}
           /\ GiveUp
           /\ UNCHANGED attached
     /\ UNCHANGED <<unlocked, container, records, routed, view, torn>>

\* _compose_project_statuses: all up, or the project is taken down again.  A docker
\* ps that fails counts as no container.
Check ==
  /\ At("check")
  /\ \/ Goto(IF AllUp(call.asset) THEN "route" ELSE "down") /\ UNCHANGED spent
     \/ Goto("down") /\ Spend("failures", MaxFailures)
  /\ UNCHANGED <<unlocked, container, attached, records, routed, view, remnant, torn>>

\* compose down, "best-effort": nobody notices when it fails.
Gone(x) ==
  /\ container' = [container EXCEPT ![x] = [s \in Services |-> "missing"]]
  /\ attached' = [attached EXCEPT ![x] = {}]
Down ==
  /\ At("down")
  /\ Goto("fail")
  /\ \/ Gone(call.asset) /\ remnant' = remnant \ {call.asset} /\ UNCHANGED spent
     \/ /\ Spend("failures", MaxFailures)
        /\ remnant' = remnant \cup {call.asset}
        /\ UNCHANGED <<container, attached>>
  /\ UNCHANGED <<unlocked, records, routed, view, torn>>

\* The route to the target container, if an attacker is to reach it; the record.
Route ==
  /\ At("route")
  /\ routed' = IF call.warm THEN routed ELSE routed \cup {call.asset}
  /\ Goto("record")
  /\ UNCHANGED <<unlocked, container, attached, records, view, spent, remnant, torn>>
Recorded(status) ==
  records' = Append(records, [asset |-> call.asset, status |-> status, hidden |-> call.warm])
RecordRunning ==
  /\ At("record")
  /\ Recorded("running")
  /\ call' = Ended
  /\ remnant' = remnant \ {call.asset}
  /\ UNCHANGED <<unlocked, container, attached, routed, view, spent, torn>>

\* HybridTemplateRuntime.start_asset turns an exception into a record.
RecordFailed ==
  /\ At("fail")
  /\ Recorded("failed")
  /\ call' = Ended
  /\ UNCHANGED <<unlocked, container, attached, routed, view, spent, remnant, torn>>

-------------------------------------------------------------------------------
(* Recycling, and the end of an apply.                                       *)

\* ComposeTemplateRuntime.stop_binding_assets: the running compose records, hidden
\* ones included.  Mutant: the ones that are shown.
StopsShown == {i \in Shown : records[i].status = "running" /\ records[i].asset \in Composed}
Stops == {i \in DOMAIN records : records[i].status = "running" /\ records[i].asset \in Composed}
Recycle ==
  /\ At("idle") /\ Spend("requests", MaxRequests)
  /\ call' = [Idle EXCEPT !.phase = "stopping", !.stops = Stops]
  /\ UNCHANGED <<unlocked, container, attached, records, routed, view, remnant, torn>>

Remove ==
  /\ At("stopping")
  /\ \E i \in call.stops :
       LET x == records[i].asset
       IN /\ call' = [call EXCEPT !.phase = "marking", !.asset = x]
          /\ torn' = torn \cup {x}
          /\ \/ Gone(x) /\ UNCHANGED <<spent, remnant>>
             \/ /\ Spend("failures", MaxFailures)
                /\ remnant' = remnant \cup {x}
                /\ UNCHANGED <<container, attached>>
  /\ UNCHANGED <<unlocked, records, routed, view>>

Stopped(which) ==
  [i \in DOMAIN records |-> IF i \in which THEN [records[i] EXCEPT !.status = "stopped"] ELSE records[i]]
MarkStopped ==
  /\ At("marking")
  /\ records' = Stopped(Running(call.asset))
  /\ call' = [call EXCEPT !.phase = "stopping", !.stops = @ \ Running(call.asset), !.asset = "none"]
  /\ torn' = torn \ {call.asset}
  /\ UNCHANGED <<unlocked, container, attached, routed, view, spent, remnant>>

\* The passes of the Docker and the mock adapter mark whatever else is running.
EndRecycle ==
  /\ At("stopping") /\ call.stops = {}
  /\ records' = Stopped({i \in DOMAIN records : records[i].status = "running"})
  /\ call' = [Idle EXCEPT !.phase = "syncing"]
  /\ UNCHANGED <<unlocked, container, attached, routed, view, spent, remnant, torn>>

Sync ==
  /\ At("syncing")
  /\ view' = [exposed |-> Accessible, failed |-> Failed]
  /\ call' = Idle
  /\ UNCHANGED <<unlocked, container, attached, records, routed, spent, remnant, torn>>

-------------------------------------------------------------------------------
ContainerExits(x, s) ==
  /\ container[x][s] = "up"
  /\ Spend("exits", MaxExits)
  /\ container' = [container EXCEPT ![x][s] = "exited"]
  /\ UNCHANGED <<unlocked, attached, records, routed, view, call, remnant, torn>>

\* A start that is cut off leaves its containers.
Crash ==
  /\ ~At("idle")
  /\ Spend("crashes", MaxCrashes)
  /\ call' = Idle
  /\ remnant' = IF call.asset \in Composed /\ Running(call.asset) = {}
                THEN remnant \cup {call.asset} ELSE remnant
  /\ UNCHANGED <<unlocked, container, attached, records, routed, view, torn>>

Next ==
  \/ \E x \in Assets : Unlock(x) \/ Prewarm(x)
  \/ StartMock \/ Find \/ Attach \/ Unhide
  \/ Up \/ ListContainers \/ Connect \/ Check \/ Down
  \/ Route \/ RecordRunning \/ RecordFailed
  \/ Recycle \/ Remove \/ MarkStopped \/ EndRecycle \/ Sync
  \/ \E x \in Composed, s \in Services : ContainerExits(x, s)
  \/ Crash

Spec == Init /\ [][Next]_vars

-------------------------------------------------------------------------------
(* Properties.                                                               *)

TypeOK ==
  /\ unlocked \in SUBSET Assets
  /\ container \in [Composed -> [Services -> {"missing", "exited", "up"}]]
  /\ attached \in [Composed -> SUBSET Services]
  /\ records \in Seq(Record)
  /\ routed \in SUBSET Composed
  /\ view \in [exposed : SUBSET Assets, failed : SUBSET Composed]
  /\ call \in [phase : Phases, asset : Assets \cup {"none"}, warm : BOOLEAN, stops : SUBSET Nat]
  /\ spent \in [{"requests", "failures", "exits", "crashes"} -> Nat]
  /\ remnant \in SUBSET Composed /\ torn \in SUBSET Composed

\* An attacker who is told of a compose asset can get to it: it is unlocked, has a
\* route, and the container the route leads to is there, on the gateway's network
\* if the asset has one, however many starts failed half-way before.
Reachable(x) ==
  /\ x \in unlocked /\ x \in routed
  /\ container[x][Target] # "missing"
  /\ x \in Networked => Target \in attached[x]
ShownIsReachable ==
  \A i \in DOMAIN records :
    LET x == records[i].asset IN
    x \in Composed \ torn /\ records[i].status = "running" /\ ~records[i].hidden => Reachable(x)

\* Between requests a project that has containers has a running record, by which the
\* next recycle finds it, but for three cases in which the code does leave containers
\* behind: a start that was cut off or given up before its containers were judged,
\* one whose "down" failed, and a recycle whose "down" failed, which nobody looks at
\* (check=False) and whose record becomes stopped all the same.  What is left so stays
\* until a later start of the asset takes it over; from then on it counts again.
NoOrphans ==
  At("idle") => \A x \in Composed : Existing(x) # {} => Running(x) # {} \/ x \in remnant

===============================================================================
