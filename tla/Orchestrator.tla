------------------------------ MODULE Orchestrator ------------------------------
(***************************************************************************)
(* The orchestrator (services/orchestrator): apply and prewarm requests    *)
(* turned into containers, runtime records, gateway routes and the gateway *)
(* view.                                                                   *)
(*                                                                         *)
(* Requests run on a thread pool, and one whose caller has given up goes   *)
(* on: the adaptive loop's next apply, a manual apply or a prewarm can     *)
(* overlap with it.  A handler keeps what it has read (its copy of the     *)
(* binding, of a runtime record, of a container's status) over Docker      *)
(* calls that take seconds, so every Docker call and every access to a     *)
(* file is a step here.  The names of containers are made from binding and *)
(* asset, which makes containers shared state too.                         *)
(*                                                                         *)
(* Every asset of the catalog has a Docker runtime behind the asset        *)
(* gateway; mock and Compose assets are left out.  Of a binding record     *)
(* only the unlocked assets matter here, but a call on the binding service *)
(* writes the whole record back that it has read, so that the unlock of    *)
(* one request can be undone by another request, or by an adapter that     *)
(* resolves the binding.  A list of assets is judged in one step, with     *)
(* the docker ps of each of its containers.                                *)
(***************************************************************************)
EXTENDS Integers, Sequences, FiniteSets

CONSTANTS
  Handlers,     \* requests and calls of adapters that can be in progress at once
  Bindings,     \* binding ids, each of one attacker
  Assets,       \* the catalog
  Warm,         \* the assets with warm_standby
  Port,         \* asset -> its public port
  Variants,     \* configuration variants: [id, source, target, swap]
  Base,         \* an asset's own runtime, as opposed to a variant's target_runtime
  None,         \* a variant without target asset
  MaxActions,   \* actions in an apply request
  MaxRequests,  \* bound: requests, and resolves of adapters
  MaxFailures,  \* bound: docker run or sidecars that fail
  MaxExits,     \* bound: containers that die on their own
  MaxCrashes    \* bound: crashes of the orchestrator process

Configs == {v.id : v \in Variants}
Images == {Base} \cup Configs

ASSUME OrchestratorAssumption ==
  /\ Warm \subseteq Assets /\ None \notin Assets
  /\ \A v \in Variants : /\ v.source \in Assets /\ v.target \in Assets \cup {None}
                         /\ v.swap \in BOOLEAN
  /\ Base \notin Configs
  /\ "missing" \notin Images /\ "exited" \notin Images
  /\ {MaxActions, MaxRequests, MaxFailures, MaxExits, MaxCrashes} \subseteq Nat

VARIABLES
  unlocked,    \* binding -> BindingRecord.unlocked_assets
  containers,  \* binding -> asset -> "missing", "exited", or up with that image
  records,     \* asset_runtime.json; a runtime_id is a position
  routes,      \* binding -> asset -> its route's updated_at, 0 without a route
  view,        \* binding -> its gateway state
  call,        \* what each handler is doing
  now,         \* the clock routes are stamped with
  spent,       \* how many requests, failures, exits and crashes there were
  wanted,      \* history: binding -> per port, the asset asked for last
  opened       \* history: binding -> the assets its record ever called unlocked

vars == <<unlocked, opened, containers, records, routes, view, call, now, spent, wanted>>

-------------------------------------------------------------------------------
Actions ==
  [kind : {"unlock"}, asset : Assets] \cup [kind : {"configure"}, variant : Variants]
    \cup {[kind |-> "recycle"]}

\* A runtime record, without the settings nothing is decided on.
Record == [binding : Bindings, asset : Assets, status : {"running", "stopped", "failed"},
           hidden : BOOLEAN, image : Images, configs : SUBSET Configs]

\* A record a handler has read, and where.
Held == [at : Nat, copy : Record]

\* A runtime to start.
Item == [asset : Assets, image : Images]
NoItem == [asset |-> None, image |-> Base]

Phases ==
  {"acting", "target", "starting", "attach", "unhide", "removing", "marking", "inspect",
   "dead", "run", "verify", "sidecars", "route", "record", "clean", "fail", "configure",
   "configuring", "stopping", "forgetting", "syncing", "unlocking", "revealing", "recycling",
   "resolving"}

\* warm: a prewarm request, which knows no attacker; acts: the actions left, the
\* one in progress first; known: the handler's copy of the unlocked assets; merged:
\* those of the binding record that is about to be written; todo: the runtimes still
\* to start, item: the one being started; hand: the record being worked on, if any;
\* stops: the records still to stop; seen: the assets found accessible.
Idle == [phase |-> "idle"]
Call ==
  [phase : Phases, binding : Bindings, warm : BOOLEAN, acts : Seq(Actions),
   known : SUBSET Assets, merged : SUBSET Assets, todo : SUBSET Item, item : Item \cup {NoItem},
   hand : SUBSET Held, stops : SUBSET Held, seen : SUBSET Assets]
NewCall(b, warm, acts, todo, phase) ==
  [phase |-> phase, binding |-> b, warm |-> warm, acts |-> acts, known |-> unlocked[b],
   merged |-> {}, todo |-> todo, item |-> NoItem, hand |-> {}, stops |-> {}, seen |-> {}]

Running(b, x) ==
  {i \in DOMAIN records :
     records[i].binding = b /\ records[i].asset = x /\ records[i].status = "running"}

Up(b, x) == containers[b][x] \notin {"missing", "exited"}

\* list_accessible_asset_ids and list_failed_asset_ids.
Shown(b) == {i \in DOMAIN records : records[i].binding = b /\ ~records[i].hidden}
Accessible(b) ==
  {records[i].asset : i \in {j \in Shown(b) : records[j].status = "running" /\ Up(b, records[j].asset)}}
Failed(b) ==
  {records[i].asset : i \in {j \in Shown(b) :
     \/ records[j].status = "failed"
     \/ records[j].status = "running" /\ ~Up(b, records[j].asset)}}

Init ==
  /\ unlocked = [b \in Bindings |-> {}]
  /\ containers = [b \in Bindings |-> [x \in Assets |-> "missing"]]
  /\ records = <<>>
  /\ routes = [b \in Bindings |-> [x \in Assets |-> 0]]
  /\ view = [b \in Bindings |-> [exposed |-> {}, failed |-> {}]]
  /\ call = [h \in Handlers |-> Idle]
  /\ now = 0
  /\ spent = [requests |-> 0, failures |-> 0, exits |-> 0, crashes |-> 0]
  /\ wanted = [b \in Bindings |-> {}]
  /\ opened = [b \in Bindings |-> {}]

-------------------------------------------------------------------------------
(* Requests and their actions.                                               *)

\* A handler at one of its phases; where it goes on.
At(h, phase) == call[h].phase = phase
Goto(h, phase) == call' = [call EXCEPT ![h].phase = phase]

Spend(what, bound) == spent[what] < bound /\ spent' = [spent EXCEPT ![what] = @ + 1]

Apply(h, b, acts) ==
  /\ At(h, "idle")
  /\ Spend("requests", MaxRequests)
  /\ call' = [call EXCEPT ![h] = NewCall(b, FALSE, acts, {}, "acting")]
  /\ UNCHANGED <<unlocked, opened, containers, records, routes, view, now, wanted>>

\* Hidden backends for some warm-standby assets that are not unlocked.
Prewarm(h, b, assets) ==
  /\ At(h, "idle")
  /\ Spend("requests", MaxRequests)
  /\ assets \subseteq Warm \ unlocked[b]
  /\ call' = [call EXCEPT ![h] =
       NewCall(b, TRUE, <<>>, {[asset |-> x, image |-> Base] : x \in assets}, "starting")]
  /\ UNCHANGED <<unlocked, opened, containers, records, routes, view, now, wanted>>

\* The action in progress.
Action(h) == Head(call[h].acts)
Doing(h, kind) == call[h].acts # <<>> /\ Action(h).kind = kind
Done(c) == [c EXCEPT !.phase = "acting", !.acts = Tail(@), !.hand = {}]

\* A call on the binding service: get_by_binding, and the copy it makes; and later
\* the upsert of that copy, whatever has been written since.
ReadBinding(h, phase, new) ==
  /\ call' = [call EXCEPT ![h].phase = phase, ![h].merged = unlocked[call[h].binding] \cup new]
  /\ UNCHANGED <<unlocked, opened, containers, records, routes, view, now, spent, wanted>>
WriteBinding(h) ==
  LET c == call[h]
  IN /\ unlocked' = [unlocked EXCEPT ![c.binding] = c.merged]
     /\ opened' = [opened EXCEPT ![c.binding] = @ \cup c.merged]

\* An adapter resolves the attacker of an event, which renews the binding.
Resolve(h, b) ==
  /\ At(h, "idle")
  /\ Spend("requests", MaxRequests)
  /\ call' = [call EXCEPT ![h] =
       [NewCall(b, FALSE, <<>>, {}, "resolving") EXCEPT !.merged = unlocked[b]]]
  /\ UNCHANGED <<unlocked, opened, containers, records, routes, view, now, wanted>>
WriteResolved(h) ==
  /\ At(h, "resolving")
  /\ WriteBinding(h)
  /\ call' = [call EXCEPT ![h] = Idle]
  /\ UNCHANGED <<containers, records, routes, view, now, spent, wanted>>

\* The asset an unlock names, or the target of a variant, and its runtime.
Asked(act) == IF act.kind = "unlock" THEN act.asset ELSE act.variant.target
AskedImage(act) ==
  IF act.kind = "configure" /\ act.variant.swap THEN act.variant.id ELSE Base

Unlock(h) ==
  /\ At(h, "acting") /\ Doing(h, "unlock")
  /\ ReadBinding(h, "unlocking", {Asked(Action(h))})
UnlockTarget(h) ==
  /\ At(h, "target")
  /\ ReadBinding(h, "unlocking", {Asked(Action(h))})

\* _apply_unlocks: to start are the assets that are new to this handler, whoever
\* unlocked them, and the one asked for even if it is not new, so that its route
\* becomes the newest of its port.  Mutant: an open asset is left alone.
StartsNewOnly(open, known, x) == open \ known
Starts(open, known, x) == (open \ known) \cup {x}

WriteUnlocked(h) ==
  LET c == call[h]
      x == Asked(Action(h))
  IN /\ At(h, "unlocking")
     /\ WriteBinding(h)
     /\ wanted' = [wanted EXCEPT ![c.binding] = {y \in @ : Port[y] # Port[x]} \cup {x}]
     /\ call' = [call EXCEPT ![h] =
          [c EXCEPT !.phase = "starting", !.known = c.merged, !.merged = {},
                    !.todo = {[asset |-> y, image |-> IF y = x THEN AskedImage(Action(h)) ELSE Base] :
                                y \in Starts(c.merged, c.known, x)}]]
     /\ UNCHANGED <<containers, records, routes, view, now, spent>>

\* reveal_configurations answers with the binding it has written.
Reveal(h) ==
  /\ At(h, "acting") /\ Doing(h, "configure")
  /\ ReadBinding(h, "revealing", {})
WriteRevealed(h) ==
  LET v == Action(h).variant
  IN /\ At(h, "revealing")
     /\ WriteBinding(h)
     /\ call' = [call EXCEPT ![h].known = call[h].merged, ![h].merged = {},
                             ![h].phase = IF v.swap /\ v.target # None THEN "target" ELSE "configure"]
     /\ UNCHANGED <<containers, records, routes, view, now, spent, wanted>>

\* A variant with a runtime of its own is recorded after the swap, others before
\* their target, if any, is unlocked.
Configured(c, v) ==
  IF v.swap \/ v.target = None THEN Done(c) ELSE [c EXCEPT !.phase = "target", !.hand = {}]

\* _existing_running_record: the first one in the list.
FirstRunning(b, x, i) == i \in Running(b, x) /\ \A j \in Running(b, x) : i <= j

FindConfigured(h) ==
  LET c == call[h]
      v == Action(h).variant
  IN /\ At(h, "configure")
     /\ \/ /\ Running(c.binding, v.source) = {}
           /\ call' = [call EXCEPT ![h] = Configured(c, v)]
        \/ \E i \in DOMAIN records :
             /\ FirstRunning(c.binding, v.source, i)
             /\ call' = [call EXCEPT ![h] =
                  [c EXCEPT !.phase = "configuring", !.hand = {[at |-> i, copy |-> records[i]]}]]
     /\ UNCHANGED <<unlocked, opened, containers, records, routes, view, now, spent, wanted>>

\* upsert of a changed copy.
Put(r, copy) == records' = [records EXCEPT ![r.at] = copy]

\* Mutant: the configurations that are active already are not kept.
WriteConfiguredAlone(h) ==
  LET c == call[h]
      v == Action(h).variant
  IN /\ At(h, "configuring")
     /\ \E r \in c.hand : Put(r, [r.copy EXCEPT !.configs = {v.id}])
     /\ call' = [call EXCEPT ![h] = Configured(c, v)]
     /\ UNCHANGED <<unlocked, opened, containers, routes, view, now, spent, wanted>>
WriteConfigured(h) ==
  LET c == call[h]
      v == Action(h).variant
  IN /\ At(h, "configuring")
     /\ \E r \in c.hand : Put(r, [r.copy EXCEPT !.configs = @ \cup {v.id}])
     /\ call' = [call EXCEPT ![h] = Configured(c, v)]
     /\ UNCHANGED <<unlocked, opened, containers, routes, view, now, spent, wanted>>

-------------------------------------------------------------------------------
(* Starting a runtime (DockerTemplateRuntime.start_asset).                   *)

FindRunning(h) ==
  LET c == call[h]
  IN /\ At(h, "starting")
     /\ \E it \in c.todo :
          LET picked == [c EXCEPT !.todo = @ \ {it}, !.item = it]
          IN \/ /\ Running(c.binding, it.asset) = {}
                /\ call' = [call EXCEPT ![h] = [picked EXCEPT !.phase = "inspect"]]
             \/ \E i \in DOMAIN records :
                  /\ FirstRunning(c.binding, it.asset, i)
                  /\ call' = [call EXCEPT ![h] =
                       [picked EXCEPT !.phase = IF it.image = Base THEN "attach" ELSE "removing",
                                      !.hand = {[at |-> i, copy |-> records[i]]}]]
     /\ UNCHANGED <<unlocked, opened, containers, records, routes, view, now, spent, wanted>>

Started(c) == [c EXCEPT !.phase = "starting", !.item = NoItem, !.hand = {}]

\* upsert_asset_gateway_routes.
WriteRoute(b, x) ==
  /\ now' = now + 1
  /\ routes' = [routes EXCEPT ![b][x] = now + 1]

\* A running backend gets its route when an attacker is to reach it ...  Mutant:
\* one that was hidden only becomes visible.
AttachVisible(h) ==
  LET c == call[h]
      hidden == \E r \in c.hand : r.copy.hidden
  IN /\ At(h, "attach")
     /\ IF c.warm \/ hidden THEN UNCHANGED <<routes, now>> ELSE WriteRoute(c.binding, c.item.asset)
     /\ call' = [call EXCEPT ![h] =
          IF ~c.warm /\ hidden THEN [c EXCEPT !.phase = "unhide"] ELSE Started(c)]
     /\ UNCHANGED <<unlocked, opened, containers, records, view, spent, wanted>>
Attach(h) ==
  LET c == call[h]
  IN /\ At(h, "attach")
     /\ IF c.warm
          THEN call' = [call EXCEPT ![h] = Started(c)] /\ UNCHANGED <<routes, now>>
          ELSE /\ WriteRoute(c.binding, c.item.asset)
               /\ call' = [call EXCEPT ![h] =
                    IF \E r \in c.hand : r.copy.hidden THEN [c EXCEPT !.phase = "unhide"] ELSE Started(c)]
     /\ UNCHANGED <<unlocked, opened, containers, records, view, spent, wanted>>

\* ... and, if it was warm standby, becomes visible.
Unhide(h) ==
  LET c == call[h]
  IN /\ At(h, "unhide")
     /\ \E r \in c.hand : Put(r, [r.copy EXCEPT !.hidden = FALSE])
     /\ call' = [call EXCEPT ![h] = Started(c)]
     /\ UNCHANGED <<unlocked, opened, containers, routes, view, now, spent, wanted>>

SetContainer(b, x, state) == containers' = [containers EXCEPT ![b][x] = state]

\* _stop_runtime_record, for a swap or a recycle: docker rm -f, then the copy of
\* the record with its new status.
RemoveContainer(h) ==
  /\ At(h, "removing")
  /\ \E r \in call[h].hand : SetContainer(call[h].binding, r.copy.asset, "missing")
  /\ Goto(h, "marking")
  /\ UNCHANGED <<unlocked, opened, records, routes, view, now, spent, wanted>>

\* Mutant: the record keeps its status.
MarkForgotten(h) ==
  /\ At(h, "marking")
  /\ call' = [call EXCEPT ![h].phase = IF call[h].item = NoItem THEN "stopping" ELSE "inspect",
                          ![h].hand = {}]
  /\ UNCHANGED <<unlocked, opened, containers, records, routes, view, now, spent, wanted>>
MarkStopped(h) ==
  /\ At(h, "marking")
  /\ \E r \in call[h].hand : Put(r, [r.copy EXCEPT !.status = "stopped"])
  /\ call' = [call EXCEPT ![h].phase = IF call[h].item = NoItem THEN "stopping" ELSE "inspect",
                          ![h].hand = {}]
  /\ UNCHANGED <<unlocked, opened, containers, routes, view, now, spent, wanted>>

\* Whether a container of that name is there already.
Inspect(h) ==
  LET state == containers[call[h].binding][call[h].item.asset]
  IN /\ At(h, "inspect")
     /\ Goto(h, IF state = "missing" THEN "run" ELSE IF state = "exited" THEN "dead" ELSE "verify")
     /\ UNCHANGED <<unlocked, opened, containers, records, routes, view, now, spent, wanted>>

RemoveDead(h) ==
  /\ At(h, "dead")
  /\ SetContainer(call[h].binding, call[h].item.asset, "missing")
  /\ Goto(h, "run")
  /\ UNCHANGED <<unlocked, opened, records, routes, view, now, spent, wanted>>

\* docker run fails if the name is in use, or for reasons of its own.
Run(h) ==
  LET c == call[h]
  IN /\ At(h, "run")
     /\ \/ /\ containers[c.binding][c.item.asset] = "missing"
           /\ SetContainer(c.binding, c.item.asset, c.item.image)
           /\ Goto(h, "verify")
           /\ UNCHANGED spent
        \/ /\ containers[c.binding][c.item.asset] # "missing"
           /\ Goto(h, "clean")
           /\ UNCHANGED <<containers, spent>>
        \/ /\ Spend("failures", MaxFailures)
           /\ Goto(h, "clean")
           /\ UNCHANGED containers
     /\ UNCHANGED <<unlocked, opened, records, routes, view, now, wanted>>

\* _verify_started_container polls until the container is up, and gives up.
Verify(h) ==
  /\ At(h, "verify")
  /\ Goto(h, IF Up(call[h].binding, call[h].item.asset) THEN "sidecars" ELSE "clean")
  /\ UNCHANGED <<unlocked, opened, containers, records, routes, view, now, spent, wanted>>

\* A sidecar that fails leaves the container of the asset running.
StartSidecars(h) ==
  /\ At(h, "sidecars")
  /\ \/ Goto(h, "route") /\ UNCHANGED spent
     \/ Goto(h, "fail") /\ Spend("failures", MaxFailures)
  /\ UNCHANGED <<unlocked, opened, containers, records, routes, view, now, wanted>>

\* _record_running_container: the route, then the record.  Mutant: the route is
\* written whether or not an attacker is known.
RouteAlways(h) ==
  /\ At(h, "route")
  /\ WriteRoute(call[h].binding, call[h].item.asset)
  /\ Goto(h, "record")
  /\ UNCHANGED <<unlocked, opened, containers, records, view, spent, wanted>>
Route(h) ==
  /\ At(h, "route")
  /\ IF call[h].warm THEN UNCHANGED <<routes, now>>
                     ELSE WriteRoute(call[h].binding, call[h].item.asset)
  /\ Goto(h, "record")
  /\ UNCHANGED <<unlocked, opened, containers, records, view, spent, wanted>>

NewRecord(c, status, image) ==
  [binding |-> c.binding, asset |-> c.item.asset, status |-> status,
   hidden |-> c.warm, image |-> image, configs |-> {}]

RecordRunning(h) ==
  LET c == call[h]
  IN /\ At(h, "record")
     /\ records' = Append(records, NewRecord(c, "running", c.item.image))
     /\ call' = [call EXCEPT ![h] = Started(c)]
     /\ UNCHANGED <<unlocked, opened, containers, routes, view, now, spent, wanted>>

\* _cleanup_failed_container removes whatever has the name.
Clean(h) ==
  /\ At(h, "clean")
  /\ SetContainer(call[h].binding, call[h].item.asset, "missing")
  /\ Goto(h, "fail")
  /\ UNCHANGED <<unlocked, opened, records, routes, view, now, spent, wanted>>

\* HybridTemplateRuntime turns the exception into a record.  Mutant: it does not.
SwallowFailure(h) ==
  /\ At(h, "fail")
  /\ call' = [call EXCEPT ![h] = Started(call[h])]
  /\ UNCHANGED <<unlocked, opened, containers, records, routes, view, now, spent, wanted>>
RecordFailed(h) ==
  LET c == call[h]
  IN /\ At(h, "fail")
     /\ records' = Append(records, NewRecord(c, "failed", Base))
     /\ call' = [call EXCEPT ![h] = Started(c)]
     /\ UNCHANGED <<unlocked, opened, containers, routes, view, now, spent, wanted>>

AllStarted(h) ==
  LET c == call[h]
  IN /\ At(h, "starting") /\ c.todo = {}
     /\ call' = [call EXCEPT ![h] =
          IF c.warm THEN Idle
          ELSE IF Doing(h, "configure") /\ Action(h).variant.swap THEN [c EXCEPT !.phase = "configure"]
          ELSE Done(c)]
     /\ UNCHANGED <<unlocked, opened, containers, records, routes, view, now, spent, wanted>>

-------------------------------------------------------------------------------
(* Recycling, and the end of an apply.                                       *)

\* stop_binding_assets, of which the Docker runtime has the first pass, and the
\* mock runtime another one over what is called running by then.
RunningCopies(b) ==
  {[at |-> i, copy |-> records[i]] : i \in
     {j \in DOMAIN records : records[j].binding = b /\ records[j].status = "running"}}
ListRunning(h, phase) ==
  /\ call' = [call EXCEPT ![h].phase = phase, ![h].stops = RunningCopies(call[h].binding)]
  /\ UNCHANGED <<unlocked, opened, containers, records, routes, view, now, spent, wanted>>

BeginRecycle(h) ==
  /\ At(h, "acting") /\ Doing(h, "recycle")
  /\ ListRunning(h, "stopping")

StopNext(h) ==
  LET c == call[h]
  IN /\ At(h, "stopping")
     /\ \E r \in c.stops :
          call' = [call EXCEPT ![h] =
            [c EXCEPT !.phase = "removing", !.hand = {r}, !.stops = @ \ {r}]]
     /\ UNCHANGED <<unlocked, opened, containers, records, routes, view, now, spent, wanted>>

ListAgain(h) ==
  /\ At(h, "stopping") /\ call[h].stops = {}
  /\ ListRunning(h, "forgetting")

ForgetNext(h) ==
  /\ At(h, "forgetting")
  /\ \E r \in call[h].stops :
       /\ Put(r, [r.copy EXCEPT !.status = "stopped"])
       /\ call' = [call EXCEPT ![h].stops = @ \ {r}]
  /\ UNCHANGED <<unlocked, opened, containers, routes, view, now, spent, wanted>>

\* The binding is recycled, which leaves the unlocked assets as they are.
RecycleBinding(h) ==
  /\ At(h, "forgetting") /\ call[h].stops = {}
  /\ ReadBinding(h, "recycling", {})
WriteRecycled(h) ==
  LET c == call[h]
  IN /\ At(h, "recycling")
     /\ WriteBinding(h)
     /\ call' = [call EXCEPT ![h] = Done([c EXCEPT !.known = c.merged, !.merged = {}])]
     /\ UNCHANGED <<containers, records, routes, view, now, spent, wanted>>

ReadAccessible(h) ==
  LET c == call[h]
  IN /\ At(h, "acting") /\ c.acts = <<>>
     /\ call' = [call EXCEPT ![h].phase = "syncing", ![h].seen = Accessible(c.binding)]
     /\ UNCHANGED <<unlocked, opened, containers, records, routes, view, now, spent, wanted>>

\* GatewayService.sync, with the failed assets read last.
Sync(h) ==
  LET b == call[h].binding
  IN /\ At(h, "syncing")
     /\ view' = [view EXCEPT ![b] = [exposed |-> call[h].seen, failed |-> Failed(b)]]
     /\ call' = [call EXCEPT ![h] = Idle]
     /\ UNCHANGED <<unlocked, opened, containers, records, routes, now, spent, wanted>>

-------------------------------------------------------------------------------
ContainerExits(b, x) ==
  /\ Up(b, x)
  /\ Spend("exits", MaxExits)
  /\ SetContainer(b, x, "exited")
  /\ UNCHANGED <<unlocked, opened, records, routes, view, call, now, wanted>>

\* Adapters run in processes of their own.
Crash ==
  /\ Spend("crashes", MaxCrashes)
  /\ call' = [h \in Handlers |-> IF At(h, "resolving") THEN call[h] ELSE Idle]
  /\ UNCHANGED <<unlocked, opened, containers, records, routes, view, now, wanted>>

Requests(h) ==
  \E b \in Bindings :
    \/ \E n \in 1..MaxActions : \E acts \in [1..n -> Actions] : Apply(h, b, acts)
    \/ \E assets \in SUBSET Warm : Prewarm(h, b, assets)
    \/ Resolve(h, b)

Step(h) ==
  \/ Unlock(h) \/ UnlockTarget(h) \/ WriteUnlocked(h) \/ Reveal(h) \/ WriteRevealed(h)
  \/ WriteResolved(h) \/ FindConfigured(h) \/ WriteConfigured(h)
  \/ FindRunning(h) \/ Attach(h) \/ Unhide(h) \/ RemoveContainer(h) \/ MarkStopped(h)
  \/ Inspect(h) \/ RemoveDead(h) \/ Run(h) \/ Verify(h) \/ StartSidecars(h)
  \/ Route(h) \/ RecordRunning(h) \/ Clean(h) \/ RecordFailed(h) \/ AllStarted(h)
  \/ BeginRecycle(h) \/ StopNext(h) \/ ListAgain(h) \/ ForgetNext(h) \/ RecycleBinding(h)
  \/ WriteRecycled(h) \/ ReadAccessible(h) \/ Sync(h)

Next ==
  \/ \E h \in Handlers : Requests(h) \/ Step(h)
  \/ \E b \in Bindings, x \in Assets : ContainerExits(b, x)
  \/ Crash

Spec == Init /\ [][Next]_vars

-------------------------------------------------------------------------------
(* Properties.                                                               *)

TypeOK ==
  /\ unlocked \in [Bindings -> SUBSET Assets] /\ opened \in [Bindings -> SUBSET Assets]
  /\ containers \in [Bindings -> [Assets -> {"missing", "exited"} \cup Images]]
  /\ records \in Seq(Record)
  /\ routes \in [Bindings -> [Assets -> Nat]]
  /\ view \in [Bindings -> [exposed : SUBSET Assets, failed : SUBSET Assets]]
  /\ call \in [Handlers -> {Idle} \cup Call]
  /\ now \in Nat

Routed(b, x) == routes[b][x] > 0

\* What holds however requests overlap, fail or are cut off by a crash.

\* "prewarm: Start warm-standby backends without changing gateway exposure": an
\* attacker can reach, and the gateway view names, only what the binding record has
\* called unlocked before.  (A call that overlaps may have written the unlock away
\* again: the backend, its route and its name in the view stay.)
HiddenUntilRevealed ==
  \A b \in Bindings : \A x \in Assets :
    Routed(b, x) \/ x \in view[b].exposed \cup view[b].failed => x \in opened[b]

\* What the gateway view calls exposed has a route by which the asset gateway leads
\* the attacker on.
ReachableIfExposed == \A b \in Bindings : \A x \in view[b].exposed : Routed(b, x)

\* The inductive invariant behind the two.  A record that is not hidden belongs to
\* an asset that was unlocked, with a route unless its start failed; the same holds
\* of every copy a handler can still write back, and what it is about to route or
\* reveal was unlocked.
OpenRecord(r) ==
  ~r.hidden => /\ r.asset \in opened[r.binding]
               /\ r.status # "failed" => Routed(r.binding, r.asset)
OpenCall(c) ==
  /\ \A r \in c.hand \cup c.stops : r.copy.status = "running" /\ OpenRecord(r.copy)
  /\ ~c.warm => \A it \in (c.todo \cup {c.item}) \ {NoItem} : it.asset \in opened[c.binding]
  /\ ~c.warm /\ c.phase \in {"unhide", "record"} => Routed(c.binding, c.item.asset)
  /\ \A x \in c.seen : Routed(c.binding, x)

\* Where a handler can be: at a runtime, at a configuration, warming up.
AtItem == {"attach", "unhide", "inspect", "dead", "run", "verify", "sidecars", "route", "record",
           "clean", "fail"}
Course(c) ==
  /\ c.phase \in AtItem => c.item # NoItem
  /\ c.phase \in {"attach", "unhide"} =>
       \A r \in c.hand : r.copy.binding = c.binding /\ r.copy.asset = c.item.asset
  /\ c.phase \in {"target", "configure", "configuring", "revealing"} =>
       c.acts # <<>> /\ Head(c.acts).kind = "configure"
  /\ c.phase = "target" => Head(c.acts).variant.target # None
  /\ c.phase = "unlocking" => Asked(Head(c.acts)) \in Assets \cap c.merged
  /\ c.warm => \/ c.phase \in ({"starting"} \cup AtItem) \ {"unhide"}
               \/ c.phase \in {"removing", "marking"} /\ c.item # NoItem
  /\ ~c.warm /\ c.phase \notin {"acting", "syncing", "resolving"} => c.acts # <<>>

RoutesOpen == \A b \in Bindings : \A x \in Assets : Routed(b, x) => x \in opened[b]
RecordsOpen == \A i \in DOMAIN records : OpenRecord(records[i])
ViewOpen ==
  \A b \in Bindings : /\ \A x \in view[b].exposed : Routed(b, x)
                      /\ view[b].failed \subseteq opened[b]
CallsOpen == \A h \in Handlers : call[h] # Idle => OpenCall(call[h]) /\ Course(call[h])
ExposureInv == TypeOK /\ RoutesOpen /\ RecordsOpen /\ ViewOpen /\ CallsOpen

\* What holds while requests do not overlap and the orchestrator stays up.

\* An asset never has two runtimes that are both thought to be running.
OneRunningRecord == \A b \in Bindings : \A x \in Assets : Cardinality(Running(b, x)) <= 1

\* A runtime that is thought to be running has a container, dead or alive, except
\* while it is being stopped: no cleanup and no swap takes another one's away.
BackendsExist ==
  \A i \in DOMAIN records :
    records[i].status = "running" =>
      \/ containers[records[i].binding][records[i].asset] # "missing"
      \/ \E h \in Handlers : At(h, "marking") /\ \E r \in call[h].hand : r.at = i

\* "Configuration swaps must make their target route the newest route": of the
\* assets that share a port, an attacker is led to the one asked for last, if it
\* can be reached at all.
Newest(b, x) == Routed(b, x) /\ \A y \in Assets : Port[y] = Port[x] => routes[b][y] <= routes[b][x]
PortLeadsToWanted ==
  \A h \in Handlers :
    At(h, "syncing") => \A x \in wanted[call[h].binding] \cap call[h].seen : Newest(call[h].binding, x)

\* A runtime that was stopped stays stopped, one that was shown stays visible,
\* and no configuration is taken back, whichever copies are written.
RecordsMoveOn ==
  [][\A i \in DOMAIN records :
       /\ records[i].status # "running" => records'[i].status = records[i].status
       /\ ~records[i].hidden => ~records'[i].hidden
       /\ records[i].configs \subseteq records'[i].configs]_vars

\* Nothing that was unlocked gets lost on the way: when an apply is over, the
\* view names it as exposed or failed, unless a recycle stopped its runtime.
LastRecord(b, x, i) ==
  /\ records[i].binding = b /\ records[i].asset = x
  /\ \A j \in DOMAIN records : records[j].binding = b /\ records[j].asset = x => j <= i
Recycled(b, x) == \E i \in DOMAIN records : LastRecord(b, x, i) /\ records[i].status = "stopped"
ViewTells(b) == \A x \in unlocked[b] : x \in view'[b].exposed \cup view'[b].failed \/ Recycled(b, x)
EndsTold == \A h \in Handlers : At(h, "syncing") /\ call'[h] = Idle => ViewTells(call[h].binding)
NothingVanishes == [][EndsTold]_vars

\* Why they hold.  Nobody but the one handler writes: the copies in its hands are
\* the records themselves, what it is starting has no running record, and a record
\* that is running is the last of its asset.
Holding == {"attach", "unhide", "removing", "marking", "configuring"}
Between == {"acting", "target", "configure", "configuring", "stopping", "forgetting", "syncing",
            "unlocking", "revealing", "recycling", "resolving"}
Starting == {"inspect", "dead", "run", "verify", "sidecars", "route", "record", "clean", "fail"}
Recycling(c) == c.phase \in {"stopping", "forgetting"} \/ (c.phase \in {"removing", "marking"} /\ c.item = NoItem)
Current(r) == r.at \in DOMAIN records /\ r.copy = records[r.at]
HoldsCurrent(c) ==
  /\ c.phase \in Between \cup {"starting"} => c.item = NoItem
  /\ IF c.phase \in Holding THEN \E r \in c.hand : c.hand = {r} ELSE c.hand = {}
  /\ c.stops # {} => Recycling(c)
  /\ c.hand \cap c.stops = {}
  /\ \A r \in c.hand \cup c.stops : Current(r) /\ r.copy.binding = c.binding
  /\ c.phase \in {"removing", "marking"} /\ c.item # NoItem =>
       \A r \in c.hand : r.copy.asset = c.item.asset
  /\ c.phase \in Starting => Running(c.binding, c.item.asset) = {}
RunningIsLast == \A b \in Bindings : \A x \in Assets : \A i \in Running(b, x) : LastRecord(b, x, i)
OneByOneInv ==
  RunningIsLast /\ \A h \in Handlers : call[h].phase # "idle" => HoldsCurrent(call[h])

\* What it has started is there, and what it works on has been asked for; in a
\* prewarm nothing is.
Work(c) == (c.todo \cup {c.item}) \ {NoItem}
KnowsItsWork(c) ==
  /\ c.known = unlocked[c.binding]
  /\ c.phase = "unlocking" => c.merged = c.known \cup {Asked(Head(c.acts))}
  /\ c.phase \in {"revealing", "recycling", "resolving"} => c.merged = c.known
  /\ c.phase \in Between \/ Recycling(c) => Work(c) = {}
  /\ \A it \in Work(c) :
       IF c.warm THEN it.asset \notin unlocked[c.binding] ELSE it.asset \in wanted[c.binding]
  /\ c.phase \in {"sidecars", "route", "record"} =>
       containers[c.binding][c.item.asset] # "missing"
WantedIsOpen ==
  /\ wanted \in [Bindings -> SUBSET Assets]
  /\ \A b \in Bindings : /\ wanted[b] \subseteq unlocked[b]
                         /\ \A x, y \in wanted[b] : Port[x] = Port[y] => x = y
BackendsInv ==
  BackendsExist /\ WantedIsOpen /\ \A h \in Handlers : call[h].phase # "idle" => KnowsItsWork(call[h])

\* An asset that was asked for last is led to, or does not run, or is in work.
InWork(b, x) ==
  \E h \in Handlers : /\ call[h].phase # "idle" /\ ~call[h].warm /\ call[h].binding = b
                      /\ \E it \in Work(call[h]) : it.asset = x
Leads(c) ==
  /\ ~c.warm /\ c.phase \in {"unhide", "record"} => Newest(c.binding, c.item.asset)
  /\ c.phase = "syncing" => \A x \in wanted[c.binding] \cap c.seen : Newest(c.binding, x)
RoutesStamped == \A b \in Bindings : \A x \in Assets : routes[b][x] <= now
WantedAreLed ==
  \A b \in Bindings : \A x \in wanted[b] : Newest(b, x) \/ Running(b, x) = {} \/ InWork(b, x)
RoutesInv ==
  RoutesStamped /\ WantedAreLed /\ \A h \in Handlers : call[h].phase # "idle" => Leads(call[h])

\* An asset that is unlocked has a last record that shows, or was stopped, or is
\* in work.
Told(b, x) ==
  \E i \in DOMAIN records : LastRecord(b, x, i) /\ (records[i].status = "stopped" \/ ~records[i].hidden)
Tells(c) ==
  c.phase = "syncing" =>
    \A x \in unlocked[c.binding] :
      x \in c.seen \cup Failed(c.binding) \/ Recycled(c.binding, x)
UnlockedAreTold == \A b \in Bindings : \A x \in unlocked[b] : Told(b, x) \/ InWork(b, x)
ShownInv == UnlockedAreTold /\ \A h \in Handlers : call[h].phase # "idle" => Tells(call[h])

===============================================================================
