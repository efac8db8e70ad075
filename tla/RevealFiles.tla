------------------------------- MODULE RevealFiles -------------------------------
(***************************************************************************)
(* The files behind a configuration reveal.  A static HTTP asset serves a  *)
(* directory of the orchestrator's; each binding has a copy of its own,    *)
(* made anew whenever the docker run of such an asset is put together, and *)
(* a reveal writes its clues into that copy while the container serves it. *)
(* This module adds the copies to Orchestrator: the same steps, with what  *)
(* they do to the files.                                                   *)
(*                                                                         *)
(* A container serves the directory that was there when it was started     *)
(* (a bind mount follows the directory, not its name).                     *)
(***************************************************************************)
EXTENDS Orchestrator

CONSTANTS
  Static,     \* assets whose own runtime serves a copied directory
  Artifacts   \* configuration -> the files and index links its variant declares

ASSUME FilesAssumption == Static \subseteq Assets /\ DOMAIN Artifacts = Configs

VARIABLES
  site,      \* binding -> asset -> what reveals have put into the copy
  current,   \* binding -> asset -> whether the container serves the copy of today
  adopted    \* history: the containers a start found up and did not start itself

files == <<site, current, adopted>>

FilesInit ==
  /\ Init
  /\ site = [b \in Bindings |-> [x \in Assets |-> {}]]
  /\ current = [b \in Bindings |-> [x \in Assets |-> FALSE]]
  /\ adopted = {}

\* _static_html_mount_root: a runtime of its own for the variant mounts none.
ServesFiles(x, image) == x \in Static /\ image = Base

-------------------------------------------------------------------------------
(* Starting a container.                                                     *)

\* _prepare_static_asset_volume_copies: the copy, if any, is deleted and made again
\* from the asset's files, without what was revealed.
CopyAnew(b, x) ==
  /\ site' = [site EXCEPT ![b][x] = {}]
  /\ current' = [current EXCEPT ![b][x] = FALSE]

\* _docker_args_for_runtime, of whose many options only the directory matters.  It
\* comes before the look at the container, which may be up and serving the copy.
InspectWithFiles(h) ==
  LET b == call[h].binding
      x == call[h].item.asset
  IN /\ Inspect(h)
     /\ IF ServesFiles(x, call[h].item.image) THEN CopyAnew(b, x) ELSE UNCHANGED <<site, current>>
     /\ adopted' = IF Up(b, x) THEN adopted \cup {<<b, x>>} ELSE adopted

\* docker run mounts the copy.
RunWithFiles(h) ==
  LET b == call[h].binding
      x == call[h].item.asset
  IN /\ Run(h)
     /\ IF containers'[b][x] # containers[b][x]
          THEN /\ current' = [current EXCEPT ![b][x] = ServesFiles(x, call[h].item.image)]
               /\ adopted' = adopted \ {<<b, x>>}
          ELSE UNCHANGED <<current, adopted>>
     /\ UNCHANGED site

\* Mutant of AttachWithFiles: a start that finds the asset running has prepared
\* its files by then.
AttachAfterCopy(h) ==
  /\ Attach(h)
  /\ CopyAnew(call[h].binding, call[h].item.asset)
  /\ UNCHANGED adopted
\* A start that finds the asset running leaves its files alone.
AttachWithFiles(h) == Attach(h) /\ UNCHANGED files

-------------------------------------------------------------------------------
(* A reveal.                                                                 *)

\* What the attacker finds: the page of the reveal, listed in the index of reveals,
\* and what the variant declares, or failing that a link to the page.  A link is
\* added to the landing page once, recognised by its marker.
Entries(config) ==
  {[kind |-> "page", name |-> config]}
    \cup (IF Artifacts[config] = {} THEN {[kind |-> "link", name |-> config]} ELSE Artifacts[config])

\* _write_configuration_artifact, before the record says that the configuration is
\* active.  A swapped runtime that mounts nothing falls back to the volumes of the
\* asset's own, whose copy no container serves then; an asset without files only
\* gets a manifest that no attacker sees.
Materialize(b, x, config) ==
  site' = IF x \in Static THEN [site EXCEPT ![b][x] = @ \cup Entries(config)] ELSE site
WriteConfiguredWithFiles(h) ==
  /\ WriteConfigured(h)
  /\ \E r \in call[h].hand :
       Materialize(r.copy.binding, r.copy.asset, Action(h).variant.id)
  /\ UNCHANGED <<current, adopted>>

-------------------------------------------------------------------------------
\* The steps that touch no file.
OtherStep(h) ==
  \/ Unlock(h) \/ UnlockTarget(h) \/ WriteUnlocked(h) \/ Reveal(h) \/ WriteRevealed(h)
  \/ WriteResolved(h) \/ FindConfigured(h) \/ FindRunning(h)
  \/ Unhide(h) \/ RemoveContainer(h) \/ MarkStopped(h) \/ RemoveDead(h) \/ Verify(h)
  \/ StartSidecars(h) \/ Route(h) \/ RecordRunning(h) \/ Clean(h) \/ RecordFailed(h)
  \/ AllStarted(h) \/ BeginRecycle(h) \/ StopNext(h) \/ ListAgain(h) \/ ForgetNext(h)
  \/ RecycleBinding(h) \/ WriteRecycled(h) \/ ReadAccessible(h) \/ Sync(h)

FilesNext ==
  \/ \E h \in Handlers :
       \/ Requests(h) /\ UNCHANGED files
       \/ OtherStep(h) /\ UNCHANGED files
       \/ AttachWithFiles(h)
       \/ InspectWithFiles(h)
       \/ RunWithFiles(h)
       \/ WriteConfiguredWithFiles(h)
  \/ \E b \in Bindings, x \in Assets : ContainerExits(b, x) /\ UNCHANGED files
  \/ Crash /\ UNCHANGED files

FilesSpec == FilesInit /\ [][FilesNext]_<<vars, files>>

-------------------------------------------------------------------------------
\* "Materialize visible HTTP config clues": what the record of a running asset
\* calls active is there to be found in what its container serves, through swaps,
\* recycles, restarts and failed starts.  Containers that a start has adopted are
\* left out: their directory was deleted under them.
Served(b, x) == IF current[b][x] THEN site[b][x] ELSE {}
CluesAreServed ==
  \A i \in DOMAIN records :
    LET b == records[i].binding
        x == records[i].asset
    IN /\ records[i].status = "running" /\ ServesFiles(x, records[i].image)
       /\ Up(b, x) /\ <<b, x>> \notin adopted
       => \A config \in records[i].configs : Entries(config) \subseteq Served(b, x)

\* Why it holds, one request at a time: what serves files serves the copy of today
\* from its docker run on, and a copy is only made anew where no record runs.
Clues == UNION {Entries(config) : config \in Configs}
FilesTypeOK ==
  /\ site \in [Bindings -> [Assets -> SUBSET Clues]]
  /\ current \in [Bindings -> [Assets -> BOOLEAN]]
Sound(b, x) == Up(b, x) /\ <<b, x>> \notin adopted => current[b][x]
Serves(r) ==
  r.status = "running" /\ ServesFiles(r.asset, r.image) =>
    /\ Sound(r.binding, r.asset)
    /\ \A config \in r.configs : Entries(config) \subseteq site[r.binding][r.asset]
WillServe(c) ==
  c.phase \in {"verify", "sidecars", "route", "record"} /\ ServesFiles(c.item.asset, c.item.image) =>
    Sound(c.binding, c.item.asset)
FilesInv ==
  /\ FilesTypeOK
  /\ \A i \in DOMAIN records : Serves(records[i])
  /\ \A h \in Handlers : call[h].phase # "idle" => WillServe(call[h])

===============================================================================
