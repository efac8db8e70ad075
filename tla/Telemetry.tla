-------------------------------- MODULE Telemetry --------------------------------
(***************************************************************************)
(* From a sensor's log line to the attacker's profile: the log files, the  *)
(* forwarders that tail them (scripts/forwarders), the adapters' handlers  *)
(* that a forwarder POSTs each event to (services/entrypoint, cowrie,      *)
(* opencanary, high_interaction) and the ingest of the profiler inside     *)
(* them (services/profiler/domain.py).                                     *)
(*                                                                         *)
(* Every forwarder is a process of its own, and Docker restarts those of   *)
(* the compose files.  Adapters run their handlers in threads, and all of  *)
(* them share the two files of the profiler, so that every file access of  *)
(* an ingest is a step.  What a sensor logs in one write is a piece, named *)
(* by its number: a line, or the head or the tail of one.  What evidence   *)
(* it makes is the subject of Detection.                                   *)
(***************************************************************************)
EXTENDS Integers, Sequences, FiniteSets

NoIp == "none"
Nobody == "nobody"

CONSTANTS
  Feeds,      \* log files, with a forwarder each
  Routed,     \* OpenCanary's feeds: a line names the proxy and the backend's address
  Plain,      \* feeds of a high-interaction asset: text that names no one
  Owner,      \* plain feed -> the attacker whose binding's container writes it
  Kept,       \* the feeds whose forwarder Docker restarts
  Attackers,
  Proxy,      \* the gateway's own address
  Ips,        \* addresses of OpenCanary's containers, which Docker uses again
  FromStart,  \* --from-start, which no service of the compose files sets
  MaxLines,   \* bound: pieces logged
  MaxTroubles, \* bound: faults of logs, forwarders and adapters
  MaxMoves    \* bound: containers started or stopped, and guests admitted

Keys == Attackers \cup {Proxy}
Lines == 1..MaxLines

ASSUME TelemetryAssumption ==
  /\ Routed \cup Plain \cup Kept \subseteq Feeds /\ Routed \cap Plain = {}
  /\ Owner \in [Plain -> Attackers]
  /\ IsFiniteSet(Attackers) /\ Proxy \notin Attackers /\ Nobody \notin Keys
  /\ FromStart \in BOOLEAN
  /\ {MaxLines, MaxTroubles, MaxMoves} \subseteq Nat

VARIABLES
  lines,     \* what was logged: who did it, in which feed, from which backend, which part
  files,     \* feed -> its files, as pieces, the last file being the current one
  fwd,       \* feed -> its forwarder
  handler,   \* piece -> the handler of its event
  evidence,  \* evidence.json: key -> the pieces its evidence was made from
  profile,   \* profiles.json: key -> how much of its evidence was looked at
  observed,  \* the adapters' observations, as lines
  home,      \* attacker -> the address of his OpenCanary, if it runs, or NoIp
  route,     \* attacker -> backend_ip of its route, or NoIp
  guests,    \* the attackers with a route to the high-interaction asset
  spent,     \* how many troubles there were
  moves,     \* how often containers and guests came or went
  hit,       \* history: pieces that a fault, or a second guest, may have cost
  moved,     \* history: pieces logged, or still unread, when the backend's address was
             \* not the one in the route
  excused    \* history: keys whose last ingest was not alone, or broke off

logs == <<lines, files, hit>>
stores == <<evidence, profile, observed, excused>>
network == <<home, route, guests, moves, moved>>
vars == <<logs, fwd, handler, stores, network, spent>>

Handler(pc, key, n, alone) == [pc |-> pc, key |-> key, n |-> n, alone |-> alone]
Idle == Handler("none", Proxy, 0, FALSE)
Posted(k) == Handler("posted", k, 0, FALSE)
InFlight == {"posted", "added", "read", "profiled"}
Ingesting == {"added", "read"}
Tailing(phase, file, pos, line) == [phase |-> phase, file |-> file, pos |-> pos, line |-> line]
Down == Tailing("down", 1, 0, 0)

Init ==
  /\ lines = <<>>
  /\ files = [f \in Feeds |-> <<<<>>>>]
  /\ fwd = [f \in Feeds |-> Tailing("poll", 1, 0, 0)]
  /\ handler = [l \in Lines |-> Idle]
  /\ evidence = [k \in Keys |-> <<>>]
  /\ profile = [k \in Keys |-> 0]
  /\ observed = {}
  /\ home \in [Attackers -> Ips \cup {NoIp}]
  /\ \A a, b \in Attackers : a # b /\ home[a] = home[b] => home[a] = NoIp
  /\ route \in [Attackers -> Ips \cup {NoIp}]
  /\ \A a \in Attackers : home[a] # NoIp => route[a] = home[a]
  /\ guests \in SUBSET Attackers
  /\ spent = 0 /\ moves = 0
  /\ hit = {} /\ moved = {} /\ excused = {}

Spend == spent < MaxTroubles /\ spent' = spent + 1
Move == moves < MaxMoves /\ moves' = moves + 1

-------------------------------------------------------------------------------
(* The logs.                                                                 *)

Current(f) == files[f][Len(files[f])]
Write(f, pieces) == [files EXCEPT ![f][Len(files[f])] = pieces]

\* The piece that a sensor has written of a line which is not complete yet.
Torn(f) ==
  {l \in DOMAIN lines : /\ lines[l].feed = f /\ lines[l].part = "head"
                        /\ \A m \in DOMAIN lines : lines[m].feed = f => m <= l}

Stored(l) == \E k \in Keys : \E i \in DOMAIN evidence[k] : evidence[k][i] = l
Pending(f) == {l \in DOMAIN lines : lines[l].feed = f /\ ~Stored(l)}
Unread(f) == {l \in DOMAIN lines : lines[l].feed = f /\ handler[l].pc = "none"}

\* The forwarder takes what is written next for what it has read already: the file
\* was truncated, and is not yet found to be shorter.
Overtaken(f) == fwd[f].file = Len(files[f]) /\ fwd[f].pos > Len(Current(f))

\* What is written now may not be read as a line, not be read at all, or not be
\* attributed: route_attacker_key wants to find a single route.
Lossy(f, part) ==
  \/ part # "whole"
  \/ Overtaken(f)
  \/ fwd[f].phase = "down" /\ f \notin Kept
  \/ f \in Plain /\ Cardinality(guests) # 1

Put(f, r) ==
  LET l == Len(lines) + 1
  IN /\ l <= MaxLines
     /\ lines' = Append(lines, r)
     /\ files' = Write(f, Append(Current(f), l))
     /\ hit' = IF Lossy(f, r.part) THEN hit \cup {l} ELSE hit
     /\ UNCHANGED <<fwd, handler, stores, home, route, guests, moves>>

\* A sensor logs what attacker a did, in one write or, if the line is longer than
\* its buffer, in two.  The gateway dials the backend by its name, wherever that has
\* moved since the route was written, and needs no more than a route.
Log(f, a, part) ==
  LET ip == IF f \in Routed THEN home[a] ELSE NoIp
  IN /\ Torn(f) = {}
     /\ f \in Routed => home[a] # NoIp /\ route[a] # NoIp
     /\ f \in Plain => a = Owner[f] /\ a \in guests
     /\ Put(f, [feed |-> f, who |-> a, ip |-> ip, part |-> part])
     /\ moved' = IF ip # NoIp /\ ip # route[a] THEN moved \cup {Len(lines) + 1} ELSE moved
     /\ IF part = "head" THEN Spend ELSE UNCHANGED spent

LogRest(f) ==
  \E l \in Torn(f) :
    /\ Put(f, [lines[l] EXCEPT !.part = "tail"])
    /\ UNCHANGED <<moved, spent>>

\* Rotated by a new file under the old name, or by truncation.
Rotate(f) ==
  /\ Spend
  /\ files' = [files EXCEPT ![f] = Append(@, <<>>)]
  /\ hit' = hit \cup Pending(f)
  /\ UNCHANGED <<lines, fwd, handler, stores, network>>

Truncate(f) ==
  /\ Spend
  /\ files' = Write(f, <<>>)
  /\ hit' = hit \cup Pending(f)
  /\ UNCHANGED <<lines, fwd, handler, stores, network>>

-------------------------------------------------------------------------------
(* A forwarder.                                                              *)

Go(f, r) == fwd' = [fwd EXCEPT ![f] = r]

\* refresh_log_handle: the file under the path is opened again, from its start, if
\* it is another one or shorter than what was read of it.  A poll that finds no such
\* file and nothing to read is not a step.  Mutant: only if it is shorter.
Another(f) == fwd[f].file # Len(files[f])
Shorter(f) == Len(Current(f)) < fwd[f].pos
RefreshAs(f, reopen) ==
  LET w == fwd[f]
  IN /\ w.phase = "poll"
     /\ Another(f) \/ Shorter(f) \/ w.pos < Len(Current(f))
     /\ Go(f, IF reopen THEN Tailing("read", Len(files[f]), 0, 0)
                        ELSE Tailing("read", w.file, w.pos, 0))
     /\ UNCHANGED <<logs, handler, stores, network, spent>>
Refresh(f) == RefreshAs(f, Another(f) \/ Shorter(f))

\* attribute_asset_gateway_source: the owner of the one route to the backend that
\* logged the line, or else the proxy.  Mutant: of any such route.
Owners(l) == {a \in Attackers : route[a] = lines[l].ip}
TheOnly(S, none) == IF Cardinality(S) = 1 THEN CHOOSE a \in S : TRUE ELSE none
AnyOwner(l) ==
  IF lines[l].feed \in Routed
    THEN IF Owners(l) = {} THEN Proxy ELSE CHOOSE a \in Owners(l) : TRUE
  ELSE IF lines[l].feed \in Plain THEN TheOnly(guests, Nobody)
  ELSE lines[l].who
\* And route_attacker_key, of the one route to the asset that logs the text, or no one.
Attributed(l) ==
  IF lines[l].feed \in Routed THEN TheOnly(Owners(l), Proxy)
  ELSE IF lines[l].feed \in Plain THEN TheOnly(guests, Nobody)
  ELSE lines[l].who

\* readline, which returns what there is of a line.  iter_json_objects skips what is
\* not an object, iter_log_events takes it for the text of a message of its own, and
\* build_adapter_payload skips an event without an attacker.
Read(f) ==
  LET w == fwd[f]
      pieces == files[f][w.file]
      l == pieces[w.pos + 1]
      joined == lines[l].part = "head" /\ w.pos + 2 \in DOMAIN pieces
      pos == IF joined THEN w.pos + 2 ELSE w.pos + 1
      event == joined \/ lines[l].part = "whole" \/ lines[l].feed \in Plain
  IN /\ w.phase = "read"
     /\ IF w.pos >= Len(pieces)
          THEN Go(f, Tailing("poll", w.file, w.pos, 0)) /\ UNCHANGED <<handler, hit, spent>>
        ELSE IF ~event \/ Attributed(l) = Nobody
          THEN Go(f, Tailing("poll", w.file, pos, 0)) /\ UNCHANGED <<handler, hit, spent>>
        ELSE \/ /\ Go(f, Tailing("wait", w.file, pos, l))
                /\ handler' = [handler EXCEPT ![l] = Posted(Attributed(l))]
                /\ UNCHANGED <<hit, spent>>
             \* URLError: the adapter is not there, and the event is dropped.
             \/ /\ Go(f, Tailing("poll", w.file, pos, 0))
                /\ Spend
                /\ hit' = hit \cup {l}
                /\ UNCHANGED handler
     /\ UNCHANGED <<lines, files, stores, network>>

\* forward_events: the answer, be it an HTTP error, ends the matter.
Answered(f) ==
  LET w == fwd[f]
  IN /\ w.phase = "wait" /\ handler[w.line].pc \in {"done", "failed"}
     /\ Go(f, Tailing("poll", w.file, w.pos, 0))
     /\ UNCHANGED <<logs, handler, stores, network, spent>>

\* The answer does not come in time.  TimeoutError is no URLError, and ends the
\* forwarder; it may also be stopped at any other moment.
Dies(f) ==
  /\ fwd[f].phase # "down"
  /\ Spend
  /\ Go(f, Down)
  /\ hit' = hit \cup Pending(f)
  /\ UNCHANGED <<lines, files, handler, stores, network>>

\* follow_file, started again.  Mutant: it opens the file at its start.
RestartFromStart(f) ==
  /\ fwd[f].phase = "down"
  /\ Go(f, Tailing("poll", Len(files[f]), 0, 0))
  /\ hit' = hit \cup Pending(f)
  /\ UNCHANGED <<lines, files, handler, stores, network, spent>>
Restart(f) ==
  /\ fwd[f].phase = "down"
  /\ Go(f, Tailing("poll", Len(files[f]), IF FromStart THEN 0 ELSE Len(Current(f)), 0))
  /\ hit' = hit \cup Pending(f)
  /\ UNCHANGED <<lines, files, handler, stores, network, spent>>

-------------------------------------------------------------------------------
(* A handler of an adapter: ingest, with the profiler's ingest inside.       *)

Step(l, r) == handler' = [handler EXCEPT ![l] = r]
Others(l, phases) ==
  {o \in Lines \ {l} : handler[o].pc \in phases /\ handler[o].key = handler[l].key}

\* add_many, after the binding was resolved.
AddEvidence(l) ==
  LET k == handler[l].key
      others == Others(l, Ingesting)
  IN /\ handler[l].pc = "posted"
     /\ evidence' = [evidence EXCEPT ![k] = Append(@, l)]
     /\ handler' = [o \in Lines |->
          CASE o = l -> Handler("added", k, 0, others = {})
            [] o \in others -> [handler[o] EXCEPT !.alone = FALSE]
            [] OTHER -> handler[o]]
     /\ UNCHANGED <<logs, fwd, profile, observed, excused, network, spent>>

\* _rebuild_profile reads all evidence of the key.  Mutant: it does so only if no
\* one else has been there, and otherwise counts its own on top of the profile.
ReadOwnOnly(l) ==
  /\ handler[l].pc = "added"
  /\ LET h == handler[l] IN Step(l, Handler("read", h.key, profile[h.key] + 1, h.alone))
  /\ UNCHANGED <<logs, fwd, stores, network, spent>>
ReadEvidence(l) ==
  /\ handler[l].pc = "added"
  /\ LET h == handler[l] IN Step(l, Handler("read", h.key, Len(evidence[h.key]), h.alone))
  /\ UNCHANGED <<logs, fwd, stores, network, spent>>

\* The profile is written, whatever has been written since the evidence was read.
UpsertProfile(l) ==
  LET h == handler[l]
  IN /\ h.pc = "read"
     /\ profile' = [profile EXCEPT ![h.key] = h.n]
     /\ excused' = IF h.alone THEN excused \ {h.key} ELSE excused \cup {h.key}
     /\ Step(l, [h EXCEPT !.pc = "profiled"])
     /\ UNCHANGED <<logs, fwd, evidence, observed, network, spent>>

AddObservation(l) ==
  /\ handler[l].pc = "profiled"
  /\ observed' = observed \cup {l}
  /\ Step(l, [handler[l] EXCEPT !.pc = "done"])
  /\ UNCHANGED <<logs, fwd, evidence, profile, excused, network, spent>>

\* An exception, answered with a 500, or the end of the adapter's process.  In the
\* latter case RemoteDisconnected, which is no URLError either, ends the forwarder.
BreaksOff(l, crash) ==
  LET h == handler[l]
  IN /\ h.pc \in InFlight
     /\ Spend
     /\ Step(l, [h EXCEPT !.pc = "failed"])
     /\ excused' = IF h.pc \in Ingesting THEN excused \cup {h.key} ELSE excused
     /\ IF crash
          THEN /\ fwd' = [f \in Feeds |-> IF fwd[f].line = l THEN Down ELSE fwd[f]]
               /\ hit' = hit \cup Pending(lines[l].feed)
          ELSE UNCHANGED fwd /\ hit' = hit \cup {l}
     /\ UNCHANGED <<lines, files, evidence, profile, observed, network>>

-------------------------------------------------------------------------------
(* The containers that log, and their routes.                                *)

StopContainer(a) ==
  /\ home[a] # NoIp
  /\ Move
  /\ home' = [home EXCEPT ![a] = NoIp]
  /\ UNCHANGED <<logs, fwd, handler, stores, route, guests, moved, spent>>

\* docker run, after docker rm -f of the container there was.  What that one logged
\* is left with the old address.
StartContainer(a, ip) ==
  /\ \A b \in Attackers : home[b] # ip
  /\ Move
  /\ home' = [home EXCEPT ![a] = ip]
  /\ moved' = moved \cup {l \in UNION {Unread(f) : f \in Routed} : lines[l].who = a}
  /\ UNCHANGED <<logs, fwd, handler, stores, route, guests, spent>>

\* upsert_asset_gateway_routes replaces the route the binding had for the asset.
WriteRoute(a) ==
  /\ home[a] # NoIp /\ route[a] # home[a]
  /\ route' = [route EXCEPT ![a] = home[a]]
  /\ UNCHANGED <<logs, fwd, handler, stores, home, guests, moves, moved, spent>>

\* The first route of an attacker to the high-interaction asset.
Admit(a) ==
  /\ a \notin guests
  /\ Move
  /\ guests' = guests \cup {a}
  /\ hit' = hit \cup UNION {Unread(f) : f \in Plain}
  /\ UNCHANGED <<lines, files, fwd, handler, stores, home, route, moved, spent>>

-------------------------------------------------------------------------------
Forward(f) == Refresh(f) \/ Read(f) \/ Answered(f)
Handle(l) == AddEvidence(l) \/ ReadEvidence(l) \/ UpsertProfile(l) \/ AddObservation(l)

Next ==
  \/ \E f \in Feeds :
       \/ \E a \in Attackers, part \in {"whole", "head"} : Log(f, a, part)
       \/ LogRest(f) \/ Rotate(f) \/ Truncate(f)
       \/ Forward(f) \/ Dies(f) \/ Restart(f)
  \/ \E l \in Lines : Handle(l) \/ \E crash \in BOOLEAN : BreaksOff(l, crash)
  \/ \E a \in Attackers :
       StopContainer(a) \/ WriteRoute(a) \/ Admit(a) \/ \E ip \in Ips : StartContainer(a, ip)

\* Forwarders poll, Docker restarts those of the compose files (restart:
\* unless-stopped) and no sidecar, threads run.
Spec ==
  /\ Init /\ [][Next]_vars
  /\ \A f \in Feeds : WF_vars(Forward(f))
  /\ \A f \in Kept : WF_vars(Restart(f))
  /\ \A l \in Lines : WF_vars(Handle(l))

-------------------------------------------------------------------------------
(* Properties.                                                               *)

TypeOK ==
  /\ \A f \in Feeds :
       /\ fwd[f].phase \in {"down", "poll", "read", "wait"}
       /\ fwd[f].file \in DOMAIN files[f]
       /\ fwd[f].phase = "wait" => fwd[f].line \in DOMAIN lines
  /\ \A l \in Lines : handler[l].pc \in InFlight \cup {"none", "done", "failed"}
  /\ \A k \in Keys : evidence[k] \in Seq(Lines) /\ profile[k] \in Nat

\* Whatever happens to logs, forwarders and adapters, what is written once makes
\* evidence at most once: a forwarder that starts again, after a rotation or in the
\* middle of a request, never sends it another time.  Only text that names no one is
\* evidence by the half, so that no other line is evidence twice.  And what an adapter
\* has stored as an observation, with the ids of its evidence, has that evidence.
OnceAtMost ==
  /\ \A j, k \in Keys : \A i \in DOMAIN evidence[k] : \A h \in DOMAIN evidence[j] :
       evidence[k][i] = evidence[j][h] => j = k /\ i = h
  /\ \A l \in DOMAIN lines : Stored(l) /\ lines[l].part = "tail" => lines[l].feed \in Plain
  /\ \A l \in observed : Stored(l)

\* "Replace the proxy source IP with the route's original attacker IP": evidence is
\* never put to another attacker's account, unless the backend that logged the line
\* was replaced before the line was read, or wrote it before its new address was in
\* the route.
NobodyElsesDoing ==
  \A a \in Attackers : \A i \in DOMAIN evidence[a] :
    LET l == evidence[a][i] IN lines[l].who = a \/ l \in moved

\* "Rebuild from stored evidence": whatever earlier ingests have left behind, once
\* one has run that no other ingest of the attacker overlapped, the profile reflects
\* all evidence there is, and never more than there is.
QuietProfile ==
  \A k \in Keys :
    /\ profile[k] <= Len(evidence[k])
    /\ k \notin excused /\ (\A l \in Lines : handler[l].key = k => handler[l].pc \notin Ingesting)
         => profile[k] = Len(evidence[k])


=================================================================================
