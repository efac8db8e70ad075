---------------------------- MODULE TelemetryProofs ----------------------------
(***************************************************************************)
(* Proofs about Telemetry, for forwarders that start at the end of their    *)
(* files (FromStart is FALSE in every compose file).  A piece is evidence    *)
(* at most once because what a forwarder has still ahead of it was never    *)
(* posted (Ahead, Unposted), whatever became of the files meanwhile.        *)
(***************************************************************************)
EXTENDS Telemetry, FiniteSetTheorems, TLAPS

-------------------------------------------------------------------------------
(* Types.                                                                    *)

Logged ==
  [feed : Feeds, who : Attackers, ip : Ips \cup {NoIp}, part : {"whole", "head", "tail"}]
Forwarder == [phase : {"down", "poll", "read", "wait"}, file : Nat, pos : Nat, line : Nat]
Ingest == [pc : InFlight \cup {"none", "done", "failed"}, key : Keys, n : Nat, alone : BOOLEAN]

LogsTyped ==
  /\ lines \in Seq(Logged) /\ Len(lines) <= MaxLines
  /\ files \in [Feeds -> Seq(Seq(Lines))]
  /\ \A f \in Feeds : Len(files[f]) > 0
FwdTyped ==
  /\ fwd \in [Feeds -> Forwarder]
  /\ \A f \in Feeds : fwd[f].file \in 1..Len(files[f])
HandlersTyped == handler \in [Lines -> Ingest]
StoresTyped == evidence \in [Keys -> Seq(Lines)] /\ profile \in [Keys -> Nat]
NetworkTyped ==
  /\ home \in [Attackers -> Ips \cup {NoIp}]
  /\ route \in [Attackers -> Ips \cup {NoIp}]
  /\ guests \subseteq Attackers

Typed == LogsTyped /\ FwdTyped /\ HandlersTyped /\ StoresTyped /\ NetworkTyped

\* Writing the current file of a feed leaves all others alone.
LEMMA WriteFacts ==
  ASSUME files \in [Feeds -> Seq(Seq(Lines))], \A f \in Feeds : Len(files[f]) > 0,
         NEW f \in Feeds, NEW pieces \in Seq(Lines), files' = Write(f, pieces)
  PROVE  /\ files' \in [Feeds -> Seq(Seq(Lines))]
         /\ \A g \in Feeds : Len(files'[g]) = Len(files[g])
         /\ \A g \in Feeds : g # f => files'[g] = files[g]
         /\ \A i \in 1..Len(files[f]) : i # Len(files[f]) => files'[f][i] = files[f][i]
         /\ files'[f][Len(files[f])] = pieces
<1> DEFINE last == Len(files[f])
           new == [files[f] EXCEPT ![last] = pieces]
<1>1. files[f] \in Seq(Seq(Lines)) /\ last \in 1..Len(files[f])
  OBVIOUS
<1>2. /\ new \in Seq(Seq(Lines)) /\ Len(new) = Len(files[f]) /\ new[last] = pieces
      /\ \A i \in 1..Len(files[f]) : i # last => new[i] = files[f][i]
  BY <1>1
<1>3. files' = [files EXCEPT ![f] = new]
  BY DEF Write
<1> HIDE DEF new
<1>4. files'[f] = new /\ \A g \in Feeds : g # f => files'[g] = files[g]
  BY <1>3
<1>5. files' \in [Feeds -> Seq(Seq(Lines))]
  BY <1>2, <1>3
<1> QED
  BY <1>1, <1>2, <1>4, <1>5

\* The only member of a set is a member.
LEMMA TheOnlyFacts ==
  ASSUME NEW S \in SUBSET Attackers, NEW none, TheOnly(S, none) # none
  PROVE  /\ TheOnly(S, none) \in S
         /\ \A a \in S : a = TheOnly(S, none)
<1>1. Cardinality(S) = 1 /\ TheOnly(S, none) = CHOOSE a \in S : TRUE
  BY DEF TheOnly
<1>2. IsFiniteSet(S)
  BY TelemetryAssumption, FS_Subset
<1>3. \E a : S = {a}
  BY <1>1, <1>2, FS_Singleton
<1> QED
  BY <1>1, <1>3

\* Attributed names an attacker or the proxy, or no one.
LEMMA AttributedTyped ==
  ASSUME Typed, NEW l \in DOMAIN lines, Attributed(l) # Nobody
  PROVE  Attributed(l) \in Keys
<1>1. lines[l].who \in Attackers
  <2>1. lines[l] \in Logged
    BY DEF Typed, LogsTyped
  <2> QED
    BY <2>1 DEF Logged
<1>2. CASE lines[l].feed \in Routed
  <2>1. Owners(l) \in SUBSET Attackers
    BY DEF Owners
  <2>2. Attributed(l) = TheOnly(Owners(l), Proxy)
    BY <1>2 DEF Attributed
  <2> QED
    BY <2>1, <2>2, TheOnlyFacts DEF Keys
<1>3. CASE lines[l].feed \notin Routed /\ lines[l].feed \in Plain
  <2>1. guests \in SUBSET Attackers
    BY DEF Typed, NetworkTyped
  <2>2. Attributed(l) = TheOnly(guests, Nobody)
    BY <1>3 DEF Attributed
  <2> QED
    BY <2>1, <2>2, TheOnlyFacts DEF Keys
<1>4. CASE lines[l].feed \notin Routed /\ lines[l].feed \notin Plain
  BY <1>1, <1>4 DEF Attributed, Keys
<1> QED
  BY <1>2, <1>3, <1>4

-------------------------------------------------------------------------------
(* The invariant.                                                            *)

\* There is a piece j in file i of a feed.
At(f, i, j) == i \in 1..Len(files[f]) /\ j \in 1..Len(files[f][i])

\* It is still to be read by the forwarder, if that one stays up.
Ahead(f, i, j) ==
  \/ i > fwd[f].file
  \/ i = fwd[f].file /\ j > fwd[f].pos
  \/ i = fwd[f].file /\ i = Len(files[f]) /\ fwd[f].pos > Len(files[f][i])

Known == \A f \in Feeds, i, j \in Nat : At(f, i, j) => files[f][i][j] \in 1..Len(lines)
Waiting == \A f \in Feeds : fwd[f].phase = "wait" => fwd[f].line \in 1..Len(lines)
Begun == \A l \in Lines : handler[l].pc # "none" => l \in 1..Len(lines)

Once ==
  \A f, g \in Feeds, i, j, h, k \in Nat :
    At(f, i, j) /\ At(g, h, k) /\ files[f][i][j] = files[g][h][k]
      => f = g /\ i = h /\ j = k

Unposted ==
  \A f \in Feeds, i, j \in Nat :
    At(f, i, j) /\ fwd[f].phase # "down" /\ Ahead(f, i, j)
      => handler[files[f][i][j]].pc = "none"

Ledger == Known /\ Waiting /\ Begun /\ Once /\ Unposted

\* What reading does: it goes forward, and may post the line it found.
Moves(f, r) ==
  /\ r \in Forwarder /\ fwd' = [fwd EXCEPT ![f] = r]
  /\ r.file = fwd[f].file /\ r.pos >= fwd[f].pos
  /\ r.pos = fwd[f].pos \/ r.pos <= Len(files[f][r.file])

LEMMA PieceAt ==
  ASSUME NEW pieces \in Seq(Lines), NEW j \in 1..Len(pieces)
  PROVE  pieces[j] \in Lines
OBVIOUS

LEMMA TailTyped ==
  ASSUME NEW phase \in {"down", "poll", "read", "wait"}, NEW file \in Nat, NEW pos \in Nat,
         NEW line \in Nat
  PROVE  LET r == Tailing(phase, file, pos, line)
         IN r \in Forwarder /\ r.phase = phase /\ r.file = file /\ r.pos = pos /\ r.line = line
BY DEF Tailing, Forwarder

LEMMA MovesOn ==
  ASSUME NEW f \in Feeds, NEW w, w = fwd[f], NEW pieces, pieces = files[f][w.file],
         NEW r \in Forwarder, fwd' = [fwd EXCEPT ![f] = r], r.file = w.file,
         w.pos \in Nat, NEW p \in Nat, r.pos = p, p > w.pos, p <= Len(pieces)
  PROVE  Moves(f, r) /\ r.pos > w.pos
<1>1. r.pos > w.pos /\ r.pos >= w.pos
  OBVIOUS
<1>2. r.pos <= Len(files[f][r.file])
  OBVIOUS
<1> QED
  BY <1>1, <1>2 DEF Moves

\* What may make an event: a line, or what there is of one that is only text.
Readable(l) == lines[l].part # "tail" \/ lines[l].feed \in Plain

LEMMA ReadFacts ==
  ASSUME Typed, Known, NEW f \in Feeds, Read(f)
  PROVE  \/ /\ \E r : Moves(f, r) /\ r.phase = "poll" /\ r.line = 0
            /\ handler' = handler
         \/ \E r, l : /\ Moves(f, r) /\ r.phase = "wait" /\ r.line = l
                      /\ l \in 1..Len(lines) /\ l \in Lines
                      /\ r.pos > fwd[f].pos
                      /\ At(f, fwd[f].file, fwd[f].pos + 1)
                      /\ files[f][fwd[f].file][fwd[f].pos + 1] = l
                      /\ fwd[f].phase # "down"
                      /\ Readable(l) /\ Attributed(l) # Nobody
                      /\ handler' = [handler EXCEPT ![l] = Posted(Attributed(l))]
<1>0. PICK w, pieces : w \in Forwarder /\ w = fwd[f] /\ pieces = files[f][w.file]
  BY DEF Typed, LogsTyped, FwdTyped
<1>5. pieces \in Seq(Lines)
  BY <1>0 DEF Typed, LogsTyped, FwdTyped
<1>1. w.pos \in Nat /\ w.file \in Nat /\ w.phase = "read"
  BY <1>0 DEF Forwarder, Read
<1>4. w.file \in 1..Len(files[f])
  BY <1>0 DEF Typed, LogsTyped, FwdTyped
<1>2. CASE w.pos >= Len(pieces)
  <2>1. fwd' = [fwd EXCEPT ![f] = Tailing("poll", w.file, w.pos, 0)] /\ handler' = handler
    BY <1>0, <1>2 DEF Read, Go
  <2>2. PICK r : r = Tailing("poll", w.file, w.pos, 0)
    OBVIOUS
  <2>3. r \in Forwarder /\ r.file = w.file /\ r.pos = w.pos /\ r.phase = "poll" /\ r.line = 0
    BY <1>1, <2>2, TailTyped
  <2>4. Moves(f, r)
    BY <1>0, <1>1, <2>1, <2>2, <2>3 DEF Moves
  <2> QED
    BY <1>0, <2>1, <2>3, <2>4
<1>3. CASE w.pos < Len(pieces)
  <2>1. PICK l : l = pieces[w.pos + 1]
    OBVIOUS
  <2>2. At(f, w.file, w.pos + 1)
    BY <1>0, <1>1, <1>3, <1>4, SMTT(30) DEF At
  <2>3. l \in 1..Len(lines) /\ l \in Lines /\ l \in Nat
    <3>1. l \in Lines
      BY <1>1, <1>3, <1>5, <2>1, PieceAt
    <3>2. l \in 1..Len(lines)
      BY <1>0, <1>1, <2>1, <2>2 DEF Known
    <3> QED
      BY <3>1, <3>2 DEF Lines
  <2>4. PICK p :
           p = IF lines[l].part = "head" /\ w.pos + 2 \in DOMAIN pieces THEN w.pos + 2 ELSE w.pos + 1
    OBVIOUS
  <2>11. p \in Nat /\ p > w.pos /\ p <= Len(pieces)
    BY <1>1, <1>3, <1>5, <2>4
  <2>12. p \in Nat
    BY <2>11
  <2>13. ~(w.pos >= Len(pieces))
    BY <1>1, <1>3, <1>5
  <2>5. \/ /\ fwd' = [fwd EXCEPT ![f] = Tailing("poll", w.file, p, 0)]
           /\ handler' = handler
        \/ /\ Readable(l) /\ Attributed(l) # Nobody
           /\ fwd' = [fwd EXCEPT ![f] = Tailing("wait", w.file, p, l)]
           /\ handler' = [handler EXCEPT ![l] = Posted(Attributed(l))]
    BY <1>0, <2>1, <2>4, <2>13 DEF Read, Go, Readable
  <2>6. ASSUME /\ fwd' = [fwd EXCEPT ![f] = Tailing("poll", w.file, p, 0)]
               /\ handler' = handler
        PROVE  \E r : Moves(f, r) /\ r.phase = "poll" /\ r.line = 0
    <3>1. PICK r : r = Tailing("poll", w.file, p, 0)
      OBVIOUS
    <3>2. /\ r \in Forwarder /\ r.file = w.file /\ r.pos = p
          /\ r.phase = "poll" /\ r.line = 0
      BY <1>1, <2>12, <3>1, TailTyped
    <3>3. fwd' = [fwd EXCEPT ![f] = r]
      BY <2>6, <3>1
    <3>4. Moves(f, r)
      BY <1>0, <1>1, <2>11, <3>2, <3>3, MovesOn
    <3> QED
      BY <1>0, <3>2, <3>4
  <2>7. ASSUME fwd' = [fwd EXCEPT ![f] = Tailing("wait", w.file, p, l)]
        PROVE  \E r : /\ Moves(f, r) /\ r.phase = "wait" /\ r.line = l
                      /\ r.pos > fwd[f].pos
    <3>1. PICK r : r = Tailing("wait", w.file, p, l)
      OBVIOUS
    <3>2. r \in Forwarder /\ r.file = w.file /\ r.pos = p /\ r.phase = "wait" /\ r.line = l
      BY <1>1, <2>3, <2>12, <3>1 DEF Tailing, Forwarder
    <3>3. fwd' = [fwd EXCEPT ![f] = r]
      BY <2>7, <3>1
    <3>4. Moves(f, r) /\ r.pos > w.pos
      BY <1>0, <1>1, <2>11, <3>2, <3>3, MovesOn
    <3> QED
      BY <1>0, <3>2, <3>4
  <2>9. CASE handler' = handler /\ fwd' = [fwd EXCEPT ![f] = Tailing("poll", w.file, p, 0)]
    BY <2>6, <2>9
  <2>10. CASE /\ Readable(l) /\ Attributed(l) # Nobody
              /\ fwd' = [fwd EXCEPT ![f] = Tailing("wait", w.file, p, l)]
              /\ handler' = [handler EXCEPT ![l] = Posted(Attributed(l))]
    <3>1. PICK r : /\ Moves(f, r) /\ r.phase = "wait" /\ r.line = l
                   /\ r.pos > fwd[f].pos
      BY <2>7, <2>10
    <3>2. fwd[f].phase # "down" /\ At(f, fwd[f].file, fwd[f].pos + 1)
      BY <1>0, <1>1, <2>2
    <3>3. files[f][fwd[f].file][fwd[f].pos + 1] = l
      BY <1>0, <2>1
    <3> QED
      BY <2>3, <2>10, <3>1, <3>2, <3>3
  <2> QED
    BY <2>5, <2>9, <2>10
<1> QED
  BY <1>0, <1>1, <1>2, <1>3

-------------------------------------------------------------------------------
(* The steps, sorted by what they change.                                    *)

Logging ==
  /\ \E f \in Feeds : \/ \E a \in Attackers, part \in {"whole", "head"} : Log(f, a, part)
                      \/ LogRest(f) \/ Rotate(f) \/ Truncate(f)
  /\ UNCHANGED <<fwd, handler, evidence, profile, observed, excused, home, route, guests>>
Tending ==
  /\ \E f \in Feeds : Refresh(f) \/ Answered(f) \/ Dies(f) \/ Restart(f)
  /\ UNCHANGED <<lines, files, handler, evidence, profile, observed, excused, network>>
Reading ==
  /\ \E f \in Feeds : Read(f)
  /\ UNCHANGED <<lines, files, evidence, profile, observed, excused, network>>
Handling ==
  /\ \E l \in Lines : Handle(l) \/ \E crash \in BOOLEAN : BreaksOff(l, crash)
  /\ UNCHANGED <<lines, files, network>>
Comes(a) ==
  StopContainer(a) \/ WriteRoute(a) \/ Admit(a) \/ \E ip \in Ips : StartContainer(a, ip)
Networking ==
  /\ \E a \in Attackers : Comes(a)
  /\ UNCHANGED <<lines, files, fwd, handler, evidence, profile, observed, excused>>

LEMMA Sorted ==
  ASSUME Next
  PROVE  Logging \/ Tending \/ Reading \/ Handling \/ Networking
<1>1. ASSUME NEW f \in Feeds, NEW a \in Attackers, NEW part \in {"whole", "head"}, Log(f, a, part)
      PROVE  Logging
  BY <1>1 DEF Log, Put, Logging, stores
<1>2. ASSUME NEW f \in Feeds, LogRest(f)
      PROVE  Logging
  BY <1>2 DEF LogRest, Put, Logging, stores
<1>7. ASSUME NEW f \in Feeds, Rotate(f) \/ Truncate(f)
      PROVE  Logging
  BY <1>7 DEF Rotate, Truncate, Logging, stores, network
<1>3. ASSUME NEW f \in Feeds, Refresh(f) \/ Answered(f) \/ Dies(f) \/ Restart(f)
      PROVE  Tending
  BY <1>3 DEF Refresh, RefreshAs, Answered, Dies, Restart, Tending, logs, stores
<1>4. ASSUME NEW f \in Feeds, Read(f)
      PROVE  Reading
  BY <1>4 DEF Read, Reading, stores
<1>5. ASSUME NEW l \in Lines, Handle(l) \/ \E crash \in BOOLEAN : BreaksOff(l, crash)
      PROVE  Handling
  <2>1. UNCHANGED <<lines, files, network>>
    BY <1>5 DEF Handle, AddEvidence, ReadEvidence, UpsertProfile, AddObservation, BreaksOff, logs
  <2> QED
    BY <1>5, <2>1 DEF Handling
<1>6. ASSUME NEW a \in Attackers, Comes(a)
      PROVE  Networking
  BY <1>6 DEF Comes, StopContainer, WriteRoute, Admit, StartContainer, Networking, logs, stores
<1> QED
  BY <1>1, <1>2, <1>3, <1>4, <1>5, <1>6, <1>7 DEF Next, Forward, Comes

-------------------------------------------------------------------------------
(* The logs.                                                                 *)

\* A piece is written, or a file is replaced.
Writes(f) ==
  \E l \in Lines, r \in Logged :
    /\ l = Len(lines) + 1 /\ lines' = Append(lines, r)
    /\ r.feed \in Routed /\ r.part # "tail" =>
         /\ r.ip = home[r.who] /\ r.ip # NoIp
         /\ r.ip = route[r.who] \/ l \in moved'
    /\ r.feed \in Plain => r.who \in guests
    /\ files' = Write(f, Append(Current(f), l))
Replaces(f) ==
  lines' = lines /\ (files' = [files EXCEPT ![f] = Append(@, <<>>)] \/ files' = Write(f, <<>>))

\* What is text was logged by someone with a route to the asset.
Invited == \A l \in Lines : l \in 1..Len(lines) /\ lines[l].feed \in Plain => lines[l].who \in guests

LEMMA CurrentTyped ==
  ASSUME LogsTyped, NEW f \in Feeds
  PROVE  /\ files[f] \in Seq(Seq(Lines)) /\ Len(files[f]) \in 1..Len(files[f])
         /\ Current(f) \in Seq(Lines)
<1>1. files[f] \in Seq(Seq(Lines)) /\ Len(files[f]) \in 1..Len(files[f])
  BY DEF LogsTyped
<1> QED
  BY <1>1 DEF Current

LEMMA LoggingKinds ==
  ASSUME Typed, Invited, Logging
  PROVE  (\E f \in Feeds : Writes(f) \/ Replaces(f)) /\ moved \subseteq moved'
<1>0. LogsTyped /\ NetworkTyped /\ Len(lines) \in Nat /\ MaxLines \in Nat
  BY TelemetryAssumption DEF Typed, LogsTyped
<1>1. ASSUME NEW f \in Feeds, NEW a \in Attackers, NEW part \in {"whole", "head"}, Log(f, a, part)
      PROVE  Writes(f) /\ moved \subseteq moved'
  <2>1. PICK ip : ip = IF f \in Routed THEN home[a] ELSE NoIp
    OBVIOUS
  <2>2. ip \in Ips \cup {NoIp}
    BY <1>0, <2>1 DEF NetworkTyped
  <2>3. PICK r : r = [feed |-> f, who |-> a, ip |-> ip, part |-> part]
    OBVIOUS
  <2>4. r \in Logged /\ r.feed = f /\ r.who = a /\ r.ip = ip /\ r.part = part
    BY <2>2, <2>3 DEF Logged
  <2>5. PICK l : l = Len(lines) + 1
    OBVIOUS
  <2>6. /\ l <= MaxLines /\ lines' = Append(lines, r)
        /\ files' = Write(f, Append(Current(f), l))
    BY <1>1, <2>1, <2>3, <2>5 DEF Log, Put
  <2>7. l \in Lines
    BY <1>0, <2>5, <2>6 DEF Lines
  <2>8. moved' = IF ip # NoIp /\ ip # route[a] THEN moved \cup {l} ELSE moved
    BY <1>1, <2>1, <2>5 DEF Log
  <2>9. f \in Routed => ip = home[a] /\ ip # NoIp
    BY <1>1, <2>1 DEF Log
  <2>10. f \in Plain => a \in guests
    BY <1>1 DEF Log
  <2>11. ip # NoIp => ip = route[a] \/ l \in moved'
    BY <2>8
  <2> QED
    BY <2>4, <2>5, <2>6, <2>7, <2>8, <2>9, <2>10, <2>11 DEF Writes
<1>2. ASSUME NEW f \in Feeds, LogRest(f)
      PROVE  Writes(f) /\ moved \subseteq moved'
  <2>1. PICK h \in Torn(f) : Put(f, [lines[h] EXCEPT !.part = "tail"]) /\ moved' = moved
    BY <1>2 DEF LogRest
  <2>2. h \in 1..Len(lines) /\ h \in Lines
    <3>1. h \in DOMAIN lines /\ DOMAIN lines = 1..Len(lines) /\ Len(lines) <= MaxLines
      BY <1>0 DEF Torn, LogsTyped
    <3> QED
      BY <1>0, <3>1 DEF Lines
  <2>3. lines[h] \in Logged
    BY <1>0, <2>2 DEF LogsTyped
  <2>4. PICK r : r = [lines[h] EXCEPT !.part = "tail"]
    OBVIOUS
  <2>5. /\ r \in Logged /\ r.part = "tail" /\ r.who = lines[h].who /\ r.feed = lines[h].feed
    BY <2>3, <2>4 DEF Logged
  <2>6. PICK l : l = Len(lines) + 1
    OBVIOUS
  <2>7. /\ l <= MaxLines /\ lines' = Append(lines, r)
        /\ files' = Write(f, Append(Current(f), l))
    BY <2>1, <2>4, <2>6 DEF Put
  <2>8. l \in Lines
    BY <1>0, <2>6, <2>7 DEF Lines
  <2>9. r.feed \in Plain => r.who \in guests
    BY <2>2, <2>5 DEF Invited
  <2> QED
    BY <2>1, <2>5, <2>6, <2>7, <2>8, <2>9 DEF Writes
<1>3. ASSUME NEW f \in Feeds, Rotate(f) \/ Truncate(f)
      PROVE  Replaces(f) /\ moved \subseteq moved'
  BY <1>3 DEF Rotate, Truncate, Replaces, network
<1> QED
  BY <1>1, <1>2, <1>3 DEF Logging

\* Nothing that was written changes when a piece is appended to the current file.
LEMMA Appended ==
  ASSUME LogsTyped, NEW f \in Feeds, NEW piece \in Lines,
         files' = Write(f, Append(Current(f), piece))
  PROVE  /\ files' \in [Feeds -> Seq(Seq(Lines))]
         /\ \A g \in Feeds : Len(files'[g]) = Len(files[g])
         /\ \A g \in Feeds, i, j \in Nat : At(g, i, j)' =>
              \/ At(g, i, j) /\ files'[g][i][j] = files[g][i][j]
              \/ /\ g = f /\ i = Len(files[f]) /\ j = Len(files[f][i]) + 1
                 /\ files'[g][i][j] = piece
         /\ \A g \in Feeds : \A i \in 1..Len(files[g]) : Len(files'[g][i]) >= Len(files[g][i])
<1>1. PICK m : m = Len(files[f])
  OBVIOUS
<1>2. m \in 1..Len(files[f]) /\ Current(f) = files[f][m] /\ Current(f) \in Seq(Lines)
  BY <1>1, CurrentTyped DEF Current
<1>3. PICK new : new = Append(Current(f), piece)
  OBVIOUS
<1>4. /\ new \in Seq(Lines) /\ Len(new) = Len(Current(f)) + 1 /\ Len(Current(f)) \in Nat
      /\ new[Len(Current(f)) + 1] = piece
      /\ \A j \in 1..Len(Current(f)) : new[j] = Current(f)[j]
  BY <1>2, <1>3
<1>5. /\ files' \in [Feeds -> Seq(Seq(Lines))]
      /\ \A g \in Feeds : Len(files'[g]) = Len(files[g])
      /\ \A g \in Feeds : g # f => files'[g] = files[g]
      /\ \A i \in 1..Len(files[f]) : i # m => files'[f][i] = files[f][i]
      /\ files'[f][m] = new
  BY <1>1, <1>3, <1>4, WriteFacts DEF LogsTyped
<1>6. ASSUME NEW g \in Feeds, NEW i \in Nat, NEW j \in Nat, At(g, i, j)'
      PROVE  \/ At(g, i, j) /\ files'[g][i][j] = files[g][i][j]
             \/ /\ g = f /\ i = m /\ j = Len(files[f][i]) + 1
                /\ files'[g][i][j] = piece
  <2>1. i \in 1..Len(files[g]) /\ j \in 1..Len(files'[g][i])
    BY <1>5, <1>6 DEF At
  <2>2. CASE g # f \/ i # m
    <3>1. files'[g][i] = files[g][i]
      BY <1>5, <2>1, <2>2
    <3> QED
      BY <2>1, <3>1 DEF At
  <2>3. CASE g = f /\ i = m
    <3>1. j \in 1..(Len(files[f][m]) + 1) /\ files'[g][i] = new
      BY <1>2, <1>4, <1>5, <2>1, <2>3
    <3>2. CASE j = Len(files[f][m]) + 1
      BY <1>2, <1>4, <2>3, <3>1, <3>2
    <3>3. CASE j # Len(files[f][m]) + 1
      <4>1. j \in 1..Len(files[f][m])
        BY <1>2, <1>4, <3>1, <3>3
      <4> QED
        BY <1>2, <1>4, <2>1, <2>3, <3>1, <4>1 DEF At
    <3> QED
      BY <3>2, <3>3
  <2> QED
    BY <2>2, <2>3
<1>7. ASSUME NEW g \in Feeds, NEW i \in 1..Len(files[g])
      PROVE  Len(files'[g][i]) >= Len(files[g][i])
  <2>1. files[g][i] \in Seq(Lines)
    BY DEF LogsTyped
  <2>2. Len(files[g][i]) \in Nat
    BY <2>1
  <2>3. CASE g # f \/ i # m
    BY <1>5, <2>2, <2>3
  <2>4. CASE g = f /\ i = m
    BY <1>2, <1>4, <1>5, <2>2, <2>4
  <2> QED
    BY <2>3, <2>4
<1> QED
  BY <1>1, <1>5, <1>6, <1>7

\* A file that is replaced or emptied brings nothing that was not there.
LEMMA Replaced ==
  ASSUME LogsTyped, NEW f \in Feeds, Replaces(f)
  PROVE  /\ files' \in [Feeds -> Seq(Seq(Lines))]
         /\ \A g \in Feeds : Len(files'[g]) >= Len(files[g])
         /\ \A g \in Feeds, i, j \in Nat : At(g, i, j)' =>
              /\ At(g, i, j) /\ files'[g][i] = files[g][i]
              /\ i = Len(files'[g]) => Len(files'[g]) = Len(files[g])
<1>1. PICK m : m = Len(files[f])
  OBVIOUS
<1>2. m \in 1..Len(files[f]) /\ m \in Nat /\ files[f] \in Seq(Seq(Lines))
  BY <1>1, CurrentTyped
<1>3. CASE files' = [files EXCEPT ![f] = Append(@, <<>>)]
  <2>1. PICK new : new = Append(files[f], <<>>)
    OBVIOUS
  <2>2. /\ new \in Seq(Seq(Lines)) /\ Len(new) = m + 1 /\ new[m + 1] = <<>>
        /\ \A i \in 1..m : new[i] = files[f][i]
    <3>1. <<>> \in Seq(Lines)
      OBVIOUS
    <3> QED
      BY <1>1, <1>2, <2>1, <3>1
  <2>3. /\ files'[f] = new /\ \A g \in Feeds : g # f => files'[g] = files[g]
        /\ files' \in [Feeds -> Seq(Seq(Lines))]
    BY <1>3, <2>1, <2>2 DEF LogsTyped
  <2>4. \A g \in Feeds : Len(files[g]) \in Nat
    BY DEF LogsTyped
  <2>5. ASSUME NEW g \in Feeds
        PROVE  Len(files'[g]) >= Len(files[g])
    <3>1. CASE g = f
      <4>1. Len(files'[f]) = m + 1
        BY <2>2, <2>3
      <4>2. m + 1 >= m
        BY <1>2
      <4> QED
        BY <1>1, <3>1, <4>1, <4>2
    <3>2. CASE g # f
      <4>1. Len(files'[g]) = Len(files[g])
        BY <2>3, <3>2
      <4> QED
        BY <2>4, <4>1
    <3> QED
      BY <3>1, <3>2
  <2>6. ASSUME NEW g \in Feeds, NEW i \in Nat, NEW j \in Nat, At(g, i, j)'
        PROVE  /\ At(g, i, j) /\ files'[g][i] = files[g][i]
               /\ i = Len(files'[g]) => Len(files'[g]) = Len(files[g])
    <3>1. CASE g # f
      BY <2>3, <2>6, <3>1 DEF At
    <3>2. CASE g = f
      <4>1. i \in 1..(m + 1) /\ j \in 1..Len(new[i])
        BY <2>2, <2>3, <2>6, <3>2 DEF At
      <4>2. Len(<<>>) = 0
        OBVIOUS
      <4>3. i # m + 1
        BY <2>2, <4>1, <4>2
      <4>4. i \in 1..m
        BY <1>2, <4>1, <4>3
      <4>5. files'[g][i] = files[g][i] /\ i # Len(files'[g])
        BY <1>2, <2>2, <2>3, <3>2, <4>3, <4>4
      <4>6. At(g, i, j)
        BY <1>1, <2>6, <3>2, <4>4, <4>5 DEF At
      <4> QED
        BY <4>5, <4>6
    <3> QED
      BY <3>1, <3>2
  <2> QED
    BY <2>3, <2>5, <2>6
<1>4. CASE files' = Write(f, <<>>)
  <2>1. <<>> \in Seq(Lines) /\ Len(<<>>) = 0
    OBVIOUS
  <2>2. /\ files' \in [Feeds -> Seq(Seq(Lines))]
        /\ \A g \in Feeds : Len(files'[g]) = Len(files[g])
        /\ \A g \in Feeds : g # f => files'[g] = files[g]
        /\ \A i \in 1..Len(files[f]) : i # m => files'[f][i] = files[f][i]
        /\ files'[f][m] = <<>>
    <3>1. PICK none : none = <<>>
      OBVIOUS
    <3>2. none \in Seq(Lines) /\ files' = Write(f, none)
      BY <1>4, <2>1, <3>1
    <3> QED
      BY <1>1, <3>1, <3>2, WriteFacts DEF LogsTyped
  <2>3. \A g \in Feeds : Len(files[g]) \in Nat
    BY DEF LogsTyped
  <2>4. ASSUME NEW g \in Feeds, NEW i \in Nat, NEW j \in Nat, At(g, i, j)'
        PROVE  At(g, i, j) /\ files'[g][i] = files[g][i]
    <3>1. i \in 1..Len(files[g]) /\ j \in 1..Len(files'[g][i])
      BY <2>2, <2>4 DEF At
    <3>2. g # f \/ i # m
      BY <2>1, <2>2, <3>1
    <3>3. files'[g][i] = files[g][i]
      BY <2>2, <3>1, <3>2
    <3> QED
      BY <3>1, <3>3 DEF At
  <2>5. \A g \in Feeds : Len(files'[g]) >= Len(files[g])
    BY <2>2, <2>3
  <2> QED
    BY <2>2, <2>4, <2>5
<1> QED
  BY <1>3, <1>4 DEF Replaces

LEMMA LoggingTyped ==
  ASSUME Typed, Invited, Logging
  PROVE  Typed'
<1>0. LogsTyped /\ Len(lines) \in Nat /\ \A g \in Feeds : Len(files[g]) \in Nat
  BY DEF Typed, LogsTyped
<1>1. PICK f \in Feeds : Writes(f) \/ Replaces(f)
  BY LoggingKinds
<1>2. LogsTyped' /\ \A g \in Feeds : Len(files'[g]) >= Len(files[g]) /\ Len(files'[g]) \in Nat
  <2>1. CASE Writes(f)
    <3>1. PICK l \in Lines, r \in Logged :
             /\ l = Len(lines) + 1 /\ lines' = Append(lines, r)
             /\ files' = Write(f, Append(Current(f), l))
      BY <2>1 DEF Writes
    <3>2. lines' \in Seq(Logged) /\ Len(lines') = Len(lines) + 1
      BY <1>0, <3>1 DEF LogsTyped
    <3>3. Len(lines') <= MaxLines
      BY <3>1, <3>2 DEF Lines
    <3>4. files' \in [Feeds -> Seq(Seq(Lines))] /\ \A g \in Feeds : Len(files'[g]) = Len(files[g])
      BY <1>0, <3>1, Appended
    <3> QED
      BY <1>0, <3>2, <3>3, <3>4 DEF LogsTyped
  <2>3. CASE Replaces(f)
    <3>1. files' \in [Feeds -> Seq(Seq(Lines))] /\ \A g \in Feeds : Len(files'[g]) >= Len(files[g])
      BY <1>0, <2>3, Replaced
    <3>2. \A g \in Feeds : Len(files'[g]) \in Nat
      BY <3>1
    <3>3. lines' = lines
      BY <2>3 DEF Replaces
    <3> QED
      BY <1>0, <3>1, <3>2, <3>3 DEF LogsTyped
  <2> QED
    BY <1>1, <2>1, <2>3
<1>3. FwdTyped'
  <2>1. fwd' = fwd
    BY DEF Logging
  <2>2. ASSUME NEW g \in Feeds
        PROVE  fwd[g].file \in 1..Len(files'[g])
    BY <1>0, <1>2 DEF Typed, FwdTyped
  <2> QED
    BY <2>1, <2>2 DEF Typed, FwdTyped
<1>4. HandlersTyped' /\ StoresTyped' /\ NetworkTyped'
  BY DEF Typed, Logging, HandlersTyped, StoresTyped, NetworkTyped
<1> QED
  BY <1>2, <1>3, <1>4 DEF Typed

\* Writing to the end of the current file, or replacing it, puts nothing old ahead
\* of a forwarder.
LEMMA LoggingBehind ==
  ASSUME Typed, Logging, NEW f \in Feeds, Writes(f) \/ Replaces(f),
         NEW g \in Feeds, NEW i \in Nat, NEW j \in Nat, At(g, i, j), At(g, i, j)', Ahead(g, i, j)'
  PROVE  Ahead(g, i, j)
<1>0. LogsTyped /\ fwd' = fwd
  BY DEF Typed, Logging
<1>1. PICK w : w = fwd[g]
  OBVIOUS
<1>2. w.pos \in Nat
  BY <1>1 DEF Typed, FwdTyped, Forwarder
<1>3. \/ i > w.file
      \/ i = w.file /\ j > w.pos
      \/ i = w.file /\ i = Len(files'[g]) /\ w.pos > Len(files'[g][i])
  BY <1>0, <1>1 DEF Ahead
<1>4. CASE i = w.file /\ i = Len(files'[g]) /\ w.pos > Len(files'[g][i])
  <2>1. CASE Writes(f)
    <3>1. PICK l \in Lines : files' = Write(f, Append(Current(f), l))
      BY <2>1 DEF Writes
    <3>2. Len(files'[g]) = Len(files[g]) /\ Len(files'[g][i]) >= Len(files[g][i])
      BY <1>0, <3>1, Appended DEF At
    <3>3. files[g][i] \in Seq(Lines)
      BY <1>0 DEF At, LogsTyped
    <3>4. Len(files[g][i]) \in Nat /\ Len(files'[g][i]) \in Nat
      <4>1. files' \in [Feeds -> Seq(Seq(Lines))]
        BY <1>0, <3>1, Appended
      <4>2. files'[g][i] \in Seq(Lines)
        BY <4>1 DEF At
      <4> QED
        BY <3>3, <4>2
    <3>5. w.pos > Len(files[g][i])
      BY <1>2, <1>4, <3>2, <3>4
    <3> QED
      BY <1>1, <1>4, <3>2, <3>5 DEF Ahead
  <2>2. CASE Replaces(f)
    <3>1. files'[g][i] = files[g][i] /\ Len(files'[g]) = Len(files[g])
      BY <1>0, <1>4, <2>2, Replaced
    <3> QED
      BY <1>1, <1>4, <3>1 DEF Ahead
  <2> QED
    BY <2>1, <2>2
<1> QED
  BY <1>1, <1>3, <1>4 DEF Ahead

LEMMA LoggingLedger ==
  ASSUME Typed, Invited, Ledger, Logging
  PROVE  Ledger'
<1>0. /\ LogsTyped /\ fwd' = fwd /\ handler' = handler /\ Len(lines) \in Nat
      /\ Known /\ Waiting /\ Begun /\ Once /\ Unposted
  BY DEF Typed, Logging, Ledger, LogsTyped
<1>1. PICK f \in Feeds : Writes(f) \/ Replaces(f)
  BY LoggingKinds
<1>3. Len(lines') >= Len(lines) /\ Len(lines') \in Nat
  <2>1. CASE Writes(f)
    <3>1. PICK r \in Logged : lines' = Append(lines, r)
      BY <2>1 DEF Writes
    <3> QED
      BY <1>0, <3>1 DEF LogsTyped
  <2> QED
    BY <1>0, <1>1, <2>1 DEF Replaces
\* Every piece of the new files is an old one, or the new one.
<1>4. ASSUME NEW g \in Feeds, NEW i \in Nat, NEW j \in Nat, At(g, i, j)'
      PROVE  \/ /\ At(g, i, j) /\ files'[g][i][j] = files[g][i][j]
                /\ files'[g][i][j] \in 1..Len(lines)
             \/ /\ files'[g][i][j] = Len(lines) + 1 /\ Len(lines') = Len(lines) + 1
                /\ g = f /\ i = Len(files[f]) /\ j = Len(files[f][i]) + 1
                /\ Len(lines) + 1 \in Lines
  <2>1. CASE Writes(f)
    <3>1. PICK l \in Lines, r \in Logged :
             /\ l = Len(lines) + 1 /\ lines' = Append(lines, r)
             /\ files' = Write(f, Append(Current(f), l))
      BY <2>1 DEF Writes
    <3>2. Len(lines') = Len(lines) + 1
      BY <1>0, <3>1 DEF LogsTyped
    <3>3. \/ At(g, i, j) /\ files'[g][i][j] = files[g][i][j]
          \/ /\ g = f /\ i = Len(files[f]) /\ j = Len(files[f][i]) + 1
             /\ files'[g][i][j] = l
      BY <1>0, <1>4, <3>1, Appended
    <3> QED
      BY <1>0, <3>1, <3>2, <3>3 DEF Known
  <2>3. CASE Replaces(f)
    BY <1>0, <1>4, <2>3, Replaced DEF Known
  <2> QED
    BY <1>1, <2>1, <2>3
<1>5. Known'
  <2>1. ASSUME NEW g \in Feeds, NEW i \in Nat, NEW j \in Nat, At(g, i, j)'
        PROVE  files'[g][i][j] \in 1..Len(lines')
    <3>1. \/ files'[g][i][j] \in 1..Len(lines)
          \/ files'[g][i][j] = Len(lines) + 1 /\ Len(lines') = Len(lines) + 1
      BY <1>4, <2>1
    <3> QED
      BY <1>0, <1>3, <3>1
  <2> QED
    BY <2>1 DEF Known
<1>6. Waiting' /\ Begun'
  BY <1>0, <1>3 DEF Waiting, Begun
<1>7. Once'
  <2>2. ASSUME NEW g \in Feeds, NEW i \in Nat, NEW j \in Nat,
               NEW h \in Feeds, NEW k \in Nat, NEW n \in Nat,
               At(g, i, j)', At(h, k, n)', files'[g][i][j] = files'[h][k][n]
        PROVE  g = h /\ i = k /\ j = n
    <3>1. Len(lines) + 1 \notin 1..Len(lines)
      BY <1>0
    <3>2. CASE files'[g][i][j] \in 1..Len(lines)
      <4>1. /\ At(g, i, j) /\ files'[g][i][j] = files[g][i][j]
            /\ At(h, k, n) /\ files'[h][k][n] = files[h][k][n]
        BY <1>4, <2>2, <3>1, <3>2
      <4>2. files[g][i][j] = files[h][k][n]
        BY <2>2, <4>1
      <4>3. Once
        BY <1>0
      <4> QED
        BY <4>1, <4>2, <4>3 DEF Once
    <3>3. CASE files'[g][i][j] \notin 1..Len(lines)
      BY <1>4, <2>2, <3>3, SMTT(30)
    <3> QED
      BY <3>2, <3>3
  <2> QED
    BY <2>2 DEF Once
<1>8. Unposted'
  <2>1. ASSUME NEW g \in Feeds, NEW i \in Nat, NEW j \in Nat,
               At(g, i, j)', fwd[g].phase # "down", Ahead(g, i, j)'
        PROVE  handler[files'[g][i][j]].pc = "none"
    <3>2. CASE At(g, i, j) /\ files'[g][i][j] = files[g][i][j]
      <4>1. Ahead(g, i, j)
        BY <1>1, <2>1, <3>2, LoggingBehind
      <4> QED
        BY <1>0, <2>1, <3>2, <4>1 DEF Unposted
    <3>3. CASE files'[g][i][j] = Len(lines) + 1 /\ Len(lines) + 1 \in Lines
      <4>1. Len(lines) + 1 \notin 1..Len(lines)
        BY <1>0
      <4> QED
        BY <1>0, <3>3, <4>1 DEF Begun
    <3> QED
      BY <1>4, <2>1, <3>2, <3>3
  <2> QED
    BY <1>0, <2>1 DEF Unposted
<1> QED
  BY <1>5, <1>6, <1>7, <1>8 DEF Ledger

-------------------------------------------------------------------------------
(* The forwarders.                                                           *)

\* What is ahead of a forwarder in state r.
AheadOf(r, f, i, j) ==
  \/ i > r.file
  \/ i = r.file /\ j > r.pos
  \/ i = r.file /\ i = Len(files[f]) /\ r.pos > Len(files[f][i])

\* A forwarder is set to r, with nothing ahead that was not, and no request.
Sets(f, r) ==
  /\ r \in Forwarder /\ r.file \in 1..Len(files[f]) /\ r.phase # "wait"
  /\ fwd' = [fwd EXCEPT ![f] = r]
  /\ \A i, j \in Nat : At(f, i, j) /\ r.phase # "down" /\ AheadOf(r, f, i, j)
       => fwd[f].phase # "down" /\ Ahead(f, i, j)

LEMMA TendingKinds ==
  ASSUME FromStart = FALSE, Typed, NEW f \in Feeds,
         Refresh(f) \/ Answered(f) \/ Dies(f) \/ Restart(f)
  PROVE  \E r : Sets(f, r)
<1>0. LogsTyped /\ FwdTyped
  BY DEF Typed
<1>1. PICK w : w = fwd[f]
  OBVIOUS
<1>2. PICK m : m = Len(files[f])
  OBVIOUS
<1>3. w.pos \in Nat /\ w.file \in Nat
  BY <1>0, <1>1 DEF FwdTyped, Forwarder
<1>4. m \in Nat
  BY <1>0, <1>2 DEF LogsTyped
<1>5. w.file \in 1..Len(files[f]) /\ m \in 1..Len(files[f])
  BY <1>0, <1>1, <1>2, CurrentTyped DEF FwdTyped
<1>6. PICK n : n = Len(Current(f)) /\ n \in Nat
  BY <1>0, CurrentTyped
<1>7. Current(f) = files[f][m]
  BY <1>2 DEF Current
<1>8. CASE Refresh(f) /\ (w.file # m \/ n < w.pos)
  <2>1. PICK r : r = Tailing("read", m, 0, 0)
    OBVIOUS
  <2>2. r \in Forwarder /\ r.phase = "read" /\ r.file = m /\ r.pos = 0
    BY <1>4, <2>1, TailTyped
  <2>3. fwd' = [fwd EXCEPT ![f] = r] /\ w.phase = "poll"
    BY <1>1, <1>2, <1>6, <1>8, <2>1 DEF Refresh, RefreshAs, Another, Shorter, Go
  <2>4. ASSUME NEW i \in Nat, NEW j \in Nat, At(f, i, j), AheadOf(r, f, i, j)
        PROVE  Ahead(f, i, j)
    <3>1. i \in 1..m /\ j >= 1
      BY <1>2, <2>4 DEF At
    <3>2. i = m
      BY <1>2, <1>4, <2>2, <2>4, <3>1 DEF AheadOf
    <3>3. i > w.file \/ (i = w.file /\ w.pos > n)
      BY <1>2, <1>3, <1>4, <1>5, <1>6, <1>8, <3>2
    <3> QED
      BY <1>1, <1>2, <1>6, <1>7, <3>2, <3>3 DEF Ahead
  <2> QED
    BY <1>1, <1>5, <2>2, <2>3, <2>4 DEF Sets
<1>9. ASSUME w.phase # "down", NEW phase \in {"poll", "read"},
             fwd' = [fwd EXCEPT ![f] = Tailing(phase, w.file, w.pos, 0)]
      PROVE  \E r : Sets(f, r)
  <2>1. PICK r : r = Tailing(phase, w.file, w.pos, 0)
    OBVIOUS
  <2>2. r \in Forwarder /\ r.phase = phase /\ r.file = w.file /\ r.pos = w.pos
    BY <1>3, <2>1, TailTyped
  <2>3. \A i, j \in Nat : AheadOf(r, f, i, j) => Ahead(f, i, j)
    BY <1>1, <2>2 DEF AheadOf, Ahead
  <2>4. r.phase # "wait"
    BY <2>2
  <2> QED
    BY <1>1, <1>5, <1>9, <2>1, <2>2, <2>3, <2>4 DEF Sets
<1>10. CASE Refresh(f) /\ ~(w.file # m \/ n < w.pos)
  <2>1. fwd' = [fwd EXCEPT ![f] = Tailing("read", w.file, w.pos, 0)] /\ w.phase = "poll"
    BY <1>1, <1>2, <1>6, <1>10 DEF Refresh, RefreshAs, Another, Shorter, Go
  <2> QED
    BY <1>9, <2>1
<1>11. CASE Answered(f)
  <2>1. fwd' = [fwd EXCEPT ![f] = Tailing("poll", w.file, w.pos, 0)] /\ w.phase = "wait"
    BY <1>1, <1>11 DEF Answered, Go
  <2> QED
    BY <1>9, <2>1
<1>12. CASE Dies(f)
  <2>1. Down \in Forwarder /\ Down.phase = "down" /\ Down.file = 1
    BY TailTyped DEF Down
  <2>2. fwd' = [fwd EXCEPT ![f] = Down]
    BY <1>12 DEF Dies, Go
  <2>3. 1 \in 1..Len(files[f])
    BY <1>2, <1>4, <1>5
  <2> QED
    BY <2>1, <2>2, <2>3 DEF Sets
<1>13. CASE Restart(f)
  <2>1. PICK r : r = Tailing("poll", m, n, 0)
    OBVIOUS
  <2>2. r \in Forwarder /\ r.phase = "poll" /\ r.file = m /\ r.pos = n
    BY <1>4, <1>6, <2>1, TailTyped
  <2>3. fwd' = [fwd EXCEPT ![f] = r]
    BY <1>2, <1>6, <1>13, <2>1 DEF Restart, Go
  <2>4. ASSUME NEW i \in Nat, NEW j \in Nat, At(f, i, j), AheadOf(r, f, i, j)
        PROVE  FALSE
    <3>1. i \in 1..m
      BY <1>2, <2>4 DEF At
    <3>2. i = m
      BY <1>4, <2>2, <2>4, <3>1 DEF AheadOf
    <3>3. j \in 1..n
      BY <1>6, <1>7, <2>4, <3>2 DEF At
    <3> QED
      BY <1>4, <1>6, <1>7, <2>2, <2>4, <3>2, <3>3 DEF AheadOf
  <2> QED
    BY <1>5, <2>2, <2>3, <2>4 DEF Sets
<1> QED
  BY <1>8, <1>10, <1>11, <1>12, <1>13

LEMMA SameOnce ==
  ASSUME Once, files' = files
  PROVE  Once'
<1>1. ASSUME NEW f \in Feeds, NEW i \in Nat, NEW j \in Nat
      PROVE  At(f, i, j)' <=> At(f, i, j)
  BY DEF At
<1>2. ASSUME NEW f \in Feeds, NEW i \in Nat, NEW j \in Nat,
             NEW g \in Feeds, NEW h \in Nat, NEW k \in Nat,
             At(f, i, j)', At(g, h, k)', files'[f][i][j] = files'[g][h][k]
      PROVE  f = g /\ i = h /\ j = k
  <2>1. At(f, i, j) /\ At(g, h, k) /\ files[f][i][j] = files[g][h][k]
    BY <1>1, <1>2
  <2> QED
    BY <2>1 DEF Once
<1> QED
  BY <1>2 DEF Once

LEMMA TendingKeeps ==
  ASSUME FromStart = FALSE, Typed, Ledger, Tending
  PROVE  Typed' /\ Ledger'
<1>0. /\ lines' = lines /\ files' = files /\ handler' = handler
      /\ Known /\ Waiting /\ Begun /\ Once /\ Unposted
  BY DEF Tending, Ledger
<1>1. PICK f, r : f \in Feeds /\ Sets(f, r)
  <2>1. PICK f \in Feeds : Refresh(f) \/ Answered(f) \/ Dies(f) \/ Restart(f)
    BY DEF Tending
  <2> QED
    BY <2>1, TendingKinds
<1>2. fwd'[f] = r /\ \A g \in Feeds : g # f => fwd'[g] = fwd[g]
  BY <1>1 DEF Sets, Typed, FwdTyped
<1>3. Typed'
  <2>1. fwd' \in [Feeds -> Forwarder]
    BY <1>1 DEF Sets, Typed, FwdTyped
  <2>2. FwdTyped'
    BY <1>0, <1>1, <1>2, <2>1 DEF Sets, Typed, FwdTyped
  <2> QED
    BY <1>0, <2>2 DEF Typed, LogsTyped, HandlersTyped, StoresTyped, NetworkTyped, Tending, network
<1>4. Known' /\ Begun' /\ Once'
  <2>1. Known' /\ Begun'
    BY <1>0 DEF Known, Begun, At
  <2>2. Once'
    BY <1>0, SameOnce
  <2> QED
    BY <2>1, <2>2
<1>5. Waiting'
  BY <1>0, <1>1, <1>2 DEF Waiting, Sets
<1>6. ASSUME NEW g \in Feeds, NEW i \in Nat, NEW j \in Nat,
             At(g, i, j), fwd'[g].phase # "down", Ahead(g, i, j)'
      PROVE  handler[files[g][i][j]].pc = "none"
  <2>1. CASE g # f
    <3>1. fwd'[g] = fwd[g]
      BY <1>2, <2>1
    <3>2. Ahead(g, i, j)
      BY <1>0, <1>6, <3>1 DEF Ahead
    <3> QED
      BY <1>0, <1>6, <3>1, <3>2 DEF Unposted
  <2>2. CASE g = f
    <3>1. AheadOf(r, f, i, j)
      BY <1>0, <1>2, <1>6, <2>2 DEF Ahead, AheadOf
    <3>2. fwd[f].phase # "down" /\ Ahead(f, i, j)
      BY <1>1, <1>2, <1>6, <2>2, <3>1 DEF Sets, At
    <3> QED
      BY <1>0, <1>6, <2>2, <3>2 DEF Unposted
  <2> QED
    BY <2>1, <2>2
<1>7. Unposted'
  BY <1>0, <1>6 DEF Unposted, At
<1> QED
  BY <1>3, <1>4, <1>5, <1>7 DEF Ledger

\* What reading posts was not posted before.
Posts(l) ==
  /\ l \in Lines /\ l \in 1..Len(lines) /\ handler[l].pc = "none"
  /\ Readable(l) /\ Attributed(l) \in Keys
  /\ handler' = [handler EXCEPT ![l] = Posted(Attributed(l))]

LEMMA ReadingKeeps ==
  ASSUME Typed, Ledger, Reading
  PROVE  /\ Typed' /\ Ledger'
         /\ handler' = handler \/ \E l \in Lines : Posts(l)
<1>0. /\ lines' = lines /\ files' = files
      /\ Known /\ Waiting /\ Begun /\ Once /\ Unposted
      /\ LogsTyped /\ FwdTyped /\ HandlersTyped
  BY DEF Reading, Ledger, Typed
<1>1. PICK f \in Feeds : Read(f)
  BY DEF Reading
<1>2. PICK r : Moves(f, r) /\ r.phase # "down" /\ fwd[f].phase # "down"
               /\ \/ r.phase = "poll" /\ handler' = handler
                  \/ \E l \in Lines :
                       /\ r.phase = "wait" /\ r.line = l /\ l \in 1..Len(lines)
                       /\ r.pos > fwd[f].pos /\ r.pos <= Len(files[f][r.file])
                       /\ At(f, fwd[f].file, fwd[f].pos + 1)
                       /\ files[f][fwd[f].file][fwd[f].pos + 1] = l
                       /\ Readable(l) /\ Attributed(l) # Nobody
                       /\ handler' = [handler EXCEPT ![l] = Posted(Attributed(l))]
  <2>1. fwd[f].phase # "down"
    BY <1>1 DEF Read
  <2>2. fwd[f].pos \in Nat
    BY <1>0 DEF FwdTyped, Forwarder
  <2>3. CASE \E r : Moves(f, r) /\ r.phase = "poll" /\ handler' = handler
    BY <2>1, <2>3
  <2>4. CASE \E r, l : /\ Moves(f, r) /\ r.phase = "wait" /\ r.line = l
                       /\ l \in 1..Len(lines) /\ l \in Lines
                       /\ r.pos > fwd[f].pos
                       /\ At(f, fwd[f].file, fwd[f].pos + 1)
                       /\ files[f][fwd[f].file][fwd[f].pos + 1] = l
                       /\ Readable(l) /\ Attributed(l) # Nobody
                       /\ handler' = [handler EXCEPT ![l] = Posted(Attributed(l))]
    <3>1. PICK r, l : /\ Moves(f, r) /\ r.phase = "wait" /\ r.line = l
                      /\ l \in 1..Len(lines) /\ l \in Lines
                      /\ r.pos > fwd[f].pos
                      /\ At(f, fwd[f].file, fwd[f].pos + 1)
                      /\ files[f][fwd[f].file][fwd[f].pos + 1] = l
                      /\ Readable(l) /\ Attributed(l) # Nobody
                      /\ handler' = [handler EXCEPT ![l] = Posted(Attributed(l))]
      BY <2>4
    <3>2. r.pos <= Len(files[f][r.file])
      BY <2>2, <3>1 DEF Moves
    <3>3. r.phase # "down"
      BY <3>1
    <3> QED
      BY <2>1, <3>1, <3>2, <3>3
  <2> QED
    BY <1>0, <1>1, <2>3, <2>4, ReadFacts
<1>3. PICK w : w = fwd[f]
  OBVIOUS
<1>4. w.pos \in Nat /\ w.file \in Nat /\ w.file \in 1..Len(files[f])
  BY <1>0, <1>3 DEF FwdTyped, Forwarder
<1>5. /\ fwd'[f] = r /\ r \in Forwarder /\ r.file = w.file /\ r.pos >= w.pos
      /\ r.pos = w.pos \/ r.pos <= Len(files[f][w.file])
      /\ \A g \in Feeds : g # f => fwd'[g] = fwd[g]
      /\ fwd' \in [Feeds -> Forwarder]
  BY <1>0, <1>2, <1>3 DEF Moves, FwdTyped
<1>6. r.pos \in Nat
  BY <1>5 DEF Forwarder
<1>7. ASSUME NEW i \in Nat, NEW j \in Nat, At(f, i, j), AheadOf(r, f, i, j)
      PROVE  Ahead(f, i, j)
  <2>1. CASE i > r.file
    BY <1>3, <1>5, <2>1 DEF Ahead
  <2>2. CASE i = r.file /\ j > r.pos
    <3>1. j > w.pos
      BY <1>4, <1>5, <1>6, <2>2
    <3> QED
      BY <1>3, <1>5, <2>2, <3>1 DEF Ahead
  <2>3. CASE i = r.file /\ i = Len(files[f]) /\ r.pos > Len(files[f][i])
    <3>1. Len(files[f][i]) \in Nat
      <4>1. files[f][i] \in Seq(Lines)
        BY <1>0, <1>7 DEF At, LogsTyped
      <4> QED
        BY <4>1
    <3>2. r.pos = w.pos
      BY <1>5, <1>6, <2>3, <3>1
    <3> QED
      BY <1>3, <1>5, <2>3, <3>2 DEF Ahead
  <2> QED
    BY <1>7, <2>1, <2>2, <2>3 DEF AheadOf
<1>8. FwdTyped' /\ LogsTyped' /\ StoresTyped' /\ NetworkTyped'
  <2>1. FwdTyped'
    BY <1>0, <1>3, <1>4, <1>5 DEF FwdTyped
  <2>2. LogsTyped' /\ StoresTyped' /\ NetworkTyped'
    BY DEF Typed, LogsTyped, StoresTyped, NetworkTyped, Reading, network
  <2> QED
    BY <2>1, <2>2
<1>9. Known' /\ Once'
  <2>1. Known'
    BY <1>0 DEF Known, At
  <2> QED
    BY <1>0, <2>1, SameOnce
<1>10. ASSUME NEW g \in Feeds, NEW i \in Nat, NEW j \in Nat,
              At(g, i, j), fwd'[g].phase # "down", Ahead(g, i, j)'
       PROVE  fwd[g].phase # "down" /\ Ahead(g, i, j)
  <2>1. CASE g # f
    BY <1>0, <1>5, <1>10, <2>1 DEF Ahead
  <2>2. CASE g = f
    <3>1. AheadOf(r, f, i, j)
      BY <1>0, <1>5, <1>10, <2>2 DEF Ahead, AheadOf
    <3> QED
      BY <1>2, <1>7, <1>10, <2>2, <3>1 DEF At
  <2> QED
    BY <2>1, <2>2
<1>11. CASE r.phase = "poll" /\ handler' = handler
  <2>1. Waiting' /\ Begun' /\ HandlersTyped'
    BY <1>0, <1>5, <1>11 DEF Waiting, Begun, HandlersTyped
  <2>2. Unposted'
    BY <1>0, <1>10, <1>11 DEF Unposted, At
  <2> QED
    BY <1>8, <1>9, <1>11, <2>1, <2>2 DEF Ledger, Typed
<1>12. ASSUME NEW l \in Lines,
              r.phase = "wait", r.line = l, l \in 1..Len(lines),
              r.pos > fwd[f].pos, r.pos <= Len(files[f][r.file]),
              At(f, fwd[f].file, fwd[f].pos + 1),
              files[f][fwd[f].file][fwd[f].pos + 1] = l,
              Readable(l), Attributed(l) # Nobody,
              handler' = [handler EXCEPT ![l] = Posted(Attributed(l))]
       PROVE  Posts(l) /\ Waiting' /\ Begun' /\ HandlersTyped' /\ Unposted'
  <2>1. At(f, w.file, w.pos + 1) /\ files[f][w.file][w.pos + 1] = l /\ r.pos > w.pos
    BY <1>3, <1>12
  <2>2. w.pos + 1 \in Nat /\ w.pos + 1 > w.pos
    BY <1>4
  <2>3. handler[l].pc = "none"
    <3>1. Ahead(f, w.file, w.pos + 1)
      BY <1>3, <2>2 DEF Ahead
    <3> QED
      BY <1>0, <1>2, <1>4, <2>1, <2>2, <3>1 DEF Unposted
  <2>5. Attributed(l) \in Keys
    <3>1. l \in DOMAIN lines
      BY <1>0, <1>12 DEF LogsTyped
    <3> QED
      BY <1>12, <3>1, AttributedTyped
  <2>4. Posts(l)
    BY <1>12, <2>3, <2>5 DEF Posts
  <2>6. Posted(Attributed(l)) \in Ingest
    BY <2>5 DEF Posted, Handler, Ingest, InFlight
  <2>7. HandlersTyped'
    BY <1>0, <1>12, <2>6 DEF HandlersTyped
  <2>8. Waiting'
    BY <1>0, <1>5, <1>12 DEF Waiting
  <2>9. \A o \in Lines : o # l => handler'[o] = handler[o]
    BY <1>0, <1>12 DEF HandlersTyped
  <2>10. Begun'
    BY <1>0, <1>12, <2>9 DEF Begun
  <2>11. ASSUME NEW g \in Feeds, NEW i \in Nat, NEW j \in Nat,
                At(g, i, j), fwd'[g].phase # "down", Ahead(g, i, j)'
         PROVE  handler'[files[g][i][j]].pc = "none"
    <3>1. fwd[g].phase # "down" /\ Ahead(g, i, j)
      BY <1>10, <2>11
    <3>2. handler[files[g][i][j]].pc = "none"
      BY <1>0, <2>11, <3>1 DEF Unposted
    <3>3. files[g][i][j] \in Lines
      <4>1. files[g][i] \in Seq(Lines) /\ j \in 1..Len(files[g][i])
        BY <1>0, <2>11 DEF At, LogsTyped
      <4> QED
        BY <4>1, PieceAt
    \* The piece that is posted is nowhere else, and is behind the forwarder now.
    <3>4. ASSUME files[g][i][j] = l
          PROVE  FALSE
      <4>1. g = f /\ i = w.file /\ j = w.pos + 1
        <5>1. PICK h, k : h = w.file /\ k = w.pos + 1
          OBVIOUS
        <5>2. h \in Nat /\ k \in Nat /\ At(f, h, k) /\ files[f][h][k] = l
          BY <1>4, <2>1, <2>2, <5>1
        <5>3. g = f /\ i = h /\ j = k
          BY <1>0, <2>11, <3>4, <5>2 DEF Once
        <5> QED
          BY <5>1, <5>3
      <4>2. fwd'[f].file = w.file /\ fwd'[f].pos = r.pos /\ files' = files
        BY <1>0, <1>5
      <4>3. r.pos <= Len(files[f][w.file]) /\ Len(files[f][w.file]) \in Nat
        <5>1. files[f][w.file] \in Seq(Lines)
          BY <1>0, <1>4 DEF LogsTyped
        <5> QED
          BY <1>5, <1>12, <5>1
      <4>4. ~(w.file > w.file) /\ ~(w.pos + 1 > r.pos) /\ ~(r.pos > Len(files[f][w.file]))
        BY <1>4, <1>6, <2>1, <4>3
      <4> QED
        BY <2>11, <4>1, <4>2, <4>4 DEF Ahead
    <3> QED
      BY <2>9, <3>2, <3>3, <3>4
  <2>12. Unposted'
    BY <1>0, <2>11 DEF Unposted, At
  <2> QED
    BY <2>4, <2>7, <2>8, <2>10, <2>12
<1>13. CASE \E l \in Lines :
              /\ r.phase = "wait" /\ r.line = l /\ l \in 1..Len(lines)
              /\ r.pos > fwd[f].pos /\ r.pos <= Len(files[f][r.file])
              /\ At(f, fwd[f].file, fwd[f].pos + 1)
              /\ files[f][fwd[f].file][fwd[f].pos + 1] = l
              /\ Readable(l) /\ Attributed(l) # Nobody
              /\ handler' = [handler EXCEPT ![l] = Posted(Attributed(l))]
  BY <1>8, <1>9, <1>12, <1>13 DEF Ledger, Typed
<1> QED
  BY <1>2, <1>11, <1>13

-------------------------------------------------------------------------------
(* The handlers.                                                             *)

LEMMA HandlerTyped ==
  ASSUME NEW pc \in InFlight \cup {"none", "done", "failed"}, NEW key \in Keys, NEW n \in Nat,
         NEW alone \in BOOLEAN
  PROVE  LET h == Handler(pc, key, n, alone)
         IN h \in Ingest /\ h.pc = pc /\ h.key = key /\ h.n = n /\ h.alone = alone
BY DEF Handler, Ingest

LEMMA PhaseTyped ==
  ASSUME NEW h \in Ingest, NEW pc \in InFlight \cup {"none", "done", "failed"}
  PROVE  LET r == [h EXCEPT !.pc = pc]
         IN r \in Ingest /\ r.pc = pc /\ r.key = h.key /\ r.n = h.n /\ r.alone = h.alone
BY DEF Ingest

\* One handler goes on to r; those in cleared learn that they are not alone.
Goes(l, r, cleared) ==
  /\ handler[l].pc \in InFlight
  /\ r \in Ingest /\ r.pc \in InFlight \cup {"done", "failed"} /\ r.pc # "posted"
  /\ r.key = handler[l].key
  /\ handler' \in [Lines -> Ingest]
  /\ handler'[l] = r
  /\ \A o \in Lines \ {l} : handler'[o] =
       IF o \in cleared THEN [handler[o] EXCEPT !.alone = FALSE] ELSE handler[o]

LEMMA StepGoes ==
  ASSUME HandlersTyped, NEW l \in Lines, NEW r \in Ingest, Step(l, r),
         handler[l].pc \in InFlight, r.pc \in {"read", "profiled", "done", "failed"},
         r.key = handler[l].key
  PROVE  Goes(l, r, {})
<1>1. /\ handler' \in [Lines -> Ingest] /\ handler'[l] = r
      /\ \A o \in Lines \ {l} : handler'[o] = handler[o]
  BY DEF HandlersTyped, Step
<1> QED
  BY <1>1 DEF Goes, InFlight

LEMMA AddGoes ==
  ASSUME Typed, NEW l \in Lines, AddEvidence(l)
  PROVE  LET k == handler[l].key
             others == Others(l, Ingesting)
         IN /\ handler[l].pc = "posted" /\ k \in Keys
            /\ Goes(l, Handler("added", k, 0, others = {}), others)
            /\ evidence' = [evidence EXCEPT ![k] = Append(@, l)]
            /\ UNCHANGED <<profile, observed, excused, fwd>>
<1>0. handler \in [Lines -> Ingest]
  BY DEF Typed, HandlersTyped
<1>1. PICK k, others : k = handler[l].key /\ others = Others(l, Ingesting)
  OBVIOUS
<1>2. k \in Keys
  BY <1>0, <1>1 DEF Ingest
<1>3. PICK r : r = Handler("added", k, 0, others = {})
  OBVIOUS
<1>4. r \in Ingest /\ r.pc = "added" /\ r.key = k
  <2>1. PICK b : b = (others = {}) /\ b \in BOOLEAN
    OBVIOUS
  <2>3. r = Handler("added", k, 0, b)
    BY <1>3, <2>1
  <2>4. b \in BOOLEAN
    BY <2>1
  <2>2. "added" \in InFlight \cup {"none", "done", "failed"} /\ 0 \in Nat
    BY DEF InFlight
  <2> QED
    BY <1>2, <2>2, <2>3, <2>4, HandlerTyped
<1>5. handler[l].pc = "posted" /\ handler' = [o \in Lines |->
          CASE o = l -> r
            [] o \in others -> [handler[o] EXCEPT !.alone = FALSE]
            [] OTHER -> handler[o]]
  BY <1>1, <1>3 DEF AddEvidence
<1>6. \A o \in Lines : [handler[o] EXCEPT !.alone = FALSE] \in Ingest
  <2>1. ASSUME NEW o \in Lines
        PROVE  [handler[o] EXCEPT !.alone = FALSE] \in Ingest
    <3>1. PICK h : h = handler[o]
      OBVIOUS
    <3>2. h \in Ingest
      BY <1>0, <3>1
    <3>3. [h EXCEPT !.alone = FALSE] \in Ingest
      BY <3>2 DEF Ingest
    <3> QED
      BY <3>1, <3>3
  <2> QED
    BY <2>1
<1>7. l \notin others
  BY <1>1 DEF Others
<1>8. handler'[l] = r /\ \A o \in Lines \ {l} : handler'[o] =
         IF o \in others THEN [handler[o] EXCEPT !.alone = FALSE] ELSE handler[o]
  BY <1>5, <1>7
<1>9. handler' \in [Lines -> Ingest]
  <2>1. \A o \in Lines : handler'[o] \in Ingest
    BY <1>0, <1>4, <1>6, <1>8
  <2> QED
    BY <1>5, <2>1
<1>10. Goes(l, r, others)
  BY <1>1, <1>4, <1>5, <1>8, <1>9 DEF Goes, InFlight
<1>11. evidence' = [evidence EXCEPT ![k] = Append(@, l)] /\ UNCHANGED <<profile, observed, excused, fwd>>
  BY <1>1 DEF AddEvidence
<1> QED
  BY <1>1, <1>2, <1>3, <1>5, <1>10, <1>11

LEMMA ReadEvidenceGoes ==
  ASSUME Typed, NEW l \in Lines, ReadEvidence(l)
  PROVE  \E r : /\ handler[l].pc = "added" /\ Goes(l, r, {}) /\ r.pc = "read"
                /\ r.n = Len(evidence[handler[l].key]) /\ r.alone = handler[l].alone
                /\ UNCHANGED <<evidence, profile, observed, excused, fwd>>
<1>0. HandlersTyped /\ StoresTyped
  BY DEF Typed
<1>1. PICK h : h = handler[l]
  OBVIOUS
<1>2. h \in Ingest
  BY <1>0, <1>1 DEF HandlersTyped
<1>3. h.key \in Keys /\ h.alone \in BOOLEAN
  BY <1>2 DEF Ingest
<1>4. PICK n : n = Len(evidence[h.key])
  OBVIOUS
<1>5. n \in Nat
  BY <1>0, <1>3, <1>4 DEF StoresTyped
<1>6. PICK r : r = Handler("read", h.key, n, h.alone)
  OBVIOUS
<1>7. r \in Ingest /\ r.pc = "read" /\ r.key = h.key /\ r.n = n /\ r.alone = h.alone
  BY <1>3, <1>5, <1>6 DEF Handler, Ingest, InFlight
<1>8. /\ h.pc = "added" /\ Step(l, r)
      /\ UNCHANGED <<evidence, profile, observed, excused, fwd>>
  BY <1>1, <1>4, <1>6 DEF ReadEvidence, stores
<1>9. Goes(l, r, {})
  BY <1>0, <1>1, <1>7, <1>8, StepGoes DEF InFlight
<1> QED
  BY <1>1, <1>4, <1>7, <1>8, <1>9

LEMMA UpsertGoes ==
  ASSUME Typed, NEW l \in Lines, UpsertProfile(l)
  PROVE  LET h == handler[l]
         IN \E r : /\ h.pc = "read" /\ Goes(l, r, {}) /\ r.pc = "profiled"
                   /\ profile' = [profile EXCEPT ![h.key] = h.n]
                   /\ excused' = IF h.alone THEN excused \ {h.key} ELSE excused \cup {h.key}
                   /\ UNCHANGED <<evidence, observed, fwd>>
<1>0. HandlersTyped
  BY DEF Typed
<1>1. PICK h : h = handler[l]
  OBVIOUS
<1>2. h \in Ingest
  BY <1>0, <1>1 DEF HandlersTyped
<1>3. PICK r : r = [h EXCEPT !.pc = "profiled"]
  OBVIOUS
<1>4. r \in Ingest /\ r.pc = "profiled" /\ r.key = h.key
  BY <1>2, <1>3, PhaseTyped DEF InFlight
<1>5. /\ h.pc = "read" /\ Step(l, r)
      /\ profile' = [profile EXCEPT ![h.key] = h.n]
      /\ excused' = IF h.alone THEN excused \ {h.key} ELSE excused \cup {h.key}
      /\ UNCHANGED <<evidence, observed, fwd>>
  BY <1>1, <1>3 DEF UpsertProfile
<1>6. Goes(l, r, {})
  BY <1>0, <1>1, <1>4, <1>5, StepGoes DEF InFlight
<1> QED
  BY <1>1, <1>4, <1>5, <1>6

LEMMA ObservationGoes ==
  ASSUME Typed, NEW l \in Lines, AddObservation(l)
  PROVE  \E r : /\ handler[l].pc = "profiled" /\ Goes(l, r, {}) /\ r.pc = "done"
                /\ observed' = observed \cup {l}
                /\ UNCHANGED <<evidence, profile, excused, fwd>>
<1>0. HandlersTyped
  BY DEF Typed
<1>1. PICK h : h = handler[l]
  OBVIOUS
<1>2. h \in Ingest
  BY <1>0, <1>1 DEF HandlersTyped
<1>3. PICK r : r = [h EXCEPT !.pc = "done"]
  OBVIOUS
<1>4. r \in Ingest /\ r.pc = "done" /\ r.key = h.key
  BY <1>2, <1>3, PhaseTyped
<1>5. /\ h.pc = "profiled" /\ Step(l, r) /\ observed' = observed \cup {l}
      /\ UNCHANGED <<evidence, profile, excused, fwd>>
  BY <1>1, <1>3 DEF AddObservation
<1>6. Goes(l, r, {})
  BY <1>0, <1>1, <1>4, <1>5, StepGoes DEF InFlight
<1> QED
  BY <1>1, <1>4, <1>5, <1>6

LEMMA BreaksOffGoes ==
  ASSUME Typed, NEW l \in Lines, NEW crash \in BOOLEAN, BreaksOff(l, crash)
  PROVE  LET h == handler[l]
         IN \E r : /\ Goes(l, r, {}) /\ r.pc = "failed"
                   /\ excused' = IF h.pc \in Ingesting THEN excused \cup {h.key} ELSE excused
                   /\ UNCHANGED <<evidence, profile, observed>>
                   /\ fwd' = fwd \/ fwd' = [f \in Feeds |-> IF fwd[f].line = l THEN Down ELSE fwd[f]]
<1>0. HandlersTyped
  BY DEF Typed
<1>1. PICK h : h = handler[l]
  OBVIOUS
<1>2. h \in Ingest
  BY <1>0, <1>1 DEF HandlersTyped
<1>3. PICK r : r = [h EXCEPT !.pc = "failed"]
  OBVIOUS
<1>4. r \in Ingest /\ r.pc = "failed" /\ r.key = h.key
  BY <1>2, <1>3, PhaseTyped
<1>5. /\ h.pc \in InFlight /\ Step(l, r)
      /\ excused' = IF h.pc \in Ingesting THEN excused \cup {h.key} ELSE excused
      /\ UNCHANGED <<evidence, profile, observed>>
      /\ fwd' = fwd \/ fwd' = [f \in Feeds |-> IF fwd[f].line = l THEN Down ELSE fwd[f]]
  BY <1>1, <1>3 DEF BreaksOff
<1>6. Goes(l, r, {})
  BY <1>0, <1>1, <1>4, <1>5, StepGoes
<1> QED
  BY <1>1, <1>4, <1>5, <1>6

LEMMA HandlingKeeps ==
  ASSUME Typed, Ledger, Handling
  PROVE  Typed' /\ Ledger'
<1>0. /\ lines' = lines /\ files' = files
      /\ Known /\ Waiting /\ Begun /\ Once /\ Unposted
      /\ LogsTyped /\ FwdTyped /\ HandlersTyped /\ StoresTyped
  BY DEF Handling, Ledger, Typed
<1>1. PICK l \in Lines : Handle(l) \/ \E crash \in BOOLEAN : BreaksOff(l, crash)
  BY DEF Handling
<1>2. /\ \E r, cleared : Goes(l, r, cleared)
      /\ fwd' = fwd \/ fwd' = [f \in Feeds |-> IF fwd[f].line = l THEN Down ELSE fwd[f]]
      /\ StoresTyped'
  <2>1. CASE AddEvidence(l)
    <3>1. PICK k : k = handler[l].key
      OBVIOUS
    <3>2. k \in Keys /\ evidence' = [evidence EXCEPT ![k] = Append(@, l)] /\ profile' = profile
          /\ fwd' = fwd /\ \E r, cleared : Goes(l, r, cleared)
      BY <2>1, <3>1, AddGoes
    <3>3. Append(evidence[k], l) \in Seq(Lines)
      BY <1>0, <3>2 DEF StoresTyped
    <3>4. StoresTyped'
      BY <1>0, <3>2, <3>3 DEF StoresTyped
    <3> QED
      BY <3>2, <3>4
  <2>2. CASE ReadEvidence(l)
    BY <1>0, <2>2, ReadEvidenceGoes DEF StoresTyped
  <2>3. CASE UpsertProfile(l)
    <3>1. PICK h : h = handler[l]
      OBVIOUS
    <3>2. h.key \in Keys /\ h.n \in Nat
      BY <1>0, <3>1 DEF HandlersTyped, Ingest
    <3>3. profile' = [profile EXCEPT ![h.key] = h.n] /\ evidence' = evidence
      BY <2>3, <3>1, UpsertGoes
    <3>4. StoresTyped'
      BY <1>0, <3>2, <3>3 DEF StoresTyped
    <3> QED
      BY <2>3, <3>4, UpsertGoes
  <2>4. CASE AddObservation(l)
    BY <1>0, <2>4, ObservationGoes DEF StoresTyped
  <2>5. CASE \E crash \in BOOLEAN : BreaksOff(l, crash)
    <3>1. PICK crash \in BOOLEAN : BreaksOff(l, crash)
      BY <2>5
    <3>2. /\ \E r : Goes(l, r, {})
          /\ evidence' = evidence /\ profile' = profile
          /\ fwd' = fwd \/ fwd' = [f \in Feeds |-> IF fwd[f].line = l THEN Down ELSE fwd[f]]
      BY <3>1, BreaksOffGoes
    <3> QED
      BY <1>0, <3>2 DEF StoresTyped
  <2> QED
    BY <1>1, <2>1, <2>2, <2>3, <2>4, <2>5 DEF Handle
<1>3. /\ handler' \in [Lines -> Ingest]
      /\ \A o \in Lines : handler'[o].pc = "none" <=> handler[o].pc = "none"
  <2>1. PICK r, cleared : Goes(l, r, cleared)
    BY <1>2
  <2>2. handler[l].pc # "none" /\ handler'[l].pc # "none" /\ handler' \in [Lines -> Ingest]
    BY <2>1 DEF Goes, InFlight
  <2>3. ASSUME NEW o \in Lines \ {l}
        PROVE  handler'[o].pc = handler[o].pc
    <3>1. PICK h : h = handler[o]
      OBVIOUS
    <3>2. h \in Ingest
      BY <1>0, <3>1 DEF HandlersTyped
    <3>3. [h EXCEPT !.alone = FALSE].pc = h.pc
      BY <3>2 DEF Ingest
    <3>4. handler'[o] = [h EXCEPT !.alone = FALSE] \/ handler'[o] = h
      BY <2>1, <3>1 DEF Goes
    <3> QED
      BY <3>1, <3>3, <3>4
  <2> QED
    BY <2>2, <2>3
<1>4. /\ Down \in Forwarder /\ Down.phase = "down" /\ Down.file = 1
  BY TailTyped DEF Down
<1>5. \A f \in Feeds : fwd'[f] = fwd[f] \/ fwd'[f] = Down
  BY <1>2
<1>6. fwd' \in [Feeds -> Forwarder]
  <2>1. CASE fwd' = fwd
    BY <1>0, <2>1 DEF FwdTyped
  <2>2. CASE fwd' = [f \in Feeds |-> IF fwd[f].line = l THEN Down ELSE fwd[f]]
    BY <1>0, <1>4, <2>2 DEF FwdTyped
  <2> QED
    BY <1>2, <2>1, <2>2
<1>7. FwdTyped'
  <2>1. \A f \in Feeds : 1 \in 1..Len(files[f])
    BY <1>0 DEF LogsTyped
  <2>2. \A f \in Feeds : fwd'[f].file \in 1..Len(files[f])
    BY <1>0, <1>4, <1>5, <2>1 DEF FwdTyped
  <2> QED
    BY <1>0, <1>6, <2>2 DEF FwdTyped
<1>8. Typed'
  <2>1. LogsTyped' /\ NetworkTyped'
    BY DEF Typed, LogsTyped, NetworkTyped, Handling, network
  <2> QED
    BY <1>2, <1>3, <1>7, <2>1 DEF Typed, HandlersTyped
<1>9. Known' /\ Once' /\ Begun'
  <2>1. Known' /\ Begun'
    BY <1>0, <1>3 DEF Known, Begun, At
  <2> QED
    BY <1>0, <2>1, SameOnce
<1>10. Waiting'
  BY <1>0, <1>4, <1>5 DEF Waiting
<1>11. Unposted'
  <2>1. ASSUME NEW g \in Feeds, NEW i \in Nat, NEW j \in Nat,
               At(g, i, j), fwd'[g].phase # "down", Ahead(g, i, j)'
        PROVE  handler'[files[g][i][j]].pc = "none"
    <3>1. fwd'[g] = fwd[g]
      BY <1>4, <1>5, <2>1
    <3>2. handler[files[g][i][j]].pc = "none"
      BY <1>0, <2>1, <3>1 DEF Unposted, Ahead
    <3>3. files[g][i][j] \in Lines
      <4>1. files[g][i] \in Seq(Lines) /\ j \in 1..Len(files[g][i])
        BY <1>0, <2>1 DEF At, LogsTyped
      <4> QED
        BY <4>1, PieceAt
    <3> QED
      BY <1>3, <3>2, <3>3
  <2> QED
    BY <1>0, <2>1 DEF Unposted, At
<1> QED
  BY <1>8, <1>9, <1>10, <1>11 DEF Ledger

-------------------------------------------------------------------------------
(* The network, and the ledger as an invariant.                              *)

LEMMA NetworkingKeeps ==
  ASSUME Typed, Ledger, Networking
  PROVE  Typed' /\ Ledger'
<1>0. /\ lines' = lines /\ files' = files /\ fwd' = fwd /\ handler' = handler
      /\ evidence' = evidence /\ profile' = profile
      /\ Known /\ Waiting /\ Begun /\ Once /\ Unposted
  BY DEF Networking, Ledger
<1>1. NetworkTyped'
  <2>0. /\ home \in [Attackers -> Ips \cup {NoIp}] /\ route \in [Attackers -> Ips \cup {NoIp}]
        /\ guests \subseteq Attackers
    BY DEF Typed, NetworkTyped
  <2>1. PICK a \in Attackers : Comes(a)
    BY DEF Networking
  <2>2. \/ home' = [home EXCEPT ![a] = NoIp] /\ route' = route /\ guests' = guests
        \/ home' = home /\ route' = [route EXCEPT ![a] = home[a]] /\ guests' = guests
        \/ home' = home /\ route' = route /\ guests' = guests \cup {a}
        \/ \E ip \in Ips : home' = [home EXCEPT ![a] = ip] /\ route' = route /\ guests' = guests
    BY <2>1 DEF Comes, StopContainer, WriteRoute, Admit, StartContainer
  <2>3. home' \in [Attackers -> Ips \cup {NoIp}] /\ route' \in [Attackers -> Ips \cup {NoIp}]
    BY <2>0, <2>2
  <2>4. guests' \subseteq Attackers
    BY <2>0, <2>2
  <2> QED
    BY <2>3, <2>4 DEF NetworkTyped
<1>2. Typed'
  BY <1>0, <1>1 DEF Typed, LogsTyped, FwdTyped, HandlersTyped, StoresTyped
<1>3. Known' /\ Waiting' /\ Begun' /\ Once'
  <2>1. Known' /\ Waiting' /\ Begun'
    BY <1>0 DEF Known, Waiting, Begun, At
  <2> QED
    BY <1>0, <2>1, SameOnce
<1>4. Unposted'
  BY <1>0 DEF Unposted, Ahead, At
<1> QED
  BY <1>2, <1>3, <1>4 DEF Ledger

LEMMA InitTyped == Init => Typed /\ Ledger
<1> SUFFICES ASSUME Init PROVE Typed /\ Ledger
  OBVIOUS
<1>1. lines = <<>> /\ Len(lines) = 0 /\ lines \in Seq(Logged) /\ Len(lines) <= MaxLines
  BY TelemetryAssumption DEF Init
<1>2. PICK start : start = <<<<>>>>
  OBVIOUS
<1>3. start \in Seq(Seq(Lines)) /\ Len(start) = 1 /\ Len(start[1]) = 0
  BY <1>2
<1>4. files \in [Feeds -> Seq(Seq(Lines))] /\ \A f \in Feeds : files[f] = start
  BY <1>2, <1>3 DEF Init
<1>5. \A f \in Feeds, i, j \in Nat : ~At(f, i, j)
  BY <1>3, <1>4 DEF At
<1>14. \A f \in Feeds : Len(files[f]) = 1
  BY <1>3, <1>4
<1>6. LogsTyped
  <2>1. \A f \in Feeds : Len(files[f]) > 0
    BY <1>14
  <2> QED
    BY <1>1, <1>4, <2>1 DEF LogsTyped
<1>7. fwd \in [Feeds -> Forwarder] /\ \A f \in Feeds : fwd[f].file = 1 /\ fwd[f].phase = "poll"
  <2>1. PICK r : r = Tailing("poll", 1, 0, 0)
    OBVIOUS
  <2>2. r \in Forwarder /\ r.file = 1 /\ r.phase = "poll"
    BY <2>1, TailTyped
  <2> QED
    BY <2>1, <2>2 DEF Init
<1>8. FwdTyped
  BY <1>7, <1>14, SMTT(30) DEF FwdTyped
<1>9. handler \in [Lines -> Ingest] /\ \A l \in Lines : handler[l].pc = "none"
  <2>1. PICK r : r = Idle
    OBVIOUS
  <2>2. Proxy \in Keys
    BY DEF Keys
  <2>3. r \in Ingest /\ r.pc = "none"
    BY <2>1, <2>2 DEF Idle, Handler, Ingest
  <2> QED
    BY <2>1, <2>3 DEF Init
<1>10. evidence \in [Keys -> Seq(Lines)] /\ profile \in [Keys -> Nat]
  <2>1. <<>> \in Seq(Lines)
    OBVIOUS
  <2> QED
    BY <2>1 DEF Init
<1>11. NetworkTyped
  BY DEF Init, NetworkTyped
<1>12. Known /\ Once /\ Unposted
  BY <1>5 DEF Known, Once, Unposted, At
<1>13. Waiting /\ Begun
  BY <1>7, <1>9 DEF Waiting, Begun
<1> QED
  BY <1>6, <1>8, <1>9, <1>10, <1>11, <1>12, <1>13
     DEF Typed, HandlersTyped, StoresTyped, Ledger

LEMMA SameTyped ==
  ASSUME Typed, Ledger, UNCHANGED vars
  PROVE  Typed' /\ Ledger'
<1>0. /\ lines' = lines /\ files' = files /\ fwd' = fwd /\ handler' = handler
      /\ evidence' = evidence /\ profile' = profile /\ home' = home /\ route' = route
      /\ guests' = guests
      /\ Known /\ Waiting /\ Begun /\ Once /\ Unposted
  BY DEF vars, logs, stores, network, Ledger
<1>1. Typed'
  BY <1>0 DEF Typed, LogsTyped, FwdTyped, HandlersTyped, StoresTyped, NetworkTyped
<1>2. Known' /\ Waiting' /\ Begun'
  BY <1>0 DEF Known, Waiting, Begun, At
<1>3. Unposted'
  BY <1>0 DEF Unposted, Ahead, At
<1> QED
  BY <1>0, <1>1, <1>2, <1>3, SameOnce DEF Ledger

LEMMA LedgerKept ==
  ASSUME FromStart = FALSE, Typed, Invited, Ledger, [Next]_vars
  PROVE  Typed' /\ Ledger'
<1>1. CASE Logging
  BY <1>1, LoggingTyped, LoggingLedger DEF Ledger
<1> QED
  BY <1>1, Sorted, TendingKeeps, ReadingKeeps, HandlingKeeps, NetworkingKeeps, SameTyped

-------------------------------------------------------------------------------
(* Evidence: a line is filed once, by the handler that was posted for it.    *)

Within(k, i) == i \in 1..Len(evidence[k])
Filed ==
  \A k \in Keys, i \in Nat : Within(k, i) =>
    /\ handler[evidence[k][i]].pc \notin {"none", "posted"}
    /\ handler[evidence[k][i]].key = k
NoRepeats ==
  \A k \in Keys, i, h \in Nat :
    Within(k, i) /\ Within(k, h) /\ evidence[k][i] = evidence[k][h] => i = h
Remains ==
  \A l \in Lines : handler[l].pc \in {"added", "read", "profiled", "done"} => Stored(l)
Seen == \A l \in observed : l \in Lines /\ Stored(l)

Filing == Filed /\ NoRepeats /\ Remains /\ Seen

LEMMA GoesKeeps ==
  ASSUME HandlersTyped, NEW l \in Lines, NEW r, NEW cleared, Goes(l, r, cleared),
         NEW o \in Lines
  PROVE  /\ handler'[o].key = handler[o].key
         /\ o # l => /\ handler'[o].pc = handler[o].pc /\ handler'[o].n = handler[o].n
                     /\ o \in cleared => handler'[o].alone = FALSE
                     /\ o \notin cleared => handler'[o].alone = handler[o].alone
<1>1. CASE o = l
  BY <1>1 DEF Goes
<1>2. CASE o # l
  <2>1. PICK h : h = handler[o]
    OBVIOUS
  <2>2. h \in Ingest
    BY <2>1 DEF HandlersTyped
  <2>3. PICK s : s = [h EXCEPT !.alone = FALSE]
    OBVIOUS
  <2>4. s.key = h.key /\ s.pc = h.pc /\ s.n = h.n /\ s.alone = FALSE
    BY <2>2, <2>3 DEF Ingest
  <2>5. handler'[o] = IF o \in cleared THEN s ELSE h
    BY <1>2, <2>1, <2>3 DEF Goes
  <2> QED
    BY <1>2, <2>1, <2>4, <2>5
<1> QED
  BY <1>1, <1>2

LEMMA GoesAlone ==
  ASSUME HandlersTyped, NEW l \in Lines, NEW r, Goes(l, r, {})
  PROVE  \A o \in Lines :
           /\ handler'[o].key = handler[o].key
           /\ o # l => /\ handler'[o].pc = handler[o].pc /\ handler'[o].n = handler[o].n
                       /\ handler'[o].alone = handler[o].alone
BY GoesKeeps

LEMMA SameStored ==
  ASSUME evidence' = evidence
  PROVE  \A l \in Lines : Stored(l) => Stored(l)'
BY DEF Stored

LEMMA AppendStored ==
  ASSUME StoresTyped, NEW k \in Keys, NEW l \in Lines,
         evidence' = [evidence EXCEPT ![k] = Append(@, l)]
  PROVE  /\ \A o \in Lines : Stored(o) => Stored(o)'
         /\ Stored(l)'
         /\ \A j \in Keys : j # k => evidence'[j] = evidence[j]
         /\ Len(evidence[k]) \in Nat /\ Len(evidence'[k]) = Len(evidence[k]) + 1
         /\ \A i \in 1..Len(evidence[k]) : evidence'[k][i] = evidence[k][i]
         /\ evidence'[k][Len(evidence[k]) + 1] = l
<1>1. PICK s : s = evidence[k]
  OBVIOUS
<1>2. s \in Seq(Lines) /\ Len(s) \in Nat /\ DOMAIN s = 1..Len(s)
  BY <1>1 DEF StoresTyped
<1>3. PICK t : t = Append(s, l)
  OBVIOUS
<1>4. /\ t \in Seq(Lines) /\ Len(t) = Len(s) + 1 /\ t[Len(s) + 1] = l
      /\ DOMAIN t = 1..(Len(s) + 1)
      /\ \A i \in 1..Len(s) : t[i] = s[i]
  BY <1>2, <1>3
<1>5. evidence'[k] = t /\ \A j \in Keys : j # k => evidence'[j] = evidence[j]
  BY <1>1, <1>3 DEF StoresTyped
<1>6. ASSUME NEW o \in Lines, Stored(o)
      PROVE  Stored(o)'
  <2>1. PICK j \in Keys : \E i \in DOMAIN evidence[j] : evidence[j][i] = o
    BY <1>6 DEF Stored
  <2>2. PICK i \in DOMAIN evidence[j] : evidence[j][i] = o
    BY <2>1
  <2>3. i \in DOMAIN evidence'[j] /\ evidence'[j][i] = o
    <3>1. CASE j # k
      BY <1>5, <2>2, <3>1
    <3>2. CASE j = k
      <4>1. i \in 1..Len(s) /\ s[i] = o
        BY <1>1, <1>2, <2>2, <3>2
      <4>2. i \in 1..(Len(s) + 1)
        BY <1>2, <4>1
      <4> QED
        BY <1>4, <1>5, <3>2, <4>1, <4>2
    <3> QED
      BY <3>1, <3>2
  <2> QED
    BY <2>3 DEF Stored
<1>7. Stored(l)'
  <2>1. Len(s) + 1 \in DOMAIN t
    BY <1>2, <1>4
  <2> QED
    BY <1>4, <1>5, <2>1 DEF Stored
<1> QED
  BY <1>1, <1>2, <1>4, <1>5, <1>6, <1>7

\* Nothing is filed, and some handler that has not filed goes on.
LEMMA FilingSame ==
  ASSUME Typed, Filing, evidence' = evidence, NEW new \in SUBSET Lines,
         observed' = observed \cup new,
         \A l \in new : Stored(l),
         \A o \in Lines :
           /\ handler[o].pc \notin {"none", "posted"} =>
                handler'[o].pc \notin {"none", "posted"} /\ handler'[o].key = handler[o].key
           /\ handler'[o].pc \in {"added", "read", "profiled", "done"} =>
                handler[o].pc \in {"added", "read", "profiled", "done"}
  PROVE  Filing'
<1>0. Filed /\ NoRepeats /\ Remains /\ Seen /\ StoresTyped
  BY DEF Filing, Typed
<1>1. \A k \in Keys, i \in Nat : Within(k, i) => evidence[k][i] \in Lines
  BY <1>0 DEF Within, StoresTyped
<1>2. Filed'
  BY <1>0, <1>1 DEF Filed, Within
<1>3. NoRepeats'
  BY <1>0 DEF NoRepeats, Within
<1>4. Remains'
  BY <1>0, SameStored DEF Remains
<1>5. Seen'
  BY <1>0, SameStored DEF Seen
<1> QED
  BY <1>2, <1>3, <1>4, <1>5 DEF Filing

LEMMA FilingKept ==
  ASSUME Typed, Ledger, Filing, [Next]_vars
  PROVE  Filing'
<1>0. HandlersTyped /\ StoresTyped /\ Filed /\ NoRepeats /\ Remains /\ Seen
  BY DEF Typed, Filing
<1>1. CASE evidence' = evidence /\ handler' = handler /\ observed' = observed
  <2>1. PICK new : new = {}
    OBVIOUS
  <2>2. new \in SUBSET Lines /\ observed' = observed \cup new /\ \A l \in new : Stored(l)
    BY <1>1, <2>1
  <2> QED
    BY <1>1, <2>2, FilingSame
<1>2. CASE Reading
  <2>1. CASE \E l \in Lines : Posts(l)
    <3>1. PICK l \in Lines : Posts(l)
      BY <2>1
    <3>2. handler'[l].pc = "posted" /\ \A o \in Lines : o # l => handler'[o] = handler[o]
      BY <1>0, <3>1 DEF Posts, Posted, Handler, HandlersTyped
    <3>3. handler[l].pc = "none" /\ evidence' = evidence /\ observed' = observed
      BY <1>2, <3>1 DEF Posts, Reading
    <3>4. PICK new : new = {}
      OBVIOUS
    <3>5. new \in SUBSET Lines /\ observed' = observed \cup new /\ \A o \in new : Stored(o)
      BY <3>3, <3>4
    <3>6. \A o \in Lines :
           /\ handler[o].pc \notin {"none", "posted"} =>
                handler'[o].pc \notin {"none", "posted"} /\ handler'[o].key = handler[o].key
           /\ handler'[o].pc \in {"added", "read", "profiled", "done"} =>
                handler[o].pc \in {"added", "read", "profiled", "done"}
      BY <3>2, <3>3
    <3> QED
      BY <3>3, <3>5, <3>6, FilingSame
  <2>2. CASE handler' = handler
    BY <1>1, <1>2, <2>2 DEF Reading
  <2> QED
    BY <1>2, <2>1, <2>2, ReadingKeeps
<1>3. ASSUME NEW l \in Lines, NEW r, NEW new \in SUBSET {l}, Goes(l, r, {}),
             evidence' = evidence, observed' = observed \cup new,
             handler[l].pc \in {"added", "read", "profiled"} \/ (r.pc = "failed" /\ new = {})
      PROVE  Filing'
  <2>1. handler'[l] = r /\ r.pc \notin {"none", "posted"}
    BY <1>3 DEF Goes, InFlight
  <2>2. \A o \in Lines : /\ handler'[o].key = handler[o].key
                         /\ o # l => handler'[o].pc = handler[o].pc
    BY <1>0, <1>3, GoesAlone
  <2>3. \A o \in Lines :
           /\ handler[o].pc \notin {"none", "posted"} =>
                handler'[o].pc \notin {"none", "posted"} /\ handler'[o].key = handler[o].key
           /\ handler'[o].pc \in {"added", "read", "profiled", "done"} =>
                handler[o].pc \in {"added", "read", "profiled", "done"}
    BY <1>3, <2>1, <2>2
  <2>4. new \in SUBSET Lines /\ \A o \in new : Stored(o)
    BY <1>0, <1>3 DEF Remains
  <2> QED
    BY <1>3, <2>3, <2>4, FilingSame
<1>4. ASSUME NEW l \in Lines, AddEvidence(l)
      PROVE  Filing'
  <2>1. PICK k, r, cleared :
           /\ k = handler[l].key /\ handler[l].pc = "posted" /\ k \in Keys
           /\ r.pc = "added" /\ Goes(l, r, cleared)
           /\ evidence' = [evidence EXCEPT ![k] = Append(@, l)]
           /\ observed' = observed
    <3>1. PICK r : r = Handler("added", handler[l].key, 0, Others(l, Ingesting) = {})
      OBVIOUS
    <3>2. r.pc = "added"
      BY <3>1 DEF Handler
    <3> QED
      BY <1>4, <3>1, <3>2, AddGoes
  <2>2. PICK n : n = Len(evidence[k])
    OBVIOUS
  <2>3. /\ \A o \in Lines : Stored(o) => Stored(o)'
        /\ Stored(l)'
        /\ \A j \in Keys : j # k => evidence'[j] = evidence[j]
        /\ n \in Nat /\ Len(evidence'[k]) = n + 1
        /\ \A i \in 1..n : evidence'[k][i] = evidence[k][i]
        /\ evidence'[k][n + 1] = l
    <3>1. k \in Keys /\ evidence' = [evidence EXCEPT ![k] = Append(@, l)]
      BY <2>1
    <3>2. /\ \A o \in Lines : Stored(o) => Stored(o)'
          /\ Stored(l)'
      BY <1>0, <3>1, AppendStored
    <3>3. /\ \A j \in Keys : j # k => evidence'[j] = evidence[j]
          /\ Len(evidence[k]) \in Nat /\ Len(evidence'[k]) = Len(evidence[k]) + 1
          /\ \A i \in 1..Len(evidence[k]) : evidence'[k][i] = evidence[k][i]
          /\ evidence'[k][Len(evidence[k]) + 1] = l
      BY <1>0, <3>1, AppendStored
    <3> QED
      BY <2>2, <3>2, <3>3
  <2>4. /\ \A o \in Lines : handler'[o].key = handler[o].key
                            /\ (o # l => handler'[o].pc = handler[o].pc)
        /\ handler'[l].pc = "added"
    <3>1. Goes(l, r, cleared)
      BY <2>1
    <3>2. handler'[l].pc = "added"
      BY <2>1, <3>1 DEF Goes
    <3> QED
      BY <1>0, <3>1, <3>2, GoesKeeps
  <2>5. ASSUME NEW j \in Keys, NEW i \in Nat, Within(j, i)'
        PROVE  \/ Within(j, i) /\ evidence'[j][i] = evidence[j][i] /\ evidence[j][i] # l
                  /\ evidence[j][i] \in Lines
               \/ j = k /\ i = n + 1 /\ evidence'[j][i] = l
    <3>1. Within(j, i) => evidence[j][i] # l /\ evidence[j][i] \in Lines
      BY <1>0, <2>1 DEF Filed, Within, StoresTyped
    <3>2. CASE j # k
      BY <2>3, <2>5, <3>1, <3>2 DEF Within
    <3>3. CASE j = k /\ i # n + 1
      <4>1. i \in 1..n
        BY <2>3, <2>5, <3>3 DEF Within
      <4> QED
        BY <2>2, <2>3, <3>1, <3>3, <4>1 DEF Within
    <3>4. CASE j = k /\ i = n + 1
      BY <2>3, <3>4
    <3> QED
      BY <3>2, <3>3, <3>4
  <2>6. Filed'
    <3>1. ASSUME NEW j \in Keys, NEW i \in Nat, Within(j, i)'
          PROVE  /\ handler'[evidence'[j][i]].pc \notin {"none", "posted"}
                 /\ handler'[evidence'[j][i]].key = j
      <4>1. CASE /\ Within(j, i) /\ evidence'[j][i] = evidence[j][i] /\ evidence[j][i] # l
                 /\ evidence[j][i] \in Lines
        <5>1. PICK o \in Lines : o = evidence[j][i] /\ o = evidence'[j][i] /\ o # l
          BY <4>1
        <5>2. handler[o].pc \notin {"none", "posted"} /\ handler[o].key = j
          BY <1>0, <4>1, <5>1 DEF Filed
        <5>3. handler'[o].pc \notin {"none", "posted"} /\ handler'[o].key = j
          BY <2>4, <5>1, <5>2
        <5> QED
          BY <5>1, <5>3
      <4>2. CASE j = k /\ i = n + 1 /\ evidence'[j][i] = l
        BY <2>1, <2>4, <4>2
      <4> QED
        BY <2>5, <3>1, <4>1, <4>2
    <3> QED
      BY <3>1 DEF Filed
  <2>7. NoRepeats'
    <3>1. ASSUME NEW j \in Keys, NEW i \in Nat, NEW h \in Nat, Within(j, i)', Within(j, h)',
                 evidence'[j][i] = evidence'[j][h]
          PROVE  i = h
      BY <1>0, <2>5, <3>1 DEF NoRepeats
    <3> QED
      BY <3>1 DEF NoRepeats
  <2>8. Remains'
    BY <1>0, <2>3, <2>4 DEF Remains
  <2>9. Seen'
    BY <1>0, <2>1, <2>3 DEF Seen
  <2> QED
    BY <2>6, <2>7, <2>8, <2>9 DEF Filing
<1>5. CASE Handling
  <2>1. PICK l \in Lines : Handle(l) \/ \E crash \in BOOLEAN : BreaksOff(l, crash)
    BY <1>5 DEF Handling
  <2>2. CASE ReadEvidence(l)
    <3>1. PICK r : Goes(l, r, {}) /\ handler[l].pc = "added" /\ evidence' = evidence
                   /\ observed' = observed \cup {}
      BY <2>2, ReadEvidenceGoes
    <3> QED
      BY <1>3, <3>1
  <2>3. CASE UpsertProfile(l)
    <3>1. PICK r : Goes(l, r, {}) /\ handler[l].pc = "read" /\ evidence' = evidence
                   /\ observed' = observed \cup {}
      BY <2>3, UpsertGoes
    <3> QED
      BY <1>3, <3>1
  <2>4. CASE AddObservation(l)
    <3>1. PICK r : Goes(l, r, {}) /\ handler[l].pc = "profiled" /\ evidence' = evidence
                   /\ observed' = observed \cup {l}
      BY <2>4, ObservationGoes
    <3> QED
      BY <1>3, <3>1
  <2>5. CASE \E crash \in BOOLEAN : BreaksOff(l, crash)
    <3>1. PICK r : Goes(l, r, {}) /\ r.pc = "failed" /\ evidence' = evidence
                   /\ observed' = observed \cup {}
      BY <2>5, BreaksOffGoes
    <3> QED
      BY <1>3, <3>1
  <2> QED
    BY <1>4, <2>1, <2>2, <2>3, <2>4, <2>5 DEF Handle
<1>6. CASE Logging \/ Tending \/ Networking \/ UNCHANGED vars
  BY <1>1, <1>6 DEF Logging, Tending, Networking, vars, stores
<1> QED
  BY <1>2, <1>5, <1>6, Sorted

-------------------------------------------------------------------------------
(* Blame: until a line of OpenCanary is read, its backend's route leads to     *)
(* whoever did what it says, or the route was not current.                    *)

Tied ==
  \A l \in Lines :
    l \in 1..Len(lines) /\ lines[l].feed \in Routed /\ lines[l].part # "tail"
      /\ handler[l].pc = "none" /\ l \notin moved
      => /\ route[lines[l].who] = lines[l].ip
         /\ home[lines[l].who] \in {lines[l].ip, NoIp}
         /\ lines[l].ip # NoIp
Blamed ==
  \A l \in Lines : handler[l].pc # "none" =>
    /\ Readable(l)
    /\ handler[l].key \in Attackers => handler[l].key = lines[l].who \/ l \in moved

LEMMA AttributedFairly ==
  ASSUME Typed, Tied, Invited, NEW l \in Lines, l \in 1..Len(lines), handler[l].pc = "none",
         Readable(l), Attributed(l) \in Attackers
  PROVE  Attributed(l) = lines[l].who \/ l \in moved
<1>1. lines[l].who \in Attackers
  <2>1. lines[l] \in Logged
    BY DEF Typed, LogsTyped
  <2> QED
    BY <2>1 DEF Logged
<1>0. Proxy \notin Attackers /\ Nobody \notin Attackers /\ Routed \cap Plain = {}
  BY TelemetryAssumption DEF Keys
<1>2. CASE lines[l].feed \notin Routed /\ lines[l].feed \notin Plain
  BY <1>2 DEF Attributed
<1>3. CASE lines[l].feed \in Routed /\ l \notin moved
  <2>1. Attributed(l) = TheOnly(Owners(l), Proxy) /\ Attributed(l) # Proxy
    BY <1>0, <1>3 DEF Attributed
  <2>2. route[lines[l].who] = lines[l].ip
    BY <1>0, <1>3 DEF Tied, Readable
  <2>3. lines[l].who \in Owners(l)
    BY <1>1, <2>2 DEF Owners
  <2>4. Owners(l) \in SUBSET Attackers
    BY DEF Owners
  <2> QED
    BY <2>1, <2>3, <2>4, TheOnlyFacts
<1>4. CASE lines[l].feed \in Plain
  <2>1. Attributed(l) = TheOnly(guests, Nobody) /\ Attributed(l) # Nobody
    BY <1>0, <1>4 DEF Attributed
  <2>2. lines[l].who \in guests /\ guests \in SUBSET Attackers
    BY <1>4 DEF Invited, Typed, NetworkTyped
  <2> QED
    BY <2>1, <2>2, TheOnlyFacts
<1> QED
  BY <1>2, <1>3, <1>4

\* Nothing that was logged is lost, and no route to the asset.
LEMMA InvitedKept ==
  ASSUME Typed, Invited, [Next]_vars
  PROVE  Invited'
<1>1. CASE Logging
  <2>1. PICK f \in Feeds : Writes(f) \/ Replaces(f)
    BY <1>1, LoggingKinds
  <2>2. guests' = guests /\ lines \in Seq(Logged)
    BY <1>1 DEF Logging, Typed, LogsTyped
  <2>3. CASE lines' = lines
    BY <2>2, <2>3 DEF Invited
  <2>4. CASE Writes(f)
    <3>1. PICK r \in Logged : lines' = Append(lines, r) /\ (r.feed \in Plain => r.who \in guests)
      BY <2>4 DEF Writes
    <3>2. PICK n : n = Len(lines)
      OBVIOUS
    <3>3. /\ n \in Nat /\ Len(lines') = n + 1 /\ lines'[n + 1] = r
          /\ \A l \in 1..n : lines'[l] = lines[l]
      BY <2>2, <3>1, <3>2
    <3>4. \A l \in 1..(n + 1) : l \in 1..n \/ l = n + 1
      BY <3>3
    <3> QED
      BY <2>2, <3>1, <3>2, <3>3, <3>4 DEF Invited
  <2> QED
    BY <2>1, <2>3, <2>4 DEF Replaces
<1>2. CASE lines' = lines /\ guests \subseteq guests'
  BY <1>2 DEF Invited
<1>3. CASE Networking
  BY <1>2, <1>3 DEF Networking, Comes, StopContainer, WriteRoute, Admit, StartContainer
<1>4. CASE Tending \/ Reading \/ Handling \/ UNCHANGED vars
  BY <1>2, <1>4 DEF Tending, Reading, Handling, vars, logs, network
<1> QED
  BY <1>1, <1>3, <1>4, Sorted

LEMMA NetworkingBlame ==
  ASSUME Typed, Tied, Blamed, Networking
  PROVE  Tied' /\ Blamed'
<1>0. /\ lines' = lines /\ handler' = handler
      /\ home \in [Attackers -> Ips \cup {NoIp}] /\ route \in [Attackers -> Ips \cup {NoIp}]
  BY DEF Networking, Typed, NetworkTyped
<1>1. \A l \in 1..Len(lines) : lines[l].who \in Attackers
  <2>1. ASSUME NEW l \in 1..Len(lines)
        PROVE  lines[l].who \in Attackers
    <3>1. lines[l] \in Logged
      BY DEF Typed, LogsTyped
    <3> QED
      BY <3>1 DEF Logged
  <2> QED
    BY <2>1
<1>2. PICK a \in Attackers : Comes(a)
  BY DEF Networking
<1>3. moved \subseteq moved'
  BY <1>2 DEF Comes, StopContainer, WriteRoute, Admit, StartContainer
<1>4. Blamed'
  BY <1>0, <1>3 DEF Blamed, Readable
<1>5. ASSUME NEW l \in Lines, l \in 1..Len(lines), lines[l].feed \in Routed, lines[l].part # "tail",
             handler[l].pc = "none", l \notin moved'
      PROVE  /\ route'[lines[l].who] = lines[l].ip
             /\ home'[lines[l].who] \in {lines[l].ip, NoIp}
             /\ lines[l].ip # NoIp
  <2>0. PICK b \in Attackers : b = lines[l].who
    BY <1>1, <1>5
  <2>1. /\ route[b] = lines[l].ip /\ home[b] \in {lines[l].ip, NoIp}
        /\ lines[l].ip # NoIp
    BY <1>3, <1>5, <2>0 DEF Tied
  <2>2. CASE StopContainer(a)
    <3>1. home' = [home EXCEPT ![a] = NoIp] /\ route' = route
      BY <2>2 DEF StopContainer
    <3> QED
      BY <1>0, <2>0, <2>1, <3>1
  <2>3. CASE WriteRoute(a)
    <3>1. home' = home /\ route' = [route EXCEPT ![a] = home[a]] /\ home[a] # NoIp
          /\ route[a] # home[a]
      BY <2>3 DEF WriteRoute
    <3>2. a # b
      BY <2>1, <3>1
    <3> QED
      BY <1>0, <2>0, <2>1, <3>1, <3>2
  <2>5. CASE Admit(a)
    BY <1>0, <2>0, <2>1, <2>5 DEF Admit
  <2>4. CASE \E ip \in Ips : StartContainer(a, ip)
    <3>1. PICK ip \in Ips :
             /\ home' = [home EXCEPT ![a] = ip] /\ route' = route
             /\ moved' = moved \cup {o \in UNION {Unread(f) : f \in Routed} : lines[o].who = a}
      BY <2>4 DEF StartContainer
    <3>2. l \in UNION {Unread(f) : f \in Routed}
      <4>1. l \in DOMAIN lines
        BY <1>5 DEF Typed, LogsTyped
      <4>2. l \in Unread(lines[l].feed)
        BY <1>5, <4>1 DEF Unread
      <4> QED
        BY <1>5, <4>2
    <3>3. a # b
      BY <1>5, <2>0, <3>1, <3>2
    <3> QED
      BY <1>0, <2>0, <2>1, <3>1, <3>3
  <2> QED
    BY <1>2, <2>2, <2>3, <2>4, <2>5 DEF Comes
<1>6. Tied'
  BY <1>0, <1>5 DEF Tied
<1> QED
  BY <1>4, <1>6

LEMMA LoggingBlame ==
  ASSUME Typed, Invited, Ledger, Tied, Blamed, Logging
  PROVE  Tied' /\ Blamed'
<1>0. /\ handler' = handler /\ home' = home /\ route' = route /\ moved \subseteq moved'
      /\ lines \in Seq(Logged) /\ Len(lines) \in Nat /\ Begun
  BY LoggingKinds DEF Logging, Typed, LogsTyped, Ledger
<1>1. PICK f \in Feeds : Writes(f) \/ Replaces(f)
  BY LoggingKinds
<1>2. CASE lines' = lines
  <2>1. Tied'
    BY <1>0, <1>2 DEF Tied
  <2> QED
    BY <1>0, <1>2, <2>1 DEF Blamed, Readable
<1>3. CASE Writes(f)
  <2>1. PICK m \in Lines, r \in Logged :
           /\ m = Len(lines) + 1 /\ lines' = Append(lines, r)
           /\ r.feed \in Routed /\ r.part # "tail" =>
                /\ r.ip = home[r.who] /\ r.ip # NoIp
                /\ r.ip = route[r.who] \/ m \in moved'
    BY <1>3 DEF Writes
  <2>2. PICK n : n = Len(lines)
    OBVIOUS
  <2>3. /\ n \in Nat /\ Len(lines') = n + 1 /\ lines'[n + 1] = r
        /\ \A l \in 1..n : lines'[l] = lines[l]
    BY <1>0, <2>1, <2>2
  <2>4. Blamed'
    <3>1. \A l \in Lines : handler[l].pc # "none" => l \in 1..n
      BY <1>0, <2>2 DEF Begun
    <3>2. \A l \in Lines : handler[l].pc # "none" => lines'[l] = lines[l]
      BY <2>3, <3>1
    <3> QED
      BY <1>0, <3>2 DEF Blamed, Readable
  <2>5. ASSUME NEW l \in Lines, l \in 1..Len(lines'), lines'[l].feed \in Routed,
               lines'[l].part # "tail", handler[l].pc = "none", l \notin moved'
        PROVE  /\ route[lines'[l].who] = lines'[l].ip
               /\ home[lines'[l].who] \in {lines'[l].ip, NoIp}
               /\ lines'[l].ip # NoIp
    <3>1. CASE l = n + 1
      BY <2>1, <2>2, <2>3, <2>5, <3>1
    <3>2. CASE l # n + 1
      <4>1. l \in 1..n
        BY <2>3, <2>5, <3>2
      <4> QED
        BY <1>0, <2>2, <2>3, <2>5, <4>1 DEF Tied
    <3> QED
      BY <3>1, <3>2
  <2>6. Tied'
    BY <1>0, <2>5 DEF Tied
  <2> QED
    BY <2>4, <2>6
<1> QED
  BY <1>1, <1>2, <1>3 DEF Replaces

LEMMA BlameKept ==
  ASSUME Typed, Invited, Ledger, Tied, Blamed, [Next]_vars
  PROVE  Tied' /\ Blamed'
<1>0. HandlersTyped
  BY DEF Typed
<1>1. CASE Reading
  <2>0. lines' = lines /\ home' = home /\ route' = route /\ moved' = moved
    BY <1>1 DEF Reading, network
  <2>1. CASE handler' = handler
    BY <2>0, <2>1 DEF Tied, Blamed, Readable
  <2>2. CASE \E l \in Lines : Posts(l)
    <3>1. PICK l \in Lines : Posts(l)
      BY <2>2
    <3>2. PICK k : k = Attributed(l)
      OBVIOUS
    <3>3. /\ l \in 1..Len(lines) /\ handler[l].pc = "none" /\ Readable(l)
          /\ handler'[l].pc = "posted" /\ handler'[l].key = k
          /\ \A o \in Lines : o # l => handler'[o] = handler[o]
      BY <1>0, <3>1, <3>2 DEF Posts, Posted, Handler, HandlersTyped
    <3>4. k \in Attackers => k = lines[l].who \/ l \in moved
      BY <3>2, <3>3, AttributedFairly
    <3>5. \A o \in Lines : Readable(o)' <=> Readable(o)
      BY <2>0 DEF Readable
    <3>6. Tied'
      BY <2>0, <3>3 DEF Tied
    <3>7. Blamed'
      BY <2>0, <3>3, <3>4, <3>5 DEF Blamed
    <3> QED
      BY <3>6, <3>7
  <2> QED
    BY <1>1, <2>1, <2>2, ReadingKeeps
<1>2. CASE Handling
  <2>0. lines' = lines /\ home' = home /\ route' = route /\ moved' = moved
    BY <1>2 DEF Handling, network
  <2>1. PICK l \in Lines : Handle(l) \/ \E crash \in BOOLEAN : BreaksOff(l, crash)
    BY <1>2 DEF Handling
  <2>3. \E r, cleared : Goes(l, r, cleared)
    BY <2>1, AddGoes, ReadEvidenceGoes, UpsertGoes, ObservationGoes, BreaksOffGoes DEF Handle
  <2>4. PICK r, cleared : Goes(l, r, cleared)
    BY <2>3
  <2>5. \A o \in Lines : /\ handler'[o].key = handler[o].key
                         /\ o # l => handler'[o].pc = handler[o].pc
    BY <1>0, <2>4, GoesKeeps
  <2>6. handler[l].pc # "none" /\ handler'[l].pc # "none"
    BY <2>4 DEF Goes, InFlight
  <2>7. \A o \in Lines : handler'[o].pc = "none" <=> handler[o].pc = "none"
    BY <2>5, <2>6
  <2>8. Tied'
    BY <2>0, <2>7 DEF Tied
  <2>9. Blamed'
    BY <2>0, <2>5, <2>7 DEF Blamed, Readable
  <2> QED
    BY <2>8, <2>9
<1>3. CASE Tending \/ UNCHANGED vars
  <2>1. lines' = lines /\ handler' = handler /\ home' = home /\ route' = route /\ moved' = moved
    BY <1>3 DEF Tending, vars, logs, network
  <2> QED
    BY <2>1 DEF Tied, Blamed, Readable
<1> QED
  BY <1>1, <1>2, <1>3, Sorted, LoggingBlame, NetworkingBlame

-------------------------------------------------------------------------------
(* The profile: what an ingest that is alone has read is all there is.       *)

Busy(l) == handler[l].pc \in Ingesting
Alone ==
  \A l, o \in Lines :
    Busy(l) /\ handler[l].alone = TRUE /\ o # l /\ handler[o].key = handler[l].key => ~Busy(o)
Counted ==
  \A l \in Lines : handler[l].pc = "read" =>
    /\ handler[l].n <= Len(evidence[handler[l].key])
    /\ handler[l].alone = TRUE => handler[l].n = Len(evidence[handler[l].key])
Bounded == \A k \in Keys : profile[k] <= Len(evidence[k])
Quiet ==
  \A k \in Keys :
    k \notin excused /\ (\A l \in Lines : handler[l].key = k => ~Busy(l))
      => profile[k] = Len(evidence[k])

Profiled == Alone /\ Counted /\ Bounded /\ Quiet

\* No ingest begins, reads or writes; those that end excuse their key.
LEMMA ProfiledSame ==
  ASSUME Profiled, HandlersTyped, evidence' = evidence, profile' = profile,
         excused \subseteq excused',
         \A o \in Lines : Busy(o)' =>
           /\ handler'[o].pc = handler[o].pc /\ handler'[o].key = handler[o].key
           /\ handler'[o].n = handler[o].n /\ handler'[o].alone = handler[o].alone,
         \A o \in Lines : Busy(o) /\ ~Busy(o)' => handler[o].key \in excused'
  PROVE  Profiled'
<1>0. Alone /\ Counted /\ Bounded /\ Quiet
  BY DEF Profiled
<1>1. \A o \in Lines : Busy(o)' => Busy(o)
  BY DEF Busy
<1>2. Alone'
  <2>1. ASSUME NEW l \in Lines, NEW o \in Lines, Busy(l)', handler'[l].alone = TRUE, o # l,
               handler'[o].key = handler'[l].key, Busy(o)'
        PROVE  FALSE
    <3>1. /\ Busy(l) /\ Busy(o) /\ handler[l].alone = TRUE
          /\ handler[o].key = handler[l].key
      BY <1>1, <2>1
    <3> QED
      BY <1>0, <2>1, <3>1 DEF Alone
  <2> QED
    BY <2>1 DEF Alone
<1>3. Counted'
  <2>1. ASSUME NEW l \in Lines, handler'[l].pc = "read"
        PROVE  /\ handler[l].pc = "read" /\ handler'[l].key = handler[l].key
               /\ handler'[l].n = handler[l].n /\ handler'[l].alone = handler[l].alone
    BY <2>1 DEF Busy, Ingesting
  <2> QED
    BY <1>0, <2>1 DEF Counted
<1>4. Bounded'
  BY <1>0 DEF Bounded
<1>5. Quiet'
  <2>1. ASSUME NEW k \in Keys, k \notin excused',
               \A l \in Lines : handler'[l].key = k => ~Busy(l)'
        PROVE  profile[k] = Len(evidence[k])
    <3>1. \A l \in Lines : handler[l].key = k => ~Busy(l)
      BY <2>1
    <3> QED
      BY <1>0, <2>1, <3>1 DEF Quiet
  <2> QED
    BY <2>1 DEF Quiet
<1> QED
  BY <1>2, <1>3, <1>4, <1>5 DEF Profiled

LEMMA AddProfiled ==
  ASSUME Typed, Profiled, NEW l \in Lines, AddEvidence(l)
  PROVE  Profiled'
<1>0. HandlersTyped /\ StoresTyped /\ Alone /\ Counted /\ Bounded /\ Quiet
  BY DEF Typed, Profiled
<1>1. PICK k, others : k = handler[l].key /\ others = Others(l, Ingesting)
  OBVIOUS
<1>2. PICK r : r = Handler("added", k, 0, others = {})
  OBVIOUS
<1>3. r.pc = "added" /\ (r.alone = TRUE => others = {})
  BY <1>2 DEF Handler
<1>4. /\ handler[l].pc = "posted" /\ k \in Keys /\ Goes(l, r, others)
      /\ evidence' = [evidence EXCEPT ![k] = Append(@, l)]
      /\ profile' = profile /\ excused' = excused
  BY <1>1, <1>2, AddGoes
<1>5. handler'[l] = r
  BY <1>4 DEF Goes
<1>6. \A o \in Lines :
        /\ handler'[o].key = handler[o].key
        /\ o # l => /\ handler'[o].pc = handler[o].pc /\ handler'[o].n = handler[o].n
                    /\ o \in others => handler'[o].alone = FALSE
                    /\ o \notin others => handler'[o].alone = handler[o].alone
  BY <1>0, <1>4, GoesKeeps
<1>7. \A o \in Lines : o \in others <=> o # l /\ Busy(o) /\ handler[o].key = k
  BY <1>1 DEF Others, Busy
<1>8. /\ \A j \in Keys : j # k => evidence'[j] = evidence[j]
      /\ Len(evidence[k]) \in Nat /\ Len(evidence'[k]) = Len(evidence[k]) + 1
  BY <1>0, <1>4, AppendStored
<1>9. \A o \in Lines : o # l => (Busy(o)' <=> Busy(o))
  BY <1>6 DEF Busy
<1>10. Busy(l)' /\ ~Busy(l)
  BY <1>3, <1>4, <1>5 DEF Busy, Ingesting
<1>11. Alone'
  <2>1. ASSUME NEW m \in Lines, NEW o \in Lines, Busy(m)', handler'[m].alone = TRUE, o # m,
               handler'[o].key = handler'[m].key, Busy(o)'
        PROVE  FALSE
    <3>1. CASE m = l
      <4>1. others = {} /\ o # l /\ Busy(o) /\ handler[o].key = k
        BY <1>1, <1>3, <1>5, <1>6, <1>9, <2>1, <3>1
      <4> QED
        BY <1>7, <4>1
    <3>2. CASE m # l
      <4>1. m \notin others /\ handler[m].alone = TRUE /\ Busy(m)
        BY <1>6, <1>9, <2>1, <3>2
      <4>2. handler[m].key # k
        BY <1>7, <3>2, <4>1
      <4>3. o # l /\ Busy(o) /\ handler[o].key = handler[m].key
        BY <1>1, <1>6, <1>9, <2>1, <3>2, <4>2
      <4> QED
        BY <1>0, <2>1, <4>1, <4>3 DEF Alone
    <3> QED
      BY <3>1, <3>2
  <2> QED
    BY <2>1 DEF Alone
<1>12. Counted'
  <2>1. ASSUME NEW m \in Lines, handler'[m].pc = "read"
        PROVE  /\ handler'[m].n <= Len(evidence'[handler'[m].key])
               /\ handler'[m].alone = TRUE => handler'[m].n = Len(evidence'[handler'[m].key])
    <3>1. m # l /\ handler[m].pc = "read" /\ Busy(m)
      BY <1>3, <1>5, <1>6, <2>1 DEF Busy, Ingesting
    <3>2. PICK j : j = handler[m].key /\ j \in Keys
      BY <1>0 DEF HandlersTyped, Ingest
    <3>3. handler[m].n <= Len(evidence[j]) /\ (handler[m].alone = TRUE => handler[m].n = Len(evidence[j]))
      BY <1>0, <3>1, <3>2 DEF Counted
    <3>4. handler'[m].key = j /\ handler'[m].n = handler[m].n /\ handler[m].n \in Nat
      <4>1. handler[m] \in Ingest
        BY <1>0 DEF HandlersTyped
      <4> QED
        BY <1>6, <3>1, <3>2, <4>1 DEF Ingest
    <3>5. CASE j = k
      <4>1. handler'[m].alone = FALSE
        BY <1>6, <1>7, <3>1, <3>2, <3>5
      <4>2. handler[m].n <= Len(evidence'[j])
        BY <1>8, <3>3, <3>4, <3>5
      <4> QED
        BY <3>4, <4>1, <4>2
    <3>6. CASE j # k
      <4>1. handler'[m].alone = handler[m].alone
        BY <1>6, <1>7, <3>1, <3>2, <3>6
      <4>2. evidence'[j] = evidence[j]
        BY <1>8, <3>2, <3>6
      <4> QED
        BY <3>3, <3>4, <4>1, <4>2
    <3> QED
      BY <3>5, <3>6
  <2> QED
    BY <2>1 DEF Counted
<1>13. Bounded'
  <2>1. ASSUME NEW j \in Keys
        PROVE  profile[j] <= Len(evidence'[j])
    <3>1. profile[j] <= Len(evidence[j]) /\ profile[j] \in Nat
      BY <1>0 DEF Bounded, StoresTyped
    <3>2. CASE j = k
      BY <1>8, <3>1, <3>2
    <3>3. CASE j # k
      BY <1>8, <3>1, <3>3
    <3> QED
      BY <3>2, <3>3
  <2> QED
    BY <1>4, <2>1 DEF Bounded
<1>14. Quiet'
  <2>1. ASSUME NEW j \in Keys, j \notin excused, \A m \in Lines : handler'[m].key = j => ~Busy(m)'
        PROVE  profile[j] = Len(evidence'[j])
    <3>1. j # k
      BY <1>1, <1>6, <1>10, <2>1
    <3>2. \A m \in Lines : handler[m].key = j => ~Busy(m)
      BY <1>6, <1>9, <1>10, <2>1
    <3> QED
      BY <1>0, <1>8, <2>1, <3>1, <3>2 DEF Quiet
  <2> QED
    BY <1>4, <2>1 DEF Quiet
<1> QED
  BY <1>11, <1>12, <1>13, <1>14 DEF Profiled

LEMMA ReadProfiled ==
  ASSUME Typed, Profiled, NEW l \in Lines, ReadEvidence(l)
  PROVE  Profiled'
<1>0. HandlersTyped /\ StoresTyped /\ Alone /\ Counted /\ Bounded /\ Quiet
  BY DEF Typed, Profiled
<1>1. PICK r : /\ handler[l].pc = "added" /\ Goes(l, r, {}) /\ r.pc = "read"
               /\ r.n = Len(evidence[handler[l].key]) /\ r.alone = handler[l].alone
               /\ evidence' = evidence /\ profile' = profile /\ excused' = excused
  BY ReadEvidenceGoes
<1>2. PICK k \in Keys : k = handler[l].key
  BY <1>0 DEF HandlersTyped, Ingest
<1>3. /\ handler'[l] = r /\ r.key = k /\ r.n = Len(evidence[k]) /\ Len(evidence[k]) \in Nat
  BY <1>0, <1>1, <1>2 DEF Goes, StoresTyped
<1>4. \A o \in Lines :
        /\ handler'[o].key = handler[o].key
        /\ o # l => /\ handler'[o].pc = handler[o].pc /\ handler'[o].n = handler[o].n
                    /\ handler'[o].alone = handler[o].alone
  BY <1>0, <1>1, GoesAlone
<1>5. \A o \in Lines : /\ Busy(o)' <=> Busy(o)
                       /\ handler'[o].alone = handler[o].alone
  BY <1>1, <1>3, <1>4 DEF Busy, Ingesting
<1>6. Alone'
  <2>1. ASSUME NEW m \in Lines, NEW o \in Lines, Busy(m)', handler'[m].alone = TRUE, o # m,
               handler'[o].key = handler'[m].key, Busy(o)'
        PROVE  FALSE
    <3>1. Busy(m) /\ handler[m].alone = TRUE /\ handler[o].key = handler[m].key /\ Busy(o)
      BY <1>4, <1>5, <2>1
    <3> QED
      BY <1>0, <2>1, <3>1 DEF Alone
  <2> QED
    BY <2>1 DEF Alone
<1>7. Counted'
  <2>1. ASSUME NEW m \in Lines, handler'[m].pc = "read"
        PROVE  /\ handler'[m].n <= Len(evidence[handler'[m].key])
               /\ handler'[m].alone = TRUE => handler'[m].n = Len(evidence[handler'[m].key])
    <3>1. CASE m = l
      BY <1>3, <3>1
    <3>2. CASE m # l
      <4>1. /\ handler[m].pc = "read" /\ handler'[m].key = handler[m].key
            /\ handler'[m].n = handler[m].n /\ handler'[m].alone = handler[m].alone
        BY <1>4, <2>1, <3>2
      <4> QED
        BY <1>0, <4>1 DEF Counted
    <3> QED
      BY <3>1, <3>2
  <2> QED
    BY <1>1, <2>1 DEF Counted
<1>8. Bounded'
  BY <1>0, <1>1 DEF Bounded
<1>9. Quiet'
  <2>1. ASSUME NEW j \in Keys, j \notin excused, \A m \in Lines : handler'[m].key = j => ~Busy(m)'
        PROVE  profile[j] = Len(evidence[j])
    <3>1. \A m \in Lines : handler[m].key = j => ~Busy(m)
      BY <1>4, <1>5, <2>1
    <3> QED
      BY <1>0, <2>1, <3>1 DEF Quiet
  <2> QED
    BY <1>1, <2>1 DEF Quiet
<1> QED
  BY <1>6, <1>7, <1>8, <1>9 DEF Profiled

LEMMA UpsertProfiled ==
  ASSUME Typed, Profiled, NEW l \in Lines, UpsertProfile(l)
  PROVE  Profiled'
<1>0. HandlersTyped /\ StoresTyped /\ Alone /\ Counted /\ Bounded /\ Quiet
  BY DEF Typed, Profiled
<1>1. PICK h, k, n : h = handler[l] /\ k = h.key /\ n = h.n
  OBVIOUS
<1>2. k \in Keys /\ n \in Nat /\ h.alone \in BOOLEAN
  <2>1. h \in Ingest
    BY <1>0, <1>1 DEF HandlersTyped
  <2> QED
    BY <1>1, <2>1 DEF Ingest
<1>3. PICK r : /\ h.pc = "read" /\ Goes(l, r, {}) /\ r.pc = "profiled"
               /\ profile' = [profile EXCEPT ![k] = n]
               /\ excused' = IF h.alone THEN excused \ {k} ELSE excused \cup {k}
               /\ evidence' = evidence
  BY <1>1, UpsertGoes
<1>4. handler'[l] = r /\ Busy(l) /\ ~Busy(l)'
  BY <1>1, <1>3 DEF Goes, Busy, Ingesting
<1>5. \A o \in Lines :
        /\ handler'[o].key = handler[o].key
        /\ o # l => /\ handler'[o].pc = handler[o].pc /\ handler'[o].n = handler[o].n
                    /\ handler'[o].alone = handler[o].alone
  BY <1>0, <1>3, GoesAlone
<1>6. \A o \in Lines : o # l => (Busy(o)' <=> Busy(o))
  BY <1>5 DEF Busy
<1>7. n <= Len(evidence[k]) /\ (h.alone = TRUE => n = Len(evidence[k]))
  BY <1>0, <1>1, <1>3 DEF Counted
<1>8. profile'[k] = n /\ \A j \in Keys : j # k => profile'[j] = profile[j]
  BY <1>0, <1>2, <1>3 DEF StoresTyped
<1>9. Alone'
  <2>1. ASSUME NEW m \in Lines, NEW o \in Lines, Busy(m)', handler'[m].alone = TRUE, o # m,
               handler'[o].key = handler'[m].key, Busy(o)'
        PROVE  FALSE
    <3>1. Busy(m) /\ handler[m].alone = TRUE /\ handler[o].key = handler[m].key /\ Busy(o)
      BY <1>4, <1>5, <1>6, <2>1
    <3> QED
      BY <1>0, <2>1, <3>1 DEF Alone
  <2> QED
    BY <2>1 DEF Alone
<1>10. Counted'
  <2>1. ASSUME NEW m \in Lines, handler'[m].pc = "read"
        PROVE  /\ handler[m].pc = "read" /\ handler'[m].key = handler[m].key
               /\ handler'[m].n = handler[m].n /\ handler'[m].alone = handler[m].alone
    <3>1. m # l
      BY <1>4, <2>1 DEF Busy, Ingesting
    <3> QED
      BY <1>5, <2>1, <3>1
  <2> QED
    BY <1>0, <1>3, <2>1 DEF Counted
<1>11. Bounded'
  <2>1. \A j \in Keys : profile'[j] <= Len(evidence[j])
    BY <1>0, <1>7, <1>8 DEF Bounded
  <2> QED
    BY <1>3, <2>1 DEF Bounded
<1>12. Quiet'
  <2>1. ASSUME NEW j \in Keys, j \notin excused', \A m \in Lines : handler'[m].key = j => ~Busy(m)'
        PROVE  profile'[j] = Len(evidence[j])
    <3>1. CASE j = k
      <4>1. h.alone = TRUE
        BY <1>2, <1>3, <2>1, <3>1
      <4> QED
        BY <1>7, <1>8, <3>1, <4>1
    <3>2. CASE j # k
      <4>1. j \notin excused
        BY <1>3, <2>1, <3>2
      <4>2. ASSUME NEW m \in Lines, handler[m].key = j
            PROVE  ~Busy(m)
        <5>1. m # l
          BY <1>1, <3>2, <4>2
        <5> QED
          BY <1>5, <1>6, <2>1, <4>2, <5>1
      <4> QED
        BY <1>0, <1>8, <3>2, <4>1, <4>2 DEF Quiet
    <3> QED
      BY <3>1, <3>2
  <2> QED
    BY <1>3, <2>1 DEF Quiet
<1> QED
  BY <1>9, <1>10, <1>11, <1>12 DEF Profiled

LEMMA ProfiledKept ==
  ASSUME Typed, Ledger, Profiled, [Next]_vars
  PROVE  Profiled'
<1>0. HandlersTyped
  BY DEF Typed
<1>1. CASE handler' = handler /\ evidence' = evidence /\ profile' = profile /\ excused' = excused
  BY <1>0, <1>1, ProfiledSame DEF Busy
<1>2. CASE Reading
  <2>1. CASE \E l \in Lines : Posts(l)
    <3>1. PICK l \in Lines : Posts(l)
      BY <2>1
    <3>2. /\ handler'[l].pc = "posted" /\ handler[l].pc = "none"
          /\ \A o \in Lines : o # l => handler'[o] = handler[o]
      BY <1>0, <3>1 DEF Posts, Posted, Handler, HandlersTyped
    <3>3. evidence' = evidence /\ profile' = profile /\ excused' = excused
      BY <1>2 DEF Reading
    <3>4. ~Busy(l) /\ ~Busy(l)'
      BY <3>2 DEF Busy, Ingesting
    <3>5. \A o \in Lines : Busy(o) /\ ~Busy(o)' => FALSE
      BY <3>2, <3>4 DEF Busy
    <3>6. \A o \in Lines : Busy(o)' => handler'[o] = handler[o]
      BY <3>2, <3>4
    <3> QED
      BY <1>0, <3>3, <3>5, <3>6, ProfiledSame
  <2>2. CASE handler' = handler
    BY <1>1, <1>2, <2>2 DEF Reading
  <2> QED
    BY <1>2, <2>1, <2>2, ReadingKeeps
\* A handler leaves, or has left before, the part in which it ingests.
<1>3. ASSUME NEW l \in Lines, NEW r, Goes(l, r, {}), r.pc \in {"done", "failed"},
             evidence' = evidence, profile' = profile,
             excused' = IF Busy(l) THEN excused \cup {handler[l].key} ELSE excused
      PROVE  Profiled'
  <2>1. handler'[l] = r
    BY <1>3 DEF Goes
  <2>2. ~Busy(l)'
    BY <1>3, <2>1 DEF Busy, Ingesting
  <2>3. \A o \in Lines :
          o # l => /\ handler'[o].pc = handler[o].pc /\ handler'[o].n = handler[o].n
                   /\ handler'[o].alone = handler[o].alone /\ handler'[o].key = handler[o].key
    BY <1>0, <1>3, GoesAlone
  <2>4. \A o \in Lines : o # l => (Busy(o)' <=> Busy(o))
    BY <2>3 DEF Busy
  <2>5. \A o \in Lines : Busy(o) /\ ~Busy(o)' => handler[o].key \in excused'
    BY <1>3, <2>4
  <2>6. \A o \in Lines : Busy(o)' =>
           /\ handler'[o].pc = handler[o].pc /\ handler'[o].key = handler[o].key
           /\ handler'[o].n = handler[o].n /\ handler'[o].alone = handler[o].alone
    BY <2>2, <2>3
  <2>7. excused \subseteq excused'
    BY <1>3
  <2> QED
    BY <1>0, <1>3, <2>5, <2>6, <2>7, ProfiledSame
<1>4. CASE Handling
  <2>1. PICK l \in Lines : Handle(l) \/ \E crash \in BOOLEAN : BreaksOff(l, crash)
    BY <1>4 DEF Handling
  <2>2. CASE AddObservation(l)
    <3>1. PICK r : /\ handler[l].pc = "profiled" /\ Goes(l, r, {}) /\ r.pc = "done"
                   /\ evidence' = evidence /\ profile' = profile /\ excused' = excused
      BY <2>2, ObservationGoes
    <3>2. ~Busy(l)
      BY <3>1 DEF Busy, Ingesting
    <3> QED
      BY <1>3, <3>1, <3>2
  <2>3. CASE \E crash \in BOOLEAN : BreaksOff(l, crash)
    <3>1. PICK r : /\ Goes(l, r, {}) /\ r.pc = "failed"
                   /\ evidence' = evidence /\ profile' = profile
                   /\ excused' = IF handler[l].pc \in Ingesting THEN excused \cup {handler[l].key}
                                 ELSE excused
      BY <2>3, BreaksOffGoes
    <3>2. excused' = IF Busy(l) THEN excused \cup {handler[l].key} ELSE excused
      BY <3>1 DEF Busy
    <3> QED
      BY <1>3, <3>1, <3>2
  <2> QED
    BY <2>1, <2>2, <2>3, AddProfiled, ReadProfiled, UpsertProfiled DEF Handle
<1>5. CASE Logging \/ Tending \/ Networking \/ UNCHANGED vars
  BY <1>1, <1>5 DEF Logging, Tending, Networking, vars, stores
<1> QED
  BY <1>2, <1>4, <1>5, Sorted

-------------------------------------------------------------------------------
(* The theorems.                                                             *)

TelemetryInv == Typed /\ Invited /\ Ledger /\ Filing /\ Tied /\ Blamed /\ Profiled

LEMMA InitInv == Init => TelemetryInv
<1> SUFFICES ASSUME Init PROVE TelemetryInv
  OBVIOUS
<1>1. Typed /\ Ledger
  BY InitTyped
<1>2. \A l \in Lines : handler[l].pc = "none"
  <2>1. PICK r : r = Idle
    OBVIOUS
  <2>2. r.pc = "none"
    BY <2>1 DEF Idle, Handler
  <2> QED
    BY <2>1, <2>2 DEF Init
<1>3. \A k \in Keys : Len(evidence[k]) = 0 /\ profile[k] = 0
  BY DEF Init
<1>4. \A k \in Keys, i \in Nat : ~Within(k, i)
  BY <1>3 DEF Within
<1>5. Filing
  <2>1. Filed /\ NoRepeats
    BY <1>4 DEF Filed, NoRepeats
  <2>2. Remains
    BY <1>2 DEF Remains
  <2>3. Seen
    BY DEF Init, Seen
  <2> QED
    BY <2>1, <2>2, <2>3 DEF Filing
<1>6. Invited /\ Tied /\ Blamed
  <2>1. Len(lines) = 0
    BY DEF Init
  <2>2. \A l \in Lines : l \notin 1..Len(lines)
    BY <2>1 DEF Lines
  <2> QED
    BY <1>2, <2>2 DEF Invited, Tied, Blamed
<1>7. Profiled
  <2>1. \A l \in Lines : ~Busy(l) /\ handler[l].pc # "read"
    BY <1>2 DEF Busy, Ingesting
  <2> QED
    BY <1>3, <2>1 DEF Profiled, Alone, Counted, Bounded, Quiet
<1> QED
  BY <1>1, <1>5, <1>6, <1>7 DEF TelemetryInv

\* The inductive invariant: types, text that only guests log, what forwarders have
\* ahead of them, evidence filed once by its handler, lines tied to their route until
\* they are read, and ingests that know whether they are alone.
THEOREM TelemetryInvariant ==
  ASSUME FromStart = FALSE
  PROVE  Spec => []TelemetryInv
<1>1. Init => TelemetryInv
  BY InitInv
<1>2. TelemetryInv /\ [Next]_vars => TelemetryInv'
  BY InvitedKept, LedgerKept, FilingKept, BlameKept, ProfiledKept DEF TelemetryInv
<1> QED
  BY <1>1, <1>2, PTL DEF Spec

\* Types, and where forwarders are in their files.
THEOREM TelemetryTypeCorrect ==
  ASSUME FromStart = FALSE
  PROVE  Spec => []TypeOK
<1>1. TelemetryInv => TypeOK
  <2> SUFFICES ASSUME TelemetryInv PROVE TypeOK
    OBVIOUS
  <2>1. LogsTyped /\ FwdTyped /\ HandlersTyped /\ StoresTyped /\ Waiting
    BY DEF TelemetryInv, Typed, Ledger
  <2>2. ASSUME NEW f \in Feeds
        PROVE  /\ fwd[f].phase \in {"down", "poll", "read", "wait"}
               /\ fwd[f].file \in DOMAIN files[f]
               /\ fwd[f].phase = "wait" => fwd[f].line \in DOMAIN lines
    <3>1. DOMAIN files[f] = 1..Len(files[f]) /\ DOMAIN lines = 1..Len(lines)
      BY <2>1 DEF LogsTyped
    <3>2. fwd[f].phase \in {"down", "poll", "read", "wait"}
      BY <2>1 DEF FwdTyped, Forwarder
    <3> QED
      BY <2>1, <3>1, <3>2 DEF FwdTyped, Waiting
  <2>3. \A l \in Lines : handler[l].pc \in InFlight \cup {"none", "done", "failed"}
    BY <2>1 DEF HandlersTyped, Ingest
  <2>4. \A k \in Keys : evidence[k] \in Seq(Lines) /\ profile[k] \in Nat
    BY <2>1 DEF StoresTyped
  <2> QED
    BY <2>2, <2>3, <2>4 DEF TypeOK
<1> QED
  BY <1>1, TelemetryInvariant, PTL

\* What a sensor writes makes evidence at most once, for one attacker, whatever becomes
\* of logs, forwarders and adapters; only text is evidence by the half; and what was
\* observed has its evidence.
THEOREM OnceAtMostTheorem ==
  ASSUME FromStart = FALSE
  PROVE  Spec => []OnceAtMost
<1>1. TelemetryInv => OnceAtMost
  <2> SUFFICES ASSUME TelemetryInv PROVE OnceAtMost
    OBVIOUS
  <2>1. Filed /\ NoRepeats /\ Seen /\ StoresTyped /\ Blamed
    BY DEF TelemetryInv, Filing, Typed
  <2>2. ASSUME NEW k \in Keys, NEW i \in DOMAIN evidence[k]
        PROVE  i \in Nat /\ Within(k, i)
    BY <2>1 DEF StoresTyped, Within
  <2>3. ASSUME NEW j \in Keys, NEW k \in Keys,
               NEW i \in DOMAIN evidence[k], NEW h \in DOMAIN evidence[j],
               evidence[k][i] = evidence[j][h]
        PROVE  j = k /\ i = h
    <3>1. i \in Nat /\ Within(k, i) /\ h \in Nat /\ Within(j, h)
      BY <2>2
    <3>2. j = k
      BY <2>1, <2>3, <3>1 DEF Filed
    <3> QED
      BY <2>1, <2>3, <3>1, <3>2 DEF NoRepeats
  <2>4. ASSUME NEW l \in DOMAIN lines, Stored(l), lines[l].part = "tail"
        PROVE  lines[l].feed \in Plain
    <3>1. PICK k \in Keys : \E i \in DOMAIN evidence[k] : evidence[k][i] = l
      BY <2>4 DEF Stored
    <3>2. PICK i \in DOMAIN evidence[k] : evidence[k][i] = l
      BY <3>1
    <3>3. i \in Nat /\ Within(k, i) /\ l \in Lines
      BY <2>1, <2>2, <3>2 DEF StoresTyped
    <3>4. handler[l].pc # "none"
      BY <2>1, <3>2, <3>3 DEF Filed
    <3> QED
      BY <2>1, <2>4, <3>3, <3>4 DEF Blamed, Readable
  <2> QED
    BY <2>1, <2>3, <2>4 DEF OnceAtMost, Seen
<1> QED
  BY <1>1, TelemetryInvariant, PTL

\* Evidence is put to no other attacker's account than that of whoever did what its
\* line says, unless the backend's address was not the one in its route when the line
\* was written or until it was read.
THEOREM NobodyElsesDoingTheorem ==
  ASSUME FromStart = FALSE
  PROVE  Spec => []NobodyElsesDoing
<1>1. TelemetryInv => NobodyElsesDoing
  <2> SUFFICES ASSUME TelemetryInv, NEW a \in Attackers, NEW i \in DOMAIN evidence[a]
               PROVE  lines[evidence[a][i]].who = a \/ evidence[a][i] \in moved
    BY DEF NobodyElsesDoing
  <2>1. Filed /\ Blamed /\ StoresTyped /\ a \in Keys
    BY DEF TelemetryInv, Filing, Typed, Keys
  <2>2. i \in Nat /\ Within(a, i)
    BY <2>1 DEF StoresTyped, Within
  <2>3. PICK l \in Lines : l = evidence[a][i]
    BY <2>1 DEF StoresTyped
  <2>4. handler[l].pc # "none" /\ handler[l].key = a
    BY <2>1, <2>2, <2>3 DEF Filed
  <2> QED
    BY <2>1, <2>3, <2>4 DEF Blamed
<1> QED
  BY <1>1, TelemetryInvariant, PTL

\* An attacker whose last ingest was alone, and who has none running, has a profile
\* of all the evidence there is.
THEOREM QuietProfileTheorem ==
  ASSUME FromStart = FALSE
  PROVE  Spec => []QuietProfile
<1>1. TelemetryInv => QuietProfile
  BY DEF TelemetryInv, Profiled, Bounded, Quiet, Busy, QuietProfile
<1> QED
  BY <1>1, TelemetryInvariant, PTL
===============================================================================
