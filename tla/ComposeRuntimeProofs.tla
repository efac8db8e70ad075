-------------------------- MODULE ComposeRuntimeProofs --------------------------
(***************************************************************************)
(* What holds of compose assets for any catalog, any number of services    *)
(* and of requests, whichever docker commands fail, containers die or      *)
(* crashes cut a start off: what is shown can be reached, and no project   *)
(* is left behind unaccounted for.                                         *)
(***************************************************************************)
EXTENDS ComposeRuntime, SequenceTheorems, TLAPS

USE ComposeAssumption

\* The phases of a start of a compose asset, and those in which its containers may
\* be up already.
Building == {"up", "ps", "connect", "check", "down", "route", "record"}
Standing == Building \ {"up"}

\* The container a route leads to is there, on the gateway's network.
Connected(x) ==
  /\ container[x][Target] # "missing"
  /\ x \in Networked => Target \in attached[x]

\* A record that says "running" is right, hidden or not, unless a recycle is taking
\* its project down.
RecordsStand ==
  \A i \in DOMAIN records :
    LET x == records[i].asset IN
    x \in Composed \ torn /\ records[i].status = "running" =>
      /\ Connected(x)
      /\ ~records[i].hidden => x \in unlocked /\ x \in routed

\* What a request has made sure of by the phase it is in.
Course ==
  /\ call.phase \in Building \cup {"fail", "attach", "unhide", "marking"} => call.asset \in Composed
  /\ call.phase = "find" => call.asset \in Assets
  /\ call.phase \in Building \cup {"attach", "unhide", "find"} /\ ~call.warm => call.asset \in unlocked
  /\ call.phase \in Building \cup {"fail"} => Running(call.asset) = {}
  /\ call.phase \in {"attach", "unhide"} => ~call.warm
  /\ call.phase = "unhide" => call.asset \in routed
  /\ call.phase \in {"check", "down", "route", "record"} /\ call.asset \in Networked =>
       Existing(call.asset) \subseteq attached[call.asset]
  /\ call.phase \in {"route", "record"} => Connected(call.asset)
  /\ call.phase = "record" /\ ~call.warm => call.asset \in routed

Accounted ==
  \A x \in Composed :
    Existing(x) # {} =>
      Running(x) # {} \/ x \in remnant \/ (call.phase \in Standing /\ call.asset = x)

\* A recycle has every running compose record on its list.
Stopping ==
  /\ call.phase \in {"stopping", "marking"} => Stops \subseteq call.stops
  /\ call.stops \subseteq DOMAIN records
  /\ \A i \in call.stops : records[i].asset \in Composed
  /\ call.phase = "marking" =>
       call.asset \in torn /\ (Existing(call.asset) # {} => call.asset \in remnant)

ComposeInv == TypeOK /\ RecordsStand /\ Course /\ Accounted /\ Stopping

LEMMA InitStands == Init => ComposeInv
BY DEF Init, ComposeInv, TypeOK, RecordsStand, Course, Accounted, Stopping, Idle, Phases,
       Existing, Building, Standing, Assets

-------------------------------------------------------------------------------
(* What the helpers of the actions yield.                                    *)

Calls == [phase : Phases, asset : Assets \cup {"none"}, warm : BOOLEAN, stops : SUBSET Nat]
Counts == [{"requests", "failures", "exits", "crashes"} -> Nat]

LEMMA SpendCounts ==
  ASSUME spent \in Counts, NEW what \in {"requests", "failures", "exits", "crashes"},
         NEW bound, Spend(what, bound)
  PROVE  spent' \in Counts
BY DEF Spend, Counts

LEMMA GotoCall ==
  ASSUME call \in Calls, NEW phase \in Phases, Goto(phase)
  PROVE  /\ call' \in Calls /\ call'.phase = phase
         /\ call'.asset = call.asset /\ call'.warm = call.warm /\ call'.stops = call.stops
BY DEF Goto, Calls

LEMMA EndedCall ==
  Ended \in Calls /\ Ended.phase \in {"idle", "syncing"} /\ Ended.stops = {}
BY DEF Ended, Idle, Calls, Phases

LEMMA GiveUpCall ==
  ASSUME call \in Calls, spent \in Counts, remnant \in SUBSET Composed, call.asset \in Composed, GiveUp
  PROVE  /\ call' \in Calls /\ call'.phase = "fail" /\ spent' \in Counts
         /\ call'.asset = call.asset /\ call'.warm = call.warm /\ call'.stops = call.stops
         /\ remnant' \in SUBSET Composed
<1>1. Goto("fail") /\ Spend("failures", MaxFailures)
  BY DEF GiveUp
<1>2. spent' \in Counts
  BY <1>1, SpendCounts
<1>3. "fail" \in Phases
  BY DEF Phases
<1> QED
  BY <1>1, <1>2, <1>3, GotoCall DEF GiveUp

LEMMA AppendedRecord ==
  ASSUME records \in Seq(Record), NEW r \in Record, records' = Append(records, r)
  PROVE  /\ records' \in Seq(Record)
         /\ DOMAIN records' = DOMAIN records \cup {Len(records) + 1}
         /\ \A i \in DOMAIN records : records'[i] = records[i]
         /\ records'[Len(records) + 1] = r
OBVIOUS

LEMMA RewrittenRecords ==
  ASSUME records \in Seq(Record), records' = [i \in DOMAIN records |-> records'[i]],
         \A i \in DOMAIN records : records'[i] \in Record
  PROVE  records' \in Seq(Record)
<1>1. DOMAIN records = 1..Len(records) /\ Len(records) \in Nat
  OBVIOUS
<1> QED
  BY <1>1

LEMMA KnownRecords == TypeOK => \A i \in DOMAIN records : records[i] \in Record
BY DEF TypeOK

LEMMA GoneProject ==
  ASSUME TypeOK, NEW x \in Composed, Gone(x)
  PROVE  /\ container' \in [Composed -> [Services -> {"missing", "exited", "up"}]]
         /\ attached' \in [Composed -> SUBSET Services]
<1>1. [s \in Services |-> "missing"] \in [Services -> {"missing", "exited", "up"}]
  OBVIOUS
<1> QED
  BY <1>1 DEF TypeOK, Gone

-------------------------------------------------------------------------------
(* Every step keeps the invariant.                                           *)

LEMMA UnlockStep ==
  ASSUME ComposeInv, NEW x \in Assets, Unlock(x)
  PROVE  ComposeInv'
<1> USE DEF ComposeInv
<1>1. TypeOK'
  BY DEF TypeOK, Course, Phases, Building, Assets, At, Goto, Spend, Idle, Unlock, Starting
<1>2. RecordsStand'
  BY DEF TypeOK, RecordsStand, Course, Building, Connected, Running, Assets, At, Goto, Spend,
     Idle, Unlock, Starting, Existing
<1>3. Course'
  BY DEF TypeOK, RecordsStand, Course, Building, Connected, Running, Assets, At, Goto, Spend,
     Idle, Unlock, Starting, Existing, Phases
<1>4. Accounted'
  BY DEF TypeOK, Course, Accounted, Standing, Building, Running, Assets, At, Goto, Spend, Idle,
     Unlock, Starting, Existing, Stopping, Stops
<1>5. Stopping'
  BY DEF TypeOK, Course, Building, Running, Assets, At, Goto, Spend, Idle, Unlock, Starting,
     Existing, Stopping, Stops
<1> QED
  BY <1>1, <1>2, <1>3, <1>4, <1>5

LEMMA PrewarmStep ==
  ASSUME ComposeInv, NEW x \in Assets, Prewarm(x)
  PROVE  ComposeInv'
<1> USE DEF ComposeInv
<1>1. TypeOK'
  BY DEF TypeOK, Course, Phases, Building, Assets, At, Goto, Spend, Idle, Prewarm, Starting
<1>2. RecordsStand'
  BY DEF TypeOK, RecordsStand, Course, Building, Connected, Running, Assets, At, Goto, Spend,
     Idle, Prewarm, Starting, Existing
<1>3. Course'
  BY DEF TypeOK, RecordsStand, Course, Building, Connected, Running, Assets, At, Goto, Spend,
     Idle, Prewarm, Starting, Existing, Phases
<1>4. Accounted'
  BY DEF TypeOK, Course, Accounted, Standing, Building, Running, Assets, At, Goto, Spend, Idle,
     Prewarm, Starting, Existing, Stopping, Stops
<1>5. Stopping'
  BY DEF TypeOK, Course, Building, Running, Assets, At, Goto, Spend, Idle, Prewarm, Starting,
     Existing, Stopping, Stops
<1> QED
  BY <1>1, <1>2, <1>3, <1>4, <1>5

LEMMA StartMockStep ==
  ASSUME ComposeInv, StartMock
  PROVE  ComposeInv'
<1> USE DEF ComposeInv
<1>1. TypeOK'
  <2>1. call \in Calls /\ spent \in Counts
    BY DEF TypeOK, Calls, Counts
  <2>2. call.asset \in Mock /\ call.warm \in BOOLEAN
    BY <2>1 DEF StartMock, Calls
  <2>3. [asset |-> call.asset, status |-> "running", hidden |-> call.warm] \in Record
    BY <2>2 DEF Record, Assets
  <2>4. records' \in Seq(Record)
    BY <2>3, AppendedRecord DEF StartMock, TypeOK
  <2> QED
    BY <2>4, EndedCall DEF TypeOK, StartMock, Calls
<1>2. RecordsStand'
  <2> DEFINE rec == [asset |-> call.asset, status |-> "running", hidden |-> call.warm]
  <2>1. rec \in Record /\ rec.asset \notin Composed
    BY ComposeAssumption DEF TypeOK, StartMock, At, Course, Building, Record, Assets
  <2>2. \A i \in DOMAIN records' :
          \/ i \in DOMAIN records /\ records'[i] = records[i]
          \/ records'[i] = rec
    <3>1. CASE records' = records
      BY <3>1
    <3>2. CASE records' = Append(records, rec)
      BY <2>1, <3>2, AppendedRecord DEF TypeOK
    <3> QED
      BY <3>1, <3>2 DEF StartMock
  <2>3. \A x \in Composed : Connected(x)' = Connected(x)
    BY DEF Connected, StartMock
  <2>4. ASSUME NEW x \in Composed \ torn', NEW i \in DOMAIN records',
               records'[i].asset = x, (records'[i].status = "running")
        PROVE  Connected(x)' /\ (~records'[i].hidden => x \in unlocked' /\ x \in routed')
    <3>1. i \in DOMAIN records /\ records'[i] = records[i]
      BY <2>1, <2>2, <2>4
    <3>2. x \in Composed \ torn /\ unlocked' = unlocked /\ routed' = routed
      BY <2>4 DEF StartMock
    <3>3. Connected(x) /\ (~records[i].hidden => x \in unlocked /\ x \in routed)
      BY <2>4, <3>1, <3>2 DEF RecordsStand
    <3> QED
      BY <2>3, <3>1, <3>2, <3>3
  <2> QED
    BY <2>4 DEF RecordsStand, Connected
<1>3. Course'
  BY DEF TypeOK, RecordsStand, Course, Building, Connected, Running, Assets, At, Goto, Spend,
     Idle, StartMock, Ended, Record, Existing, Phases
<1>4. Accounted'
  <2>1. [asset |-> call.asset, status |-> "running", hidden |-> call.warm] \in Record
    BY DEF TypeOK, StartMock, At, Course, Building, Record, Assets
  <2>2. /\ DOMAIN records \subseteq DOMAIN records'
        /\ \A i \in DOMAIN records : records'[i] = records[i]
    BY <2>1, AppendedRecord DEF StartMock, TypeOK
  <2>3. \A x \in Composed : Running(x) # {} => Running(x)' # {}
    BY <2>2 DEF Running
  <2> QED
    BY <2>3 DEF Accounted, StartMock, Existing, At, Standing, Building
<1>5. Stopping'
  BY DEF TypeOK, Course, Building, Running, Assets, At, Goto, Spend, Idle, StartMock, Ended,
     Record, Existing, Stopping, Stops
<1> QED
  BY <1>1, <1>2, <1>3, <1>4, <1>5

LEMMA FindStep ==
  ASSUME ComposeInv, Find
  PROVE  ComposeInv'
<1> USE DEF ComposeInv
<1>1. TypeOK'
  BY DEF TypeOK, Course, Phases, Building, Assets, At, Goto, Spend, Idle, Find, Ended
<1>2. RecordsStand'
  BY DEF TypeOK, RecordsStand, Course, Building, Connected, Running, Assets, At, Goto, Spend,
     Idle, Find, Ended, Existing
<1>3. Course'
  BY DEF TypeOK, RecordsStand, Course, Building, Connected, Running, Assets, At, Goto, Spend,
     Idle, Find, Ended, Existing, Phases
<1>4. Accounted'
  BY DEF TypeOK, Course, Accounted, Standing, Building, Running, Assets, At, Goto, Spend, Idle,
     Find, Ended, Existing, Stopping, Stops
<1>5. Stopping'
  BY DEF TypeOK, Course, Building, Running, Assets, At, Goto, Spend, Idle, Find, Ended,
     Existing, Stopping, Stops
<1> QED
  BY <1>1, <1>2, <1>3, <1>4, <1>5

LEMMA AttachStep ==
  ASSUME ComposeInv, Attach
  PROVE  ComposeInv'
<1> USE DEF ComposeInv
<1>1. TypeOK'
  BY DEF TypeOK, Course, Phases, Building, Assets, At, Goto, Spend, Idle, Attach
<1>2. RecordsStand'
  BY DEF TypeOK, RecordsStand, Course, Building, Connected, Running, Assets, At, Goto, Spend,
     Idle, Attach, Existing
<1>3. Course'
  BY DEF TypeOK, RecordsStand, Course, Building, Connected, Running, Assets, At, Goto, Spend,
     Idle, Attach, Existing, Phases
<1>4. Accounted'
  BY DEF TypeOK, Course, Accounted, Standing, Building, Running, Assets, At, Goto, Spend, Idle,
     Attach, Existing, Stopping, Stops
<1>5. Stopping'
  BY DEF TypeOK, Course, Building, Running, Assets, At, Goto, Spend, Idle, Attach, Existing,
     Stopping, Stops
<1> QED
  BY <1>1, <1>2, <1>3, <1>4, <1>5

LEMMA UnhideStep ==
  ASSUME ComposeInv, Unhide
  PROVE  ComposeInv'
<1> USE DEF ComposeInv
<1>1. TypeOK'
  <2>1. call \in Calls /\ spent \in Counts
    BY DEF TypeOK, Calls, Counts
  <2>2. \A i \in DOMAIN records : [records[i] EXCEPT !.hidden = FALSE] \in Record
    BY KnownRecords DEF Record
  <2>3. records' \in Seq(Record)
    BY <2>2, KnownRecords, RewrittenRecords DEF Unhide, TypeOK
  <2> QED
    BY <2>3, EndedCall DEF TypeOK, Unhide, Calls
<1>2. RecordsStand'
  BY DEF TypeOK, RecordsStand, Course, Building, Connected, Running, Assets, At, Goto, Spend,
     Idle, Unhide, Ended, Record, Existing
<1>3. Course'
  BY DEF TypeOK, RecordsStand, Course, Building, Connected, Running, Assets, At, Goto, Spend,
     Idle, Unhide, Ended, Record, Existing, Phases
<1>4. Accounted'
  <2>1. \A i \in DOMAIN records : /\ records'[i].asset = records[i].asset
                                  /\ records'[i].status = records[i].status
    BY DEF TypeOK, Unhide, Record
  <2>2. \A x : Running(x)' = Running(x)
    BY <2>1 DEF Running, Unhide
  <2> QED
    BY <2>2, EndedCall DEF Accounted, Unhide, Existing, At, Standing, Building
<1>5. Stopping'
  BY DEF TypeOK, Course, Building, Running, Assets, At, Goto, Spend, Idle, Unhide, Ended,
     Record, Existing, Stopping, Stops
<1> QED
  BY <1>1, <1>2, <1>3, <1>4, <1>5

LEMMA UpStep ==
  ASSUME ComposeInv, Up
  PROVE  ComposeInv'
<1> USE DEF ComposeInv
<1>1. TypeOK'
  <2>1. call \in Calls /\ spent \in Counts
    BY DEF TypeOK, Calls, Counts
  <2>2. call.asset \in Composed
    BY DEF Up, At, Course, Building
  <2>3. container' \in [Composed -> [Services -> {"missing", "exited", "up"}]]
    BY <2>2 DEF Up, TypeOK
  <2>4. "ps" \in Phases
    BY DEF Phases
  <2>5. call' \in Calls /\ spent' \in Counts /\ remnant' \in SUBSET Composed
    BY <2>1, <2>2, <2>4, GotoCall, GiveUpCall DEF Up, TypeOK
  <2> QED
    BY <2>3, <2>5 DEF TypeOK, Up, Calls, Counts
<1>2. RecordsStand'
  BY DEF TypeOK, RecordsStand, Course, Building, Connected, Running, Assets, At, Goto, Spend,
     Idle, Up, GiveUp, Existing
<1>3. Course'
  BY DEF TypeOK, RecordsStand, Course, Building, Connected, Running, Assets, At, Goto, Spend,
     Idle, Up, GiveUp, Existing, Phases
<1>4. Accounted'
  BY SMTT(30) DEF TypeOK, Course, Accounted, Standing, Building, Running, Assets, At, Goto, Spend,
     Idle,
     Up, GiveUp, Existing, Stopping, Stops
<1>5. Stopping'
  BY SMTT(30) DEF TypeOK, Course, Building, Running, Assets, At, Goto, Spend, Idle, Up, GiveUp,
     Existing, Stopping, Stops
<1> QED
  BY <1>1, <1>2, <1>3, <1>4, <1>5

LEMMA ListContainersStep ==
  ASSUME ComposeInv, ListContainers
  PROVE  ComposeInv'
<1> USE DEF ComposeInv
<1>1. TypeOK'
  <2>1. call \in Calls /\ spent \in Counts
    BY DEF TypeOK, Calls, Counts
  <2>2. call.asset \in Composed
    BY DEF ListContainers, At, Course, Building
  <2>3. "connect" \in Phases /\ "check" \in Phases
    BY DEF Phases
  <2>4. call' \in Calls /\ spent' \in Counts /\ remnant' \in SUBSET Composed
    BY <2>1, <2>2, <2>3, GotoCall, GiveUpCall DEF ListContainers, TypeOK
  <2> QED
    BY <2>4 DEF TypeOK, ListContainers, Calls, Counts
<1>2. RecordsStand'
  BY DEF TypeOK, RecordsStand, Course, Building, Connected, Running, Assets, At, Goto, Spend,
     Idle, ListContainers, GiveUp, Existing
<1>3. Course'
  BY DEF TypeOK, RecordsStand, Course, Building, Connected, Running, Assets, At, Goto, Spend,
     Idle, ListContainers, GiveUp, Existing, Phases
<1>4. Accounted'
  BY DEF TypeOK, Course, Accounted, Standing, Building, Running, Assets, At, Goto, Spend, Idle,
     ListContainers, GiveUp, Existing, Stopping, Stops
<1>5. Stopping'
  BY DEF TypeOK, Course, Building, Running, Assets, At, Goto, Spend, Idle, ListContainers,
     GiveUp, Existing, Stopping, Stops
<1> QED
  BY <1>1, <1>2, <1>3, <1>4, <1>5

LEMMA ConnectStep ==
  ASSUME ComposeInv, Connect
  PROVE  ComposeInv'
<1> USE DEF ComposeInv
<1>1. TypeOK'
  <2>1. call \in Calls /\ spent \in Counts
    BY DEF TypeOK, Calls, Counts
  <2>2. call.asset \in Composed
    BY DEF Connect, At, Course, Building
  <2>3. "check" \in Phases
    BY DEF Phases
  <2>4. call' \in Calls /\ spent' \in Counts /\ remnant' \in SUBSET Composed
    BY <2>1, <2>2, <2>3, GotoCall, GiveUpCall DEF Connect, TypeOK
  <2>5. attached' \in [Composed -> SUBSET Services]
    BY <2>2 DEF Connect, TypeOK, Unconnected, Existing
  <2> QED
    BY <2>4, <2>5 DEF TypeOK, Connect, Calls, Counts
<1>2. RecordsStand'
  BY DEF TypeOK, RecordsStand, Course, Building, Connected, Running, Assets, At, Goto, Spend,
     Idle, Connect, GiveUp, Unconnected, Existing
<1>3. Course'
  <2>1. CASE \E s \in Unconnected(call.asset) : attached' = [attached EXCEPT ![call.asset] = @ \cup {s}]
    BY <2>1 DEF Course, Connect, TypeOK, At, Goto, GiveUp, Unconnected, Building, Connected,
       Running, Existing
  <2>2. CASE Unconnected(call.asset) = {} /\ Goto("check") /\ UNCHANGED <<attached, spent, remnant>>
    BY <2>2 DEF Course, Connect, TypeOK, At, Goto, Unconnected, Building, Connected, Running,
       Existing
  <2>3. CASE GiveUp /\ UNCHANGED attached
    BY <2>3 DEF Course, Connect, TypeOK, At, Goto, GiveUp, Building, Connected, Running,
       Existing
  <2> QED
    BY <2>1, <2>2, <2>3 DEF Connect
<1>4. Accounted'
  BY SMTT(30) DEF TypeOK, Course, Accounted, Standing, Building, Running, Assets, At, Goto, Spend,
     Idle,
     Connect, GiveUp, Unconnected, Existing, Stopping, Stops
<1>5. Stopping'
  BY SMTT(30) DEF TypeOK, Course, Building, Running, Assets, At, Goto, Spend, Idle, Connect,
     GiveUp,
     Unconnected, Existing, Stopping, Stops
<1> QED
  BY <1>1, <1>2, <1>3, <1>4, <1>5

LEMMA CheckStep ==
  ASSUME ComposeInv, Check
  PROVE  ComposeInv'
<1> USE DEF ComposeInv
<1>1. TypeOK'
  <2>1. call \in Calls /\ spent \in Counts
    BY DEF TypeOK, Calls, Counts
  <2>2. "route" \in Phases /\ "down" \in Phases
    BY DEF Phases
  <2>3. call' \in Calls /\ spent' \in Counts
    BY <2>1, <2>2, GotoCall, SpendCounts DEF Check
  <2> QED
    BY <2>3 DEF TypeOK, Check, Calls, Counts
<1>2. RecordsStand'
  BY DEF TypeOK, RecordsStand, Course, Building, Connected, Running, Assets, At, Goto, Spend,
     Idle, Check, AllUp, Existing
<1>3. Course'
  BY DEF TypeOK, RecordsStand, Course, Building, Connected, Running, Assets, At, Goto, Spend,
     Idle, Check, AllUp, Existing, Phases
<1>4. Accounted'
  BY DEF TypeOK, Course, Accounted, Standing, Building, Running, Assets, At, Goto, Spend, Idle,
     Check, AllUp, Existing, Stopping, Stops
<1>5. Stopping'
  BY DEF TypeOK, Course, Building, Running, Assets, At, Goto, Spend, Idle, Check, AllUp,
     Existing, Stopping, Stops
<1> QED
  BY <1>1, <1>2, <1>3, <1>4, <1>5

LEMMA DownStep ==
  ASSUME ComposeInv, Down
  PROVE  ComposeInv'
<1> USE DEF ComposeInv
<1>1. TypeOK'
  <2>1. call \in Calls /\ spent \in Counts
    BY DEF TypeOK, Calls, Counts
  <2>2. call.asset \in Composed
    BY DEF Down, At, Course, Building
  <2>3. "fail" \in Phases
    BY DEF Phases
  <2>4. call' \in Calls /\ spent' \in Counts
    BY <2>1, <2>3, GotoCall, SpendCounts DEF Down
  <2>5. /\ container' \in [Composed -> [Services -> {"missing", "exited", "up"}]]
        /\ attached' \in [Composed -> SUBSET Services]
        /\ remnant' \in SUBSET Composed
    BY <2>2, GoneProject DEF Down, TypeOK
  <2> QED
    BY <2>4, <2>5 DEF TypeOK, Down, Calls, Counts
<1>2. RecordsStand'
  BY DEF TypeOK, RecordsStand, Course, Building, Connected, Running, Assets, At, Goto, Spend,
     Idle, Down, Gone, Existing
<1>3. Course'
  BY DEF TypeOK, RecordsStand, Course, Building, Connected, Running, Assets, At, Goto, Spend,
     Idle, Down, Gone, Existing, Phases
<1>4. Accounted'
  BY SMTT(30) DEF TypeOK, Course, Accounted, Standing, Building, Running, Assets, At, Goto, Spend,
     Idle,
     Down, Gone, Existing, Stopping, Stops
<1>5. Stopping'
  BY DEF TypeOK, Course, Building, Running, Assets, At, Goto, Spend, Idle, Down, Gone,
     Existing, Stopping, Stops
<1> QED
  BY <1>1, <1>2, <1>3, <1>4, <1>5

LEMMA RouteStep ==
  ASSUME ComposeInv, Route
  PROVE  ComposeInv'
<1> USE DEF ComposeInv
<1>1. TypeOK'
  BY DEF TypeOK, Course, Phases, Building, Assets, At, Goto, Spend, Idle, Route
<1>2. RecordsStand'
  BY DEF TypeOK, RecordsStand, Course, Building, Connected, Running, Assets, At, Goto, Spend,
     Idle, Route, Existing
<1>3. Course'
  BY DEF TypeOK, RecordsStand, Course, Building, Connected, Running, Assets, At, Goto, Spend,
     Idle, Route, Existing, Phases
<1>4. Accounted'
  BY DEF TypeOK, Course, Accounted, Standing, Building, Running, Assets, At, Goto, Spend, Idle,
     Route, Existing, Stopping, Stops
<1>5. Stopping'
  BY DEF TypeOK, Course, Building, Running, Assets, At, Goto, Spend, Idle, Route, Existing,
     Stopping, Stops
<1> QED
  BY <1>1, <1>2, <1>3, <1>4, <1>5

LEMMA RecordRunningStep ==
  ASSUME ComposeInv, RecordRunning
  PROVE  ComposeInv'
<1> USE DEF ComposeInv
<1>1. TypeOK'
  <2>1. call \in Calls /\ spent \in Counts
    BY DEF TypeOK, Calls, Counts
  <2>2. call.asset \in Composed /\ call.warm \in BOOLEAN
    BY <2>1 DEF RecordRunning, At, Course, Building, Calls
  <2>3. [asset |-> call.asset, status |-> "running", hidden |-> call.warm] \in Record
    BY <2>2 DEF Record, Assets
  <2>4. records' \in Seq(Record)
    BY <2>3, AppendedRecord DEF RecordRunning, Recorded, TypeOK
  <2> QED
    BY <2>4, EndedCall DEF TypeOK, RecordRunning, Calls
<1>2. RecordsStand'
  BY DEF TypeOK, RecordsStand, Course, Building, Connected, Running, Assets, At, Goto, Spend,
     Idle, RecordRunning, Recorded, Ended, Record, Existing
<1>3. Course'
  BY DEF TypeOK, RecordsStand, Course, Building, Connected, Running, Assets, At, Goto, Spend,
     Idle, RecordRunning, Recorded, Ended, Record, Existing, Phases
<1>4. Accounted'
  <2>1. [asset |-> call.asset, status |-> "running", hidden |-> call.warm] \in Record
    BY DEF TypeOK, RecordRunning, At, Course, Building, Record, Assets
  <2>2. /\ DOMAIN records \subseteq DOMAIN records'
        /\ \A i \in DOMAIN records : records'[i] = records[i]
    BY <2>1, AppendedRecord DEF RecordRunning, TypeOK, Recorded
  <2>3. \A x \in Composed : Running(x) # {} => Running(x)' # {}
    BY <2>2 DEF Running
  <2>4. PICK a : a = call.asset
    OBVIOUS
  <2>5. Running(a)' # {}
    <3>1. /\ Len(records) + 1 \in DOMAIN records'
          /\ records'[Len(records) + 1] = [asset |-> call.asset, status |-> "running", hidden |-> call.warm]
      BY <2>1, AppendedRecord DEF RecordRunning, Recorded, TypeOK
    <3> QED
      BY <3>1, <2>4 DEF Running
  <2> QED
    BY <2>3, <2>4, <2>5 DEF Accounted, RecordRunning, Existing, At
<1>5. Stopping'
  BY DEF TypeOK, Course, Building, Running, Assets, At, Goto, Spend, Idle, RecordRunning,
     Recorded, Ended, Record, Existing, Stopping, Stops
<1> QED
  BY <1>1, <1>2, <1>3, <1>4, <1>5

LEMMA RecordFailedStep ==
  ASSUME ComposeInv, RecordFailed
  PROVE  ComposeInv'
<1> USE DEF ComposeInv
<1>1. TypeOK'
  <2>1. call \in Calls /\ spent \in Counts
    BY DEF TypeOK, Calls, Counts
  <2>2. call.asset \in Composed /\ call.warm \in BOOLEAN
    BY <2>1 DEF RecordFailed, At, Course, Building, Calls
  <2>3. [asset |-> call.asset, status |-> "failed", hidden |-> call.warm] \in Record
    BY <2>2 DEF Record, Assets
  <2>4. records' \in Seq(Record)
    BY <2>3, AppendedRecord DEF RecordFailed, Recorded, TypeOK
  <2> QED
    BY <2>4, EndedCall DEF TypeOK, RecordFailed, Calls
<1>2. RecordsStand'
  BY DEF TypeOK, RecordsStand, Course, Building, Connected, Running, Assets, At, Goto, Spend,
     Idle, RecordFailed, Recorded, Ended, Record, Existing
<1>3. Course'
  BY DEF TypeOK, RecordsStand, Course, Building, Connected, Running, Assets, At, Goto, Spend,
     Idle, RecordFailed, Recorded, Ended, Record, Existing, Phases
<1>4. Accounted'
  <2>1. [asset |-> call.asset, status |-> "failed", hidden |-> call.warm] \in Record
    BY DEF TypeOK, RecordFailed, At, Course, Building, Record, Assets
  <2>2. /\ DOMAIN records \subseteq DOMAIN records'
        /\ \A i \in DOMAIN records : records'[i] = records[i]
    BY <2>1, AppendedRecord DEF RecordFailed, TypeOK, Recorded
  <2>3. \A x \in Composed : Running(x) # {} => Running(x)' # {}
    BY <2>2 DEF Running
  <2> QED
    BY <2>3 DEF Accounted, RecordFailed, Existing, At, Standing, Building
<1>5. Stopping'
  BY DEF TypeOK, Course, Building, Running, Assets, At, Goto, Spend, Idle, RecordFailed,
     Recorded, Ended, Record, Existing, Stopping, Stops
<1> QED
  BY <1>1, <1>2, <1>3, <1>4, <1>5

LEMMA RecycleStep ==
  ASSUME ComposeInv, Recycle
  PROVE  ComposeInv'
<1> USE DEF ComposeInv
<1>1. TypeOK'
  <2>1. call \in Calls /\ spent \in Counts
    BY DEF TypeOK, Calls, Counts
  <2>2. Stops \in SUBSET Nat
    BY DEF TypeOK, Stops
  <2>3. call' \in Calls /\ spent' \in Counts
    BY <2>1, <2>2, SpendCounts DEF Recycle, Idle, Calls, Phases
  <2> QED
    BY <2>3 DEF TypeOK, Recycle, Calls, Counts
<1>2. RecordsStand'
  BY DEF TypeOK, RecordsStand, Course, Building, Connected, Running, Assets, At, Goto, Spend,
     Idle, Recycle, Existing
<1>3. Course'
  BY DEF TypeOK, RecordsStand, Course, Building, Connected, Running, Assets, At, Goto, Spend,
     Idle, Recycle, Existing, Phases
<1>4. Accounted'
  BY DEF TypeOK, Course, Accounted, Standing, Building, Running, Assets, At, Goto, Spend, Idle,
     Recycle, Existing, Stopping, Stops
<1>5. Stopping'
  BY DEF TypeOK, Course, Building, Running, Assets, At, Goto, Spend, Idle, Recycle, Existing,
     Stopping, Stops
<1> QED
  BY <1>1, <1>2, <1>3, <1>4, <1>5

LEMMA RemoveStep ==
  ASSUME ComposeInv, Remove
  PROVE  ComposeInv'
<1> USE DEF ComposeInv
<1>1. TypeOK'
  <2>1. call \in Calls /\ spent \in Counts
    BY DEF TypeOK, Calls, Counts
  <2>2. PICK i \in call.stops :
          LET x == records[i].asset
          IN /\ call' = [call EXCEPT !.phase = "marking", !.asset = x]
             /\ torn' = torn \cup {x}
             /\ \/ Gone(x) /\ UNCHANGED <<spent, remnant>>
                \/ /\ Spend("failures", MaxFailures)
                   /\ remnant' = remnant \cup {x}
                   /\ UNCHANGED <<container, attached>>
    BY DEF Remove
  <2>3. records[i].asset \in Composed
    BY DEF Stopping
  <2>4. call' \in Calls /\ spent' \in Counts
    BY <2>1, <2>2, <2>3, SpendCounts DEF Calls, Phases, Assets
  <2>5. /\ container' \in [Composed -> [Services -> {"missing", "exited", "up"}]]
        /\ attached' \in [Composed -> SUBSET Services]
        /\ remnant' \in SUBSET Composed /\ torn' \in SUBSET Composed
    BY <2>2, <2>3, GoneProject DEF TypeOK
  <2> QED
    BY <2>4, <2>5 DEF TypeOK, Remove, Calls, Counts
<1>2. RecordsStand'
  BY SMTT(30) DEF TypeOK, RecordsStand, Course, Building, Connected, Running, Assets, At, Goto,
     Spend,
     Idle, Remove, Gone, Existing
<1>3. Course'
  <2>1. call'.phase = "marking" /\ call'.asset \in Composed
    BY DEF Remove, Stopping, TypeOK
  <2> QED
    BY <2>1 DEF Course, Building
<1>4. Accounted'
  BY SMTT(30) DEF TypeOK, Course, Accounted, Standing, Building, Running, Assets, At, Goto, Spend,
     Idle,
     Remove, Gone, Existing, Stopping, Stops
<1>5. Stopping'
  BY DEF TypeOK, Course, Building, Running, Assets, At, Goto, Spend, Idle, Remove, Gone,
     Existing, Stopping, Stops
<1> QED
  BY <1>1, <1>2, <1>3, <1>4, <1>5

LEMMA MarkStoppedStep ==
  ASSUME ComposeInv, MarkStopped
  PROVE  ComposeInv'
<1> USE DEF ComposeInv
<1>1. TypeOK'
  <2>1. call \in Calls /\ spent \in Counts
    BY DEF TypeOK, Calls, Counts
  <2>2. \A i \in DOMAIN records : [records[i] EXCEPT !.status = "stopped"] \in Record
    BY KnownRecords DEF Record
  <2>3. records' \in Seq(Record)
    BY <2>2, KnownRecords, RewrittenRecords DEF MarkStopped, Stopped, TypeOK
  <2>4. call' \in Calls
    BY <2>1 DEF MarkStopped, Calls, Phases
  <2> QED
    BY <2>3, <2>4 DEF TypeOK, MarkStopped, Calls
<1>2. RecordsStand'
  BY DEF TypeOK, RecordsStand, Course, Building, Connected, Running, Assets, At, Goto, Spend,
     Idle, MarkStopped, Stopped, Record, Existing
<1>3. Course'
  BY DEF TypeOK, RecordsStand, Course, Building, Connected, Running, Assets, At, Goto, Spend,
     Idle, MarkStopped, Stopped, Record, Existing, Phases
<1>4. Accounted'
  <2>1. \A i \in DOMAIN records : /\ records'[i].asset = records[i].asset
                                  /\ i \notin Running(call.asset) => records'[i] = records[i]
    BY DEF TypeOK, MarkStopped, Stopped, Record
  <2>2. \A x \in Composed \ {call.asset} : Running(x)' = Running(x)
    BY <2>1 DEF Running, MarkStopped, Stopped, TypeOK, Record
  <2> QED
    BY <2>2 DEF Accounted, MarkStopped, Stopping, Existing, At, Standing, Building
<1>5. Stopping'
  BY DEF TypeOK, Course, Building, Running, Assets, At, Goto, Spend, Idle, MarkStopped,
     Stopped, Record, Existing, Stopping, Stops
<1> QED
  BY <1>1, <1>2, <1>3, <1>4, <1>5

LEMMA EndRecycleStep ==
  ASSUME ComposeInv, EndRecycle
  PROVE  ComposeInv'
<1> USE DEF ComposeInv
<1>1. TypeOK'
  <2>1. call \in Calls /\ spent \in Counts
    BY DEF TypeOK, Calls, Counts
  <2>2. \A i \in DOMAIN records : [records[i] EXCEPT !.status = "stopped"] \in Record
    BY KnownRecords DEF Record
  <2>3. records' \in Seq(Record)
    BY <2>2, KnownRecords, RewrittenRecords DEF EndRecycle, Stopped, TypeOK
  <2>4. call' \in Calls
    BY <2>1 DEF EndRecycle, Idle, Calls, Phases
  <2> QED
    BY <2>3, <2>4 DEF TypeOK, EndRecycle, Calls
<1>2. RecordsStand'
  BY DEF TypeOK, RecordsStand, Course, Building, Connected, Running, Assets, At, Goto, Spend,
     Idle, EndRecycle, Stopped, Record, Existing
<1>3. Course'
  BY DEF TypeOK, RecordsStand, Course, Building, Connected, Running, Assets, At, Goto, Spend,
     Idle, EndRecycle, Stopped, Record, Existing, Phases
<1>4. Accounted'
  BY SMTT(30) DEF TypeOK, Course, Accounted, Standing, Building, Running, Assets, At, Goto, Spend,
     Idle,
     EndRecycle, Stopped, Record, Existing, Stopping, Stops
<1>5. Stopping'
  BY DEF TypeOK, Course, Building, Running, Assets, At, Goto, Spend, Idle, EndRecycle, Stopped,
     Record, Existing, Stopping, Stops
<1> QED
  BY <1>1, <1>2, <1>3, <1>4, <1>5

LEMMA SyncStep ==
  ASSUME ComposeInv, Sync
  PROVE  ComposeInv'
<1> USE DEF ComposeInv
<1>1. TypeOK'
  <2>1. call \in Calls /\ spent \in Counts
    BY DEF TypeOK, Calls, Counts
  <2>2. \A i \in DOMAIN records : records[i].asset \in Assets
    BY KnownRecords DEF Record
  <2>3. Accessible \in SUBSET Assets /\ Failed \in SUBSET Composed
    BY <2>2 DEF Accessible, Failed, Shown
  <2>4. call' \in Calls
    BY <2>1 DEF Sync, Idle, Calls, Phases
  <2> QED
    BY <2>3, <2>4 DEF TypeOK, Sync, Calls
<1>2. RecordsStand'
  BY DEF TypeOK, RecordsStand, Course, Building, Connected, Running, Assets, At, Goto, Spend,
     Idle, Sync, Accessible, Failed, Shown, Record, Existing
<1>3. Course'
  BY DEF TypeOK, RecordsStand, Course, Building, Connected, Running, Assets, At, Goto, Spend,
     Idle, Sync, Accessible, Failed, Shown, Record, Existing, Phases
<1>4. Accounted'
  BY DEF TypeOK, Course, Accounted, Standing, Building, Running, Assets, At, Goto, Spend, Idle,
     Sync, Accessible, Failed, Shown, Record, Existing, Stopping, Stops
<1>5. Stopping'
  BY DEF TypeOK, Course, Building, Running, Assets, At, Goto, Spend, Idle, Sync, Accessible,
     Failed, Shown, Record, Existing, Stopping, Stops
<1> QED
  BY <1>1, <1>2, <1>3, <1>4, <1>5

LEMMA CrashStep ==
  ASSUME ComposeInv, Crash
  PROVE  ComposeInv'
<1> USE DEF ComposeInv
<1>1. TypeOK'
  BY DEF TypeOK, Course, Phases, Building, Assets, At, Goto, Spend, Idle, Crash
<1>2. RecordsStand'
  BY DEF TypeOK, RecordsStand, Course, Building, Connected, Running, Assets, At, Goto, Spend,
     Idle, Crash, Existing
<1>3. Course'
  BY DEF TypeOK, RecordsStand, Course, Building, Connected, Running, Assets, At, Goto, Spend,
     Idle, Crash, Existing, Phases
<1>4. Accounted'
  BY DEF TypeOK, Course, Accounted, Standing, Building, Running, Assets, At, Goto, Spend, Idle,
     Crash, Existing, Stopping, Stops
<1>5. Stopping'
  BY DEF TypeOK, Course, Building, Running, Assets, At, Goto, Spend, Idle, Crash, Existing,
     Stopping, Stops
<1> QED
  BY <1>1, <1>2, <1>3, <1>4, <1>5

LEMMA ExitStep ==
  ASSUME ComposeInv, NEW x \in Composed, NEW s \in Services, ContainerExits(x, s)
  PROVE  ComposeInv'
<1> USE DEF ComposeInv
<1>1. TypeOK'
  BY DEF TypeOK, Course, Phases, Building, Assets, At, Goto, Spend, Idle, ContainerExits
<1>2. RecordsStand'
  BY DEF TypeOK, RecordsStand, Course, Building, Connected, Running, Assets, At, Goto, Spend,
     Idle, ContainerExits, Existing
<1>3. Course'
  BY DEF TypeOK, RecordsStand, Course, Building, Connected, Running, Assets, At, Goto, Spend,
     Idle, ContainerExits, Existing, Phases
<1>4. Accounted'
  BY DEF TypeOK, Course, Accounted, Standing, Building, Running, Assets, At, Goto, Spend, Idle,
     ContainerExits, Existing, Stopping, Stops
<1>5. Stopping'
  BY DEF TypeOK, Course, Building, Running, Assets, At, Goto, Spend, Idle, ContainerExits,
     Existing, Stopping, Stops
<1> QED
  BY <1>1, <1>2, <1>3, <1>4, <1>5

LEMMA StutterStep ==
  ASSUME ComposeInv, UNCHANGED vars
  PROVE  ComposeInv'
BY DEF ComposeInv, TypeOK, RecordsStand, Course, Accounted, Stopping, Stops, Connected,
   Running,
       Existing, vars

LEMMA StepStands ==
  ASSUME ComposeInv, [Next]_vars
  PROVE  ComposeInv'
<1>1. ASSUME NEW x \in Assets, Unlock(x) \/ Prewarm(x) PROVE ComposeInv'
  BY <1>1, UnlockStep, PrewarmStep
<1>2. CASE StartMock \/ Find \/ Attach \/ Unhide
  BY <1>2, StartMockStep, FindStep, AttachStep, UnhideStep
<1>3. CASE Up \/ ListContainers \/ Connect \/ Check \/ Down
  BY <1>3, UpStep, ListContainersStep, ConnectStep, CheckStep, DownStep
<1>4. CASE Route \/ RecordRunning \/ RecordFailed
  BY <1>4, RouteStep, RecordRunningStep, RecordFailedStep
<1>5. CASE Recycle \/ Remove \/ MarkStopped \/ EndRecycle \/ Sync
  BY <1>5, RecycleStep, RemoveStep, MarkStoppedStep, EndRecycleStep, SyncStep
<1>6. ASSUME NEW x \in Composed, NEW s \in Services, ContainerExits(x, s) PROVE ComposeInv'
  BY <1>6, ExitStep
<1>7. CASE Crash
  BY <1>7, CrashStep
<1>8. CASE UNCHANGED vars
  BY <1>8, StutterStep
<1> QED
  BY <1>1, <1>2, <1>3, <1>4, <1>5, <1>6, <1>7, <1>8 DEF Next

-------------------------------------------------------------------------------
\* However docker commands fail and starts are cut off: every record that says
\* "running" has its containers, hidden ones included, a start knows by each phase
\* what it has made sure of, and containers of a project are accounted for.
THEOREM ComposeInvariant == Spec => []ComposeInv
BY InitStands, StepStands, PTL DEF Spec

\* What an attacker is told of is unlocked, routed, and there on the network of the
\* gateway, for any compose project and any failures.
THEOREM ShownIsReachableTheorem == Spec => []ShownIsReachable
<1>1. ComposeInv => ShownIsReachable
  BY DEF ComposeInv, TypeOK, RecordsStand, Connected, ShownIsReachable, Reachable
<1> QED
  BY <1>1, ComposeInvariant, PTL

\* Between requests, a project that has containers is one that a recycle will find,
\* unless, since it last ran, a start of it was cut off or given up, or a "down" of it
\* failed, that of a recycle included.
THEOREM NoOrphansTheorem == Spec => []NoOrphans
<1>1. ComposeInv => NoOrphans
  BY DEF ComposeInv, Accounted, NoOrphans, At, Standing, Building
<1> QED
  BY <1>1, ComposeInvariant, PTL

================================================================================
