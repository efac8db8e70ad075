--------------------------------- MODULE Tunnel ---------------------------------
(***************************************************************************)
(* What the two ends of a connection through the asset gateway see of each *)
(* other: two streams, each delivered in order, without gaps or repeats,   *)
(* and ended only after everything that was sent.  A tunnel may be refused *)
(* while it has delivered nothing, or break.  There are no routes, buffers *)
(* or observers here.                                                      *)
(***************************************************************************)
EXTENDS Integers, Sequences

CONSTANT Streams  \* e.g. each direction of each connection

VARIABLES
  sent,    \* stream -> how many units its source has written
  ended,   \* stream -> whether its source has finished writing
  got,     \* stream -> the units its destination has read
  closed,  \* stream -> whether the destination has seen the end
  broken   \* stream -> whether an end of it, or the tunnel, is gone

vars == <<sent, ended, got, closed, broken>>

Init ==
  /\ sent = [s \in Streams |-> 0] /\ ended = [s \in Streams |-> FALSE]
  /\ got = [s \in Streams |-> <<>>] /\ closed = [s \in Streams |-> FALSE]
  /\ broken = [s \in Streams |-> FALSE]

\* Units are numbered as they are written.
Write(s) ==
  /\ ~ended[s]
  /\ sent' = [sent EXCEPT ![s] = @ + 1]
  /\ UNCHANGED <<ended, got, closed, broken>>

Finish(s) ==
  /\ ended' = [ended EXCEPT ![s] = TRUE]
  /\ UNCHANGED <<sent, got, closed, broken>>

Deliver(s) ==
  /\ ~closed[s]
  /\ \E n \in Len(got[s]) + 1 .. sent[s] : got' = [got EXCEPT ![s] = [i \in 1..n |-> i]]
  /\ UNCHANGED <<sent, ended, closed, broken>>

DeliverEnd(s) ==
  /\ broken[s] \/ (ended[s] /\ Len(got[s]) = sent[s])
  /\ closed' = [closed EXCEPT ![s] = TRUE]
  /\ UNCHANGED <<sent, ended, got, broken>>

\* An end is gone, or nobody is there to begin with: what has not been read is
\* lost, and the other end may notice at once.
Break(S) ==
  /\ broken' = [s \in Streams |-> broken[s] \/ s \in S]
  /\ \E T \in SUBSET S : closed' = [s \in Streams |-> closed[s] \/ s \in T]
  /\ UNCHANGED <<sent, ended, got>>

\* A connection is given up, with nothing in it.
CloseAll(S) ==
  /\ \A s \in S : closed[s] \/ broken[s] \/ (ended[s] /\ Len(got[s]) = sent[s])
  /\ closed' = [s \in Streams |-> closed[s] \/ s \in S]
  /\ UNCHANGED <<sent, ended, got, broken>>

Next ==
  \/ \E s \in Streams : Write(s) \/ Finish(s) \/ Deliver(s) \/ DeliverEnd(s)
  \/ \E S \in SUBSET Streams : Break(S) \/ CloseAll(S)

Spec == Init /\ [][Next]_vars

================================================================================
