-------------------------- MODULE MCBindingService --------------------------
(***************************************************************************)
(* TLC instance of BindingOverlap.  Workers are interchangeable; attackers  *)
(* too.                                                                     *)
(***************************************************************************)
EXTENDS BindingOverlap, TLC

CONSTANTS w1, w2, a1, a2

TwoWorkers == {w1, w2}
OneAttacker == {a1}
TwoAttackers == {a1, a2}

Symmetry == Permutations(TwoWorkers) \cup Permutations(TwoAttackers)

\* promise and the promised field of a call feed nothing but each other and the
\* property Sticky, which says nothing once calls have overlapped: from there on
\* states are not told apart by them.
CallView(c) ==
  CASE c.phase = "idle" -> <<>>
    [] c.phase = "begun" -> <<c.attacker, c.now, c.floor>>
    [] c.phase = "read" /\ c.op = "resolve" -> <<c.op, c.id, c.rec, c.attacker, c.floor>>
    [] OTHER -> <<c.op, c.id, c.rec, c.now>>

View ==
  IF overlapped
    THEN <<clock, records, [w \in Workers |-> CallView(call[w])], asked, recycled, answered>>
    ELSE <<clock, records, call, asked, recycled, answered, promise>>
=============================================================================
