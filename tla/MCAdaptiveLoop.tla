----------------------------- MODULE MCAdaptiveLoop -----------------------------
(* Instances of AdaptiveLoop for TLC, shaped like data/assets/catalog.json: a *)
(* portal, assets that depend on it, a variant of the portal without target   *)
(* and one of git that opens another asset on the same port.                  *)
EXTENDS AdaptiveLoop

CONSTANTS portal, git, share, links, seeded

MCDeps == [x \in Assets |-> IF x = portal THEN {} ELSE {portal}]
MCLinks == [id |-> links, source |-> portal, target |-> None]
MCSeeded == [id |-> seeded, source |-> git, target |-> share]
MCNoTarget == {MCLinks}
MCBoth == {MCLinks, MCSeeded}
MCNone == {}

\* Any two of: time that passes, a new binding, a failed POST, a crash, requests in
\* the raw HTTP log, and a third evidence record, which pushes the first out of the
\* profile.
AnyTwo ==
  clock + binding[1].gen + faults.timeouts + faults.crashes
    + (IF touches[1] = {} THEN 0 ELSE 1) + (IF Len(evidence[1]) > 2 THEN 1 ELSE 0) <= 2
===============================================================================
