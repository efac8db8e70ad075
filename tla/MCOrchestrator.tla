----------------------------- MODULE MCOrchestrator -----------------------------
(* Instances of Orchestrator for TLC, with assets and variants of              *)
(* data/assets/catalog.json: malware-sink and dionaea-capture share a port and *)
(* the first has a variant that opens the second and one that opens nothing;   *)
(* git-internal has a variant that swaps its own runtime.  The capture backend *)
(* is the one without warm standby.  malware-sink serves static files.         *)
EXTENDS RevealFiles, TLC

CONSTANTS h1, h2, git, sink, capture, seeded, upgrade, staging

OneHandler == {h1}
TwoHandlers == {h1, h2}
Symmetry == Permutations(TwoHandlers)
MCWarm == Assets \ {capture}
MCPort == [x \in Assets |-> IF x = git THEN 19418 ELSE 18085]
MCSeeded == [id |-> seeded, source |-> git, target |-> git, swap |-> TRUE]
MCUpgrade == [id |-> upgrade, source |-> sink, target |-> capture, swap |-> FALSE]
MCStaging == [id |-> staging, source |-> sink, target |-> None, swap |-> FALSE]
MCVariants == {v \in {MCSeeded, MCUpgrade, MCStaging} : {v.source, v.target} \subseteq Assets \cup {None}}
MCArtifacts ==
  [c \in Configs |->
     IF c = staging THEN {[kind |-> "file", name |-> "staging"], [kind |-> "link", name |-> "staging"]}
                    ELSE {}]
===============================================================================
