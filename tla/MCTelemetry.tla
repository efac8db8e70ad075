------------------------------ MODULE MCTelemetry ------------------------------
(* A feed whose lines name the proxy, and one of text, read by a sidecar of      *)
(* alice's binding.                                                              *)
EXTENDS Telemetry

CONSTANTS canary, dionaea, alice, bob, proxy

MCOwner == [f \in {dionaea} |-> alice]

================================================================================
