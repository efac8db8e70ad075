---------------------------- MODULE MCComposeRuntime ----------------------------
(* A compose asset of two services on the internal network, one of a network of *)
(* its own, and a mock asset.                                                   *)
EXTENDS ComposeRuntime

CONSTANTS lab, island, mock, app, db

===============================================================================
