---------------------------- MODULE MCAssetGateway ----------------------------
(* Two attackers with one binding each; a portal and the capture backend that  *)
(* replaces it behind the same HTTP port, and an observed service of its own.  *)
EXTENDS AssetGateway

CONSTANTS c1, c2, alice, bob, b1, b2, portal, capture, redis

MCOwner == b1 :> alice @@ b2 :> bob
MCPort == portal :> "http" @@ capture :> "http" @@ redis :> "tcp"

===============================================================================
