-------------------------- MODULE MCJsonFileStore --------------------------
(***************************************************************************)
(* TLC instance of JsonFileStore: three processes that are interchangeable. *)
(***************************************************************************)
EXTENDS JsonFileStore, TLC

CONSTANTS p1, p2, p3

MCProcs == {p1, p2, p3}
=============================================================================
