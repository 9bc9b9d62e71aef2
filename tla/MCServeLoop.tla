---------------------------- MODULE MCServeLoop -----------------------------
(***************************************************************************)
(* Small instances of ServeLoop.                                           *)
(***************************************************************************)
EXTENDS ServeLoop

CONSTANTS c1, c2, c3
=============================================================================
