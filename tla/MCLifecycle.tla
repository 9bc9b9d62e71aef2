---------------------------- MODULE MCLifecycle -----------------------------
(***************************************************************************)
(* Small instances of Lifecycle.                                           *)
(***************************************************************************)
EXTENDS Lifecycle

CONSTANTS c1, c2, c3, d1, d2, d3

=============================================================================
