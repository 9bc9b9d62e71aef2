---------------------------- MODULE MCRunCommand ----------------------------
(***************************************************************************)
(* Small instances of RunCommand.                                          *)
(***************************************************************************)
EXTENDS RunCommand

CONSTANTS c1, c2, kGranted, kOther
=============================================================================
