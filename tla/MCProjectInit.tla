--------------------------- MODULE MCProjectInit ----------------------------
(***************************************************************************)
(* Small instances of ProjectInit: two items, and command lines.           *)
(***************************************************************************)
EXTENDS ProjectInit

CONSTANTS a, b, dsn, key

Titled == [i \in Item |-> IF i = a THEN dsn ELSE key]
AThenB == <<a, b>>

Flags == [Blank EXCEPT !.given = {"vault", "mode", "item", "ssh-key", "ttl"}]

\* What is given, and by which flags.
AllOf   == [Flags EXCEPT !.from = TRUE, !.names = <<dsn>>]
Moving  == [AllOf EXCEPT !.move = TRUE, !.force = TRUE]
OneItem == [Flags EXCEPT !.specs = <<b, Pick>>, !.keys = TRUE]
BadTTL  == [Flags EXCEPT !.names = <<dsn>>, !.ttl = "bad"]
Empties == [Flags EXCEPT !.mode = "other"]
Bare    == [Blank EXCEPT !.vault = FALSE]
Seeded  == [Bare EXCEPT !.given = {"item"}, !.specs = <<a>>, !.move = TRUE]

Commands == {AllOf, Moving, OneItem, BadTTL, Empties, Bare, Seeded}
=============================================================================
