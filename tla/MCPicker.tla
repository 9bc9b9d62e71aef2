------------------------------ MODULE MCPicker ------------------------------
(***************************************************************************)
(* Three rows; texts that match two of them, in different orders, or none. *)
(***************************************************************************)
EXTENDS Picker

CONSTANTS x, y, z, ab, bc, none, labelX, labelY, labelZ

ThreeRows == <<x, y, z>>

Texts == {NoText, ab, bc, none, labelX, labelY, labelZ}

Labels == [v \in {x, y, z} |-> CASE v = x -> labelX [] v = y -> labelY [] v = z -> labelZ]

\* A label's letters can occur in another label too.
Matches == [t \in Texts |-> CASE t = NoText -> <<x, y, z>>
                              [] t = ab     -> <<y, x>>
                              [] t = bc     -> <<z, y>>
                              [] t = none   -> <<>>
                              [] t = labelX -> <<x>>
                              [] t = labelY -> <<y, z>>
                              [] t = labelZ -> <<z>>]
=============================================================================
