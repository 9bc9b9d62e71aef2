---------------------------- MODULE PickerProofs ----------------------------
(***************************************************************************)
(* Proofs about Picker, for every list of rows, every set of filter texts  *)
(* and whatever rows they match, and any number of searches under way.     *)
(***************************************************************************)
EXTENDS Picker, SequenceTheorems, TLAPS

\* The map tells what was marked, ended or not.
MapTellsMarks == marked = {v \in Values : checked[v] = TRUE}

\* A completed row is the first one, and under the cursor, and no result of a
\* search can come between it and enter.
Completed == tabbed # Nothing =>
    /\ rows # <<>> /\ rows[1] = tabbed
    /\ cursor = 1
    /\ pending = <<>>

IInv == TypeOK /\ MapTellsMarks /\ Completed

-----------------------------------------------------------------------------
(***************************************************************************)
(* Sequences.                                                              *)
(***************************************************************************)
\* The bounded sequences of the community modules are those of Seq that are
\* not longer than the bound.
LEMMA BoundedSeqDef ==
    ASSUME NEW S, NEW n \in Nat
    PROVE  BoundedSeq(S, n) = {s \in Seq(S) : Len(s) <= n}
<1>1. ASSUME NEW s \in BoundedSeq(S, n) PROVE s \in Seq(S) /\ Len(s) <= n
  <2>1. PICK m \in 0..n : s \in [1..m -> S]
    BY DEF BoundedSeq, SeqOf
  <2>2. s \in Seq(S) /\ Len(s) = m
    BY <2>1, IsASeq, LenProperties
  <2>3. QED
    BY <2>1, <2>2
<1>2. ASSUME NEW s \in Seq(S), Len(s) <= n PROVE s \in BoundedSeq(S, n)
  <2>1. Len(s) \in 0..n /\ s \in [1..Len(s) -> S]
    BY <1>2, LenProperties
  <2>2. QED
    BY <2>1 DEF BoundedSeq, SeqOf
<1>3. QED
  BY <1>1, <1>2

\* Without one element a sequence is one of the same set, and shorter.
LEMMA RemoveAtShortens ==
    ASSUME NEW S, NEW s \in Seq(S), NEW i \in 1..Len(s)
    PROVE  RemoveAt(s, i) \in Seq(S) /\ Len(RemoveAt(s, i)) = Len(s) - 1
<1> DEFINE a == SubSeq(s, 1, i - 1)
           b == SubSeq(s, i + 1, Len(s))
<1>1. Len(s) \in Nat
  BY LenProperties
<1>2. a \in Seq(S) /\ Len(a) = i - 1
  BY <1>1
<1>3. b \in Seq(S) /\ Len(b) = Len(s) - i
  BY <1>1
<1>4. a \o b \in Seq(S) /\ Len(a \o b) = Len(a) + Len(b)
  BY <1>2, <1>3, ConcatProperties
<1>5. RemoveAt(s, i) = a \o b
  BY DEF RemoveAt
<1>6. (i - 1) + (Len(s) - i) = Len(s) - 1
  BY <1>1
<1> HIDE DEF a, b
<1>7. QED
  BY <1>2, <1>3, <1>4, <1>5, <1>6

-----------------------------------------------------------------------------
LEMMA PendingDef == BoundedSeq(Text, MaxPending) = {s \in Seq(Text) : Len(s) <= MaxPending}
BY BoundedSeqDef, MaxPendingAssumption

LEMMA InvInit == Init => IInv
<1> SUFFICES ASSUME Init PROVE IInv
  OBVIOUS
<1> USE DEF Init
<1>1. pending \in BoundedSeq(Text, MaxPending)
  BY PendingDef, EmptySeq, MaxPendingAssumption
<1>2. cursor \in 1..Len(Items)
  BY ItemsAssumption
<1>3. TypeOK
  BY <1>1, <1>2, FoundAssumption DEF TypeOK
<1>4. MapTellsMarks
  BY ItemsAssumption DEF MapTellsMarks
<1>5. QED
  BY <1>3, <1>4 DEF IInv, Completed

\* Only space marks: what the other keys and the results leave alone.
LEMMA MarksKept ==
    ASSUME IInv, UNCHANGED <<checked, marked>>, TypeOK', Completed'
    PROVE  IInv'
BY DEF IInv, MapTellsMarks

\* The types a key needs: texts and rows belong together.
LEMMA RowsTyped ==
    ASSUME TypeOK
    PROVE  /\ rows \in Seq(Values) /\ Len(rows) \in Nat /\ Len(rows) <= Len(Items)
           /\ cursor \in Nat /\ cursor >= 1
           /\ pending \in Seq(Text) /\ Len(pending) \in Nat /\ Len(pending) <= MaxPending
           /\ Highlighted => rows[cursor] \in Values
BY FoundAssumption, PendingDef, MaxPendingAssumption, LenProperties
   DEF TypeOK, Highlighted

LEMMA TypeStep == TypeOK /\ [Next]_vars => TypeOK'
<1> SUFFICES ASSUME TypeOK, [Next]_vars PROVE TypeOK'
  OBVIOUS
<1> USE DEF Press, Toggle
<1>1. ASSUME NEW t \in Text, Type(t) PROVE TypeOK'
  <2>1. pending' \in Seq(Text) /\ Len(pending') = Len(pending) + 1
    BY <1>1, RowsTyped, AppendProperties DEF Type
  <2>2. pending' \in BoundedSeq(Text, MaxPending)
    BY <1>1, <2>1, RowsTyped, PendingDef, MaxPendingAssumption DEF Type
  <2>3. QED
    BY <1>1, <2>2 DEF Type, TypeOK
<1>2. CASE Up
  <2>1. cursor' \in 1..Len(Items)
    BY <1>2, RowsTyped DEF Up, TypeOK
  <2>2. QED
    BY <1>2, <2>1 DEF Up, TypeOK
<1>3. CASE Down
  <2>1. cursor' \in 1..Len(Items)
    BY <1>3, RowsTyped, LenProperties, EmptySeq, ItemsAssumption DEF Down, TypeOK
  <2>2. QED
    BY <1>3, <2>1 DEF Down, TypeOK
<1>4. CASE Tab
  <2>1. rows[cursor] \in Values
    BY <1>4, RowsTyped DEF Tab
  <2>2. cursor' \in 1..Len(Items)
    BY <1>4, RowsTyped DEF Tab, TypeOK
  <2>3. QED
    BY <1>4, <2>1, <2>2, FoundAssumption DEF Tab, TypeOK
<1>5. CASE Space
  <2>1. rows[cursor] \in Values
    BY <1>5, RowsTyped DEF Space
  <2>2. QED
    BY <1>5, <2>1 DEF Space, TypeOK
<1>6. CASE NoRow
  BY <1>6 DEF NoRow, TypeOK
<1>7. CASE Submit \/ Abort
  BY <1>7 DEF Submit, Abort, TypeOK
<1>8. ASSUME NEW i \in DOMAIN pending, Results(i) PROVE TypeOK'
  <2>1. i \in 1..Len(pending) /\ pending[i] \in Text
    BY RowsTyped, LenProperties, ElementOfSeq
  <2>2. pending' \in Seq(Text) /\ Len(pending') <= MaxPending
    BY <1>8, <2>1, RowsTyped, RemoveAtShortens, MaxPendingAssumption DEF Results
  <2>3. pending' \in BoundedSeq(Text, MaxPending)
    BY <2>2, PendingDef
  <2>4. cursor' \in 1..Len(Items)
    BY <1>8, RowsTyped DEF Results, TypeOK
  <2>5. QED
    BY <1>8, <2>1, <2>3, <2>4 DEF Results, TypeOK
<1>9. CASE UNCHANGED vars
  BY <1>9 DEF vars, TypeOK
<1>10. QED
  BY <1>1, <1>2, <1>3, <1>4, <1>5, <1>6, <1>7, <1>8, <1>9 DEF Next

\* The invariant is inductive.
LEMMA InvStep == IInv /\ [Next]_vars => IInv'
<1> SUFFICES ASSUME IInv, [Next]_vars PROVE IInv'
  OBVIOUS
<1>0. TypeOK /\ TypeOK'
  BY TypeStep DEF IInv
<1> USE DEF Press
<1>1. ASSUME NEW t \in Text, Type(t) PROVE IInv'
  BY <1>0, <1>1, MarksKept DEF Type, Completed, TypeOK
<1>2. CASE Up \/ Down \/ NoRow
  BY <1>0, <1>2, MarksKept DEF Up, Down, NoRow, Completed, TypeOK
<1>3. CASE Tab
  <2>1. rows[cursor] \in Values
    BY <1>0, <1>3, RowsTyped DEF Tab
  <2>2. rows' # <<>> /\ rows'[1] = rows[cursor]
    BY <1>3, <2>1, FoundAssumption, EmptySeq DEF Tab
  <2>3. Completed'
    BY <1>3, <2>2 DEF Tab, Completed
  <2>4. QED
    BY <1>0, <1>3, <2>3, MarksKept DEF Tab
<1>4. CASE Space
  <2>1. rows[cursor] \in Values
    BY <1>0, <1>4, RowsTyped DEF Space
  <2>2. MapTellsMarks'
    BY <1>0, <1>4, <2>1 DEF Space, Toggle, IInv, TypeOK, MapTellsMarks
  <2>3. QED
    BY <1>0, <1>4, <2>2 DEF Space, IInv, Completed
<1>5. CASE Submit \/ Abort
  <2>1. Completed'
    BY <1>5 DEF Submit, Abort, IInv, Completed
  <2>2. QED
    BY <1>0, <1>5, <2>1, MarksKept DEF Submit, Abort
<1>6. ASSUME NEW i \in DOMAIN pending, Results(i) PROVE IInv'
  <2>1. pending # <<>>
    BY <1>6
  <2>2. tabbed' = Nothing
    BY <1>6, <2>1 DEF Results, IInv, Completed
  <2>3. QED
    BY <1>0, <1>6, <2>2, MarksKept DEF Results, Completed
<1>7. CASE UNCHANGED vars
  BY <1>0, <1>7 DEF vars, IInv, MapTellsMarks, Completed
<1>8. QED
  BY <1>1, <1>2, <1>3, <1>4, <1>5, <1>6, <1>7 DEF Next

LEMMA Invariance == Spec => []IInv
BY InvInit, InvStep, PTL DEF Spec

-----------------------------------------------------------------------------
\* The rows are always some text's, and the cursor is never where no row of the
\* list could be.
THEOREM TypeCorrect == Spec => []TypeOK
BY Invariance, PTL DEF IInv

\* A mark stays with its row while rows come, go and change places.
THEOREM MarksStay == Spec => []ChosenAsMarked
<1>1. IInv => ChosenAsMarked
  BY DEF IInv, MapTellsMarks, ChosenAsMarked, Chosen
<1>2. QED
  BY <1>1, Invariance, PTL

\* Tab, then enter, takes the completed row.
THEOREM EnterTakesCompleted == Spec => []TabThenEnter
<1>1. IInv => TabThenEnter
  <2> SUFFICES ASSUME IInv, tabbed # Nothing, ~multi PROVE Chosen = {tabbed}
    BY DEF TabThenEnter
  <2>1. cursor = 1 /\ rows # <<>> /\ rows[1] = tabbed
    BY DEF IInv, Completed
  <2>2. Highlighted
    BY <2>1, RowsTyped, EmptySeq DEF IInv, Highlighted
  <2>3. QED
    BY <2>1, <2>2 DEF Chosen
<1>2. QED
  BY <1>1, Invariance, PTL
=============================================================================
