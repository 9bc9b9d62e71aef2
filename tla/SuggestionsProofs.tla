-------------------------- MODULE SuggestionsProofs --------------------------
(***************************************************************************)
(* Proofs about Suggestions: the rows that Levenshtein computes end in the *)
(* least number of single edits, for all strings over any characters.      *)
(***************************************************************************)
EXTENDS Suggestions, SequenceTheorems, FiniteSetTheorems, WellFoundedInduction, TLAPS

-----------------------------------------------------------------------------
(***************************************************************************)
(* Recursion and induction up to a bound, by least counterexamples.        *)
(***************************************************************************)
LEMMA LeastNat ==
    ASSUME NEW T \in SUBSET Nat, T # {}
    PROVE  \E n \in T : \A m \in T : n <= m
<1> DEFINE R == {p \in Nat \X Nat : p[1] < p[2]}
<1>1. IsWellFoundedOn(R, Nat)
  BY NatLessThanWellFounded DEF OpToRel
<1> HIDE DEF R
<1>2. PICK n \in T : \A m \in T : <<m, n>> \notin R
  BY <1>1, WFMin
<1>3. \A m \in T : <<m, n>> \in R <=> m < n
  BY DEF R
<1>4. ASSUME NEW m \in T PROVE n <= m
  <2>1. ~(m < n) /\ m \in Nat /\ n \in Nat
    BY <1>2, <1>3
  <2>2. QED
    BY <2>1
<1>5. QED
  BY <1>4

LEMMA Stepwise ==
    ASSUME NEW n \in Nat, NEW G, 0 \in G, \A m \in 1..n : m - 1 \in G => m \in G
    PROVE  \A m \in 0..n : m \in G
<1> DEFINE Bad == {m \in 0..n : m \notin G}
<1>1. SUFFICES ASSUME Bad # {} PROVE FALSE
  OBVIOUS
<1>2. PICK k \in Bad : \A m \in Bad : k <= m
  <2>1. Bad \in SUBSET Nat
    OBVIOUS
  <2> HIDE DEF Bad
  <2>2. QED
    BY <1>1, <2>1, LeastNat
<1>3. k \in 1..n /\ k - 1 \in 0..n /\ ~(k <= k - 1)
  OBVIOUS
<1>4. k - 1 \in G
  BY <1>2, <1>3
<1>5. QED
  BY <1>3, <1>4

LEMMA Cells ==
    ASSUME NEW m \in Nat, NEW n \in Nat, NEW G,
           \A i \in 0..m, j \in 0..n :
              /\ i # 0 => <<i - 1, j>> \in G
              /\ j # 0 => <<i, j - 1>> \in G
              /\ i # 0 /\ j # 0 => <<i - 1, j - 1>> \in G
              => <<i, j>> \in G
    PROVE  \A i \in 0..m, j \in 0..n : <<i, j>> \in G
<1> DEFINE Row == {i \in 0..m : \A j \in 0..n : <<i, j>> \in G}
<1>1. ASSUME NEW i \in 0..m, i # 0 => i - 1 \in Row PROVE i \in Row
  <2> DEFINE Col == {j \in 0..n : <<i, j>> \in G}
  <2>1. ASSUME NEW j \in 0..n, j # 0 => j - 1 \in Col PROVE j \in Col
    <3>1. /\ i # 0 => <<i - 1, j>> \in G
          /\ j # 0 => <<i, j - 1>> \in G
          /\ i # 0 /\ j # 0 => <<i - 1, j - 1>> \in G
      BY <1>1, <2>1
    <3>2. QED
      BY <3>1
  <2>2. 0 \in Col /\ \A j \in 1..n : j - 1 \in Col => j \in Col
    <3> HIDE DEF Col
    <3>1. QED
      BY <2>1
  <2>3. \A j \in 0..n : j \in Col
    <3> HIDE DEF Col
    <3>1. QED
      BY <2>2, Stepwise
  <2>4. QED
    BY <2>3
<1>2. 0 \in Row /\ \A i \in 1..m : i - 1 \in Row => i \in Row
  <2> HIDE DEF Row
  <2>1. QED
    BY <1>1
<1>3. \A i \in 0..m : i \in Row
  <2> HIDE DEF Row
  <2>1. QED
    BY <1>2, Stepwise
<1>4. QED
  BY <1>3

\* A function that is defined by recursion on 0..n exists.
Recurs(g, D, a, f, n) == /\ g \in [0..n -> D]
                         /\ g[0] = a
                         /\ \A m \in 1..n : g[m] = f[m][g[m - 1]]

LEMMA Recursion ==
    ASSUME NEW D, NEW a \in D, NEW f \in [Nat -> [D -> D]], NEW n \in Nat
    PROVE  \E g : Recurs(g, D, a, f, n)
<1> DEFINE Exists(k) == \E g \in [0..k -> D] :
                            g[0] = a /\ \A m \in 1..k : g[m] = f[m][g[m - 1]]
           G == {k \in 0..n : Exists(k)}
<1>1. Exists(0)
  <2> DEFINE z == [i \in 0..0 |-> a]
  <2>1. z \in [0..0 -> D] /\ z[0] = a /\ 1..0 = {}
    OBVIOUS
  <2> HIDE DEF z
  <2>2. QED
    BY <2>1
<1>2. ASSUME NEW k \in 1..n, Exists(k - 1) PROVE Exists(k)
  <2>1. PICK g \in [0..(k - 1) -> D] :
            g[0] = a /\ \A m \in 1..(k - 1) : g[m] = f[m][g[m - 1]]
    BY <1>2
  <2> DEFINE h == [i \in 0..k |-> IF i = k THEN f[k][g[k - 1]] ELSE g[i]]
  <2>2. f[k][g[k - 1]] \in D
    OBVIOUS
  <2>3. h \in [0..k -> D]
    BY <2>2
  <2>4. h[0] = a /\ \A m \in 1..k : h[m] = f[m][h[m - 1]]
    BY <2>1
  <2> HIDE DEF h
  <2>5. QED
    BY <2>3, <2>4
<1> HIDE DEF Exists
<1>3. 0 \in G /\ \A k \in 1..n : k - 1 \in G => k \in G
  BY <1>1, <1>2
<1>4. \A k \in 0..n : k \in G
  <2> HIDE DEF G
  <2>1. QED
    BY <1>3, Stepwise
<1>5. QED
  BY <1>4 DEF Exists, Recurs

-----------------------------------------------------------------------------
(***************************************************************************)
(* The rows that Levenshtein computes, as equations.                       *)
(***************************************************************************)
Cost(r, c) == IF r = c THEN 0 ELSE 1

Cheapest(left, up, corner, r, c) == Least(Least(left + 1, up + 1), corner + Cost(r, c))

IsTable(T, a, b) ==
    /\ \A i \in 0..Len(a), j \in 0..Len(b) : T[i][j] \in Nat
    /\ \A j \in 0..Len(b) : T[0][j] = j
    /\ \A i \in 0..Len(a) : T[i][0] = i
    /\ \A i \in 1..Len(a), j \in 1..Len(b) :
          T[i][j] = Cheapest(T[i][j - 1], T[i - 1][j], T[i - 1][j - 1], a[i], b[j])

LEMMA CheapestIs ==
    ASSUME NEW x \in Nat, NEW y \in Nat, NEW z \in Nat, NEW r, NEW c
    PROVE  /\ Cheapest(x, y, z, r, c) \in Nat
           /\ Cheapest(x, y, z, r, c) <= x + 1
           /\ Cheapest(x, y, z, r, c) <= y + 1
           /\ Cheapest(x, y, z, r, c) <= z + Cost(r, c)
           /\ Cost(r, c) \in {0, 1}
           /\ \/ Cheapest(x, y, z, r, c) = x + 1
              \/ Cheapest(x, y, z, r, c) = y + 1
              \/ Cheapest(x, y, z, r, c) = z + Cost(r, c)
<1>1. Cost(r, c) \in {0, 1}
  BY DEF Cost
<1>2. QED
  BY <1>1 DEF Cheapest, Least

LEMMA NextRowIs ==
    ASSUME NEW S, NEW b \in Seq(S), NEW prev \in [0..Len(b) -> Nat], NEW r
    PROVE  /\ NextRow(prev, r, b) \in [0..Len(b) -> Nat]
           /\ NextRow(prev, r, b)[0] = prev[0] + 1
           /\ \A j \in 1..Len(b) :
                 NextRow(prev, r, b)[j]
                    = Cheapest(NextRow(prev, r, b)[j - 1], prev[j], prev[j - 1], r, b[j])
<1> DEFINE n == Len(b)
           Body(g) == [j \in 0..n |->
                          IF j = 0 THEN prev[0] + 1
                          ELSE Least(Least(g[j - 1] + 1, prev[j] + 1),
                                     prev[j - 1] + (IF r = b[j] THEN 0 ELSE 1))]
           row == CHOOSE g : g = Body(g)
           next(j, x) == Cheapest(x, prev[j], prev[j - 1], r, b[j])
           f == [j \in Nat |-> [x \in Nat |-> IF j \in 1..n THEN next(j, x) ELSE 0]]
<1>1. n \in Nat
  BY LenProperties
<1>2. ASSUME NEW j \in 1..n, NEW x \in Nat PROVE next(j, x) \in Nat
  <2>1. prev[j] \in Nat /\ prev[j - 1] \in Nat
    BY <1>1
  <2>2. QED
    BY <2>1, CheapestIs
<1>3. f \in [Nat -> [Nat -> Nat]]
  <2> HIDE DEF next
  <2>1. QED
    BY <1>2
<1>4. prev[0] + 1 \in Nat
  BY <1>1
<1>5. PICK g \in [0..n -> Nat] : g[0] = prev[0] + 1 /\ \A m \in 1..n : g[m] = f[m][g[m - 1]]
  <2> DEFINE D == Nat
             z == prev[0] + 1
  <2>1. z \in D /\ n \in Nat /\ f \in [Nat -> [D -> D]]
    BY <1>1, <1>3, <1>4
  <2>2. \E g : Recurs(g, D, z, f, n)
    <3> HIDE DEF f, D, z, n
    <3>1. QED
      BY <2>1, Recursion
  <2>3. QED
    BY <2>2 DEF Recurs
<1>6. ASSUME NEW h, NEW j \in 1..n PROVE Body(h)[j] = next(j, h[j - 1])
  BY <1>1 DEF Cheapest, Cost
<1>7. g = Body(g)
  <2>1. \A j \in 1..n : g[j] = next(j, g[j - 1])
    <3>1. ASSUME NEW j \in 1..n PROVE g[j] = next(j, g[j - 1])
      <4>1. j \in Nat /\ j - 1 \in 0..n /\ g[j - 1] \in Nat
        BY <1>1
      <4> HIDE DEF next
      <4>2. QED
        BY <1>5, <4>1
    <3>2. QED
      BY <3>1
  <2>2. \A j \in 1..n : g[j] = Body(g)[j]
    <3> HIDE DEF next, Body
    <3>1. QED
      BY <1>6, <2>1
  <2>3. g[0] = Body(g)[0]
    BY <1>1, <1>5
  <2>4. \A j \in 0..n : g[j] = Body(g)[j]
    <3> HIDE DEF Body
    <3>1. QED
      BY <1>1, <2>2, <2>3
  <2>5. QED
    BY <2>4
<1>8. row = Body(row)
  <2> HIDE DEF Body
  <2>1. QED
    BY <1>7
<1>9. row[0] = prev[0] + 1 /\ \A j \in 1..n : row[j] = next(j, row[j - 1])
  <2>1. Body(row)[0] = prev[0] + 1
    BY <1>1
  <2> HIDE DEF row, Body, next
  <2>2. QED
    BY <1>6, <1>8, <2>1
<1> HIDE DEF row
<1>10. \A j \in 0..n : row[j] \in Nat
  <2> DEFINE G == {j \in 0..n : row[j] \in Nat}
  <2>1. 0 \in G
    BY <1>1, <1>4, <1>9
  <2>2. ASSUME NEW j \in 1..n, j - 1 \in G PROVE j \in G
    <3>1. row[j - 1] \in Nat
      BY <2>2
    <3>2. next(j, row[j - 1]) \in Nat
      <4> DEFINE x == row[j - 1]
      <4> HIDE DEF next, x
      <4>1. QED
        BY <1>2, <3>1 DEF x
    <3>3. row[j] = next(j, row[j - 1]) /\ j \in 0..n
      <4> HIDE DEF next
      <4>1. QED
        BY <1>1, <1>9
    <3>4. QED
      BY <3>2, <3>3
  <2>3. \A j \in 0..n : j \in G
    <3> HIDE DEF G
    <3>1. QED
      BY <1>1, <2>1, <2>2, Stepwise
  <2>4. QED
    BY <2>3
<1>11. row \in [0..n -> Nat]
  <2>1. row = [j \in 0..n |-> row[j]]
    BY <1>8
  <2>2. QED
    BY <1>10, <2>1
<1>12. NextRow(prev, r, b) = row
  BY DEF NextRow, row
<1>13. QED
  BY <1>9, <1>11, <1>12

\* Levenshtein's rows are a table, and its result the last cell.
LEMMA TableExists ==
    ASSUME NEW S, NEW a \in Seq(S), NEW b \in Seq(S)
    PROVE  \E T : IsTable(T, a, b) /\ Levenshtein(a, b) = T[Len(a)][Len(b)]
<1> DEFINE n == Len(a)
           D == [0..Len(b) -> Nat]
           first == [j \in 0..Len(b) |-> j]
           Body(g) == [i \in 0..n |-> IF i = 0 THEN [j \in 0..Len(b) |-> j]
                                      ELSE NextRow(g[i - 1], a[i], b)]
           rows == CHOOSE g : g = Body(g)
           f == [i \in Nat |-> [p \in D |-> NextRow(p, a[i], b)]]
<1>1. n \in Nat /\ Len(b) \in Nat
  BY LenProperties
<1>2. \A r : \A p \in D : NextRow(p, r, b) \in D
  BY NextRowIs
<1>3. f \in [Nat -> [D -> D]]
  <2> HIDE DEF D
  <2>1. QED
    BY <1>2
<1>4. first \in D
  BY <1>1
<1>5. PICK g \in [0..n -> D] : g[0] = first /\ \A m \in 1..n : g[m] = f[m][g[m - 1]]
  <2> HIDE DEF f, D, first, n
  <2>1. \E g : Recurs(g, D, first, f, n)
    BY <1>1, <1>3, <1>4, Recursion
  <2>2. QED
    BY <2>1 DEF Recurs
<1>6. g = Body(g)
  <2> HIDE DEF D
  <2>1. ASSUME NEW i \in 0..n PROVE g[i] = Body(g)[i]
    <3>1. CASE i = 0
      BY <1>5, <3>1
    <3>2. CASE i # 0
      <4>1. i \in 1..n /\ i \in Nat /\ i - 1 \in 0..n
        BY <1>1, <3>2
      <4>2. g[i] = f[i][g[i - 1]] /\ g[i - 1] \in D
        BY <1>5, <4>1
      <4>3. QED
        BY <3>2, <4>1, <4>2
    <3>3. QED
      BY <3>1, <3>2
  <2>2. QED
    BY <2>1
<1>7. rows = Body(rows)
  <2> HIDE DEF Body
  <2>1. QED
    BY <1>6
<1>8. rows[0] = first /\ \A i \in 1..n : rows[i] = NextRow(rows[i - 1], a[i], b)
  <2>1. Body(rows)[0] = first /\ \A i \in 1..n : Body(rows)[i] = NextRow(rows[i - 1], a[i], b)
    BY <1>1
  <2> HIDE DEF rows, Body, first
  <2>2. QED
    BY <1>7, <2>1
<1> HIDE DEF rows
<1>9. \A i \in 0..n : rows[i] \in D
  <2> DEFINE G == {i \in 0..n : rows[i] \in D}
  <2> HIDE DEF D, first
  <2>1. 0 \in G /\ \A i \in 1..n : i - 1 \in G => i \in G
    BY <1>1, <1>2, <1>4, <1>8
  <2>2. \A i \in 0..n : i \in G
    <3> HIDE DEF G
    <3>1. QED
      BY <1>1, <2>1, Stepwise
  <2>3. QED
    BY <2>2
<1>10. ASSUME NEW i \in 1..n
       PROVE  /\ rows[i][0] = rows[i - 1][0] + 1
              /\ \A j \in 1..Len(b) :
                    rows[i][j] = Cheapest(rows[i][j - 1], rows[i - 1][j], rows[i - 1][j - 1],
                                          a[i], b[j])
  <2>1. i - 1 \in 0..n
    BY <1>1
  <2>2. rows[i - 1] \in D /\ rows[i] = NextRow(rows[i - 1], a[i], b)
    BY <1>8, <1>9, <2>1
  <2> DEFINE prev == rows[i - 1]
  <2>3. prev \in [0..Len(b) -> Nat] /\ rows[i] = NextRow(prev, a[i], b)
    BY <2>2
  <2>4. /\ rows[i][0] = prev[0] + 1
        /\ \A j \in 1..Len(b) :
              rows[i][j] = Cheapest(rows[i][j - 1], prev[j], prev[j - 1], a[i], b[j])
    <3> HIDE DEF prev
    <3>1. QED
      BY <2>3, NextRowIs
  <2>5. QED
    BY <2>4
<1>11. \A j \in 0..Len(b) : rows[0][j] = j
  BY <1>8
<1>12. \A i \in 0..n : rows[i][0] = i
  <2> DEFINE G == {i \in 0..n : rows[i][0] = i}
  <2>1. 0 \in G /\ \A i \in 1..n : i - 1 \in G => i \in G
    BY <1>1, <1>10, <1>11
  <2>2. \A i \in 0..n : i \in G
    <3> HIDE DEF G
    <3>1. QED
      BY <1>1, <2>1, Stepwise
  <2>3. QED
    BY <2>2
<1>13. IsTable(rows, a, b)
  BY <1>9, <1>10, <1>11, <1>12 DEF IsTable
<1>14. Levenshtein(a, b) = rows[Len(a)][Len(b)]
  BY DEF Levenshtein, rows
<1>15. QED
  BY <1>13, <1>14

\* What a cell has to do with those it is computed from.
LEMMA Cell ==
    ASSUME NEW S, NEW a \in Seq(S), NEW b \in Seq(S), NEW T, IsTable(T, a, b),
           NEW i \in 1..Len(a), NEW j \in 1..Len(b)
    PROVE  /\ i - 1 \in 0..Len(a) /\ j - 1 \in 0..Len(b)
           /\ T[i][j] \in Nat /\ T[i][j - 1] \in Nat
           /\ T[i - 1][j] \in Nat /\ T[i - 1][j - 1] \in Nat
           /\ T[i][j] <= T[i][j - 1] + 1
           /\ T[i][j] <= T[i - 1][j] + 1
           /\ T[i][j] <= T[i - 1][j - 1] + Cost(a[i], b[j])
           /\ Cost(a[i], b[j]) \in {0, 1}
           /\ \/ T[i][j] = T[i][j - 1] + 1
              \/ T[i][j] = T[i - 1][j] + 1
              \/ T[i][j] = T[i - 1][j - 1] + Cost(a[i], b[j])
<1>1. Len(a) \in Nat /\ Len(b) \in Nat
  BY LenProperties
<1>2. i \in 0..Len(a) /\ j \in 0..Len(b) /\ i - 1 \in 0..Len(a) /\ j - 1 \in 0..Len(b)
  BY <1>1
<1>3. /\ T[i][j] \in Nat /\ T[i][j - 1] \in Nat
      /\ T[i - 1][j] \in Nat /\ T[i - 1][j - 1] \in Nat
  BY <1>2 DEF IsTable
<1>4. T[i][j] = Cheapest(T[i][j - 1], T[i - 1][j], T[i - 1][j - 1], a[i], b[j])
  BY DEF IsTable
<1> DEFINE x == T[i][j - 1]
           y == T[i - 1][j]
           z == T[i - 1][j - 1]
<1>5. x \in Nat /\ y \in Nat /\ z \in Nat /\ T[i][j] = Cheapest(x, y, z, a[i], b[j])
  BY <1>3, <1>4
<1>6. /\ T[i][j] <= x + 1 /\ T[i][j] <= y + 1 /\ T[i][j] <= z + Cost(a[i], b[j])
      /\ Cost(a[i], b[j]) \in {0, 1}
      /\ T[i][j] = x + 1 \/ T[i][j] = y + 1 \/ T[i][j] = z + Cost(a[i], b[j])
  <2> HIDE DEF x, y, z
  <2>1. QED
    BY <1>5, CheapestIs
<1>7. QED
  BY <1>2, <1>3, <1>6

-----------------------------------------------------------------------------
(***************************************************************************)
(* One edit of the second string adds at most one to the last cell.        *)
(***************************************************************************)
\* A cell is at most one more than those before it.
LEMMA Beside ==
    ASSUME NEW S, NEW a \in Seq(S), NEW b \in Seq(S), NEW T, IsTable(T, a, b),
           NEW i \in 1..Len(a), NEW j \in 1..Len(b)
    PROVE  T[i][j - 1] <= T[i - 1][j - 1] + 1 /\ T[i - 1][j] <= T[i - 1][j - 1] + 1
<1>1. Len(a) \in Nat /\ Len(b) \in Nat
  BY LenProperties
<1>2. T[i][j - 1] <= T[i - 1][j - 1] + 1
  <2>1. CASE j = 1
    <3>1. T[i][0] = i /\ T[i - 1][0] = i - 1
      BY <1>1 DEF IsTable
    <3>2. QED
      BY <1>1, <2>1, <3>1
  <2>2. CASE j # 1
    <3>1. j - 1 \in 1..Len(b)
      BY <1>1, <2>2
    <3>2. QED
      BY <3>1, Cell
  <2>3. QED
    BY <2>1, <2>2
<1>3. T[i - 1][j] <= T[i - 1][j - 1] + 1
  <2>1. CASE i = 1
    <3>1. T[0][j] = j /\ T[0][j - 1] = j - 1
      BY <1>1 DEF IsTable
    <3>2. QED
      BY <1>1, <2>1, <3>1
  <2>2. CASE i # 1
    <3>1. i - 1 \in 1..Len(a)
      BY <1>1, <2>2
    <3>2. QED
      BY <3>1, Cell
  <2>3. QED
    BY <2>1, <2>2
<1>4. QED
  BY <1>2, <1>3

\* Neighbouring cells differ by one at most, and the diagonals do not fall.
LEMMA Neighbours ==
    ASSUME NEW S, NEW a \in Seq(S), NEW b \in Seq(S), NEW T, IsTable(T, a, b),
           NEW i \in 0..Len(a), NEW j \in 0..Len(b)
    PROVE  /\ j # 0 => T[i][j - 1] <= T[i][j] + 1
           /\ i # 0 => T[i - 1][j] <= T[i][j] + 1
           /\ i # 0 /\ j # 0 => T[i - 1][j - 1] <= T[i][j]
<1> DEFINE left(x, y)   == y # 0 => T[x][y - 1] <= T[x][y] + 1
           above(x, y)  == x # 0 => T[x - 1][y] <= T[x][y] + 1
           corner(x, y) == x # 0 /\ y # 0 => T[x - 1][y - 1] <= T[x][y]
           G == {p \in (0..Len(a)) \X (0..Len(b)) :
                    left(p[1], p[2]) /\ above(p[1], p[2]) /\ corner(p[1], p[2])}
<1>1. Len(a) \in Nat /\ Len(b) \in Nat
  BY LenProperties
<1>2. ASSUME NEW x \in 0..Len(a), NEW y \in 0..Len(b),
             x # 0 => left(x - 1, y) /\ above(x - 1, y),
             y # 0 => left(x, y - 1) /\ above(x, y - 1)
      PROVE  left(x, y) /\ above(x, y) /\ corner(x, y)
  <2>1. CASE x = 0
    <3>1. y # 0 => y - 1 \in 0..Len(b)
      BY <1>1
    <3>2. T[0][y] = y /\ (y # 0 => T[0][y - 1] = y - 1)
      BY <3>1 DEF IsTable
    <3>3. QED
      BY <1>1, <2>1, <3>2
  <2>2. CASE y = 0
    <3>1. x # 0 => x - 1 \in 0..Len(a)
      BY <1>1
    <3>2. T[x][0] = x /\ (x # 0 => T[x - 1][0] = x - 1)
      BY <3>1 DEF IsTable
    <3>3. QED
      BY <1>1, <2>2, <3>2
  <2>3. CASE x # 0 /\ y # 0
    <3>1. x \in 1..Len(a) /\ y \in 1..Len(b)
      BY <1>1, <2>3
    <3>2. /\ T[x - 1][y - 1] <= T[x - 1][y] + 1
          /\ T[x - 1][y - 1] <= T[x][y - 1] + 1
      BY <1>2, <2>3
    <3>3. /\ T[x][y] \in Nat /\ T[x][y - 1] \in Nat
          /\ T[x - 1][y] \in Nat /\ T[x - 1][y - 1] \in Nat
          /\ Cost(a[x], b[y]) \in {0, 1}
          /\ \/ T[x][y] = T[x][y - 1] + 1
             \/ T[x][y] = T[x - 1][y] + 1
             \/ T[x][y] = T[x - 1][y - 1] + Cost(a[x], b[y])
      BY <3>1, Cell
    <3>4. /\ T[x][y - 1] <= T[x][y] + 1
          /\ T[x - 1][y] <= T[x][y] + 1
          /\ T[x - 1][y - 1] <= T[x][y]
      <4>1. T[x][y - 1] <= T[x - 1][y - 1] + 1 /\ T[x - 1][y] <= T[x - 1][y - 1] + 1
        BY <3>1, Beside
      <4> DEFINE t == T[x][y]
                 l == T[x][y - 1]
                 u == T[x - 1][y]
                 z == T[x - 1][y - 1]
                 d == Cost(a[x], b[y])
      <4>2. /\ t \in Nat /\ l \in Nat /\ u \in Nat /\ z \in Nat /\ d \in {0, 1}
            /\ t = l + 1 \/ t = u + 1 \/ t = z + d
            /\ z <= u + 1 /\ z <= l + 1 /\ l <= z + 1 /\ u <= z + 1
        BY <3>2, <3>3, <4>1
      <4>3. l <= t + 1 /\ u <= t + 1 /\ z <= t
        <5> HIDE DEF t, l, u, z, d
        <5>1. QED
          BY <4>2
      <4>4. QED
        BY <4>3
    <3>5. QED
      BY <3>4
  <2>4. QED
    BY <2>1, <2>2, <2>3
<1>3. \A x \in 0..Len(a), y \in 0..Len(b) :
         /\ x # 0 => <<x - 1, y>> \in G
         /\ y # 0 => <<x, y - 1>> \in G
         /\ x # 0 /\ y # 0 => <<x - 1, y - 1>> \in G
         => <<x, y>> \in G
  <2> HIDE DEF left, above, corner
  <2>1. QED
    BY <1>2
<1>4. \A x \in 0..Len(a), y \in 0..Len(b) : <<x, y>> \in G
  <2> HIDE DEF G
  <2>1. QED
    BY <1>1, <1>3, Cells
<1>5. QED
  BY <1>4

\* A column depends on what the string has up to it.
LEMMA SamePrefix ==
    ASSUME NEW S, NEW a \in Seq(S), NEW b \in Seq(S), NEW c \in Seq(S),
           NEW T, IsTable(T, a, b), NEW U, IsTable(U, a, c),
           NEW k \in 0..Len(b), k <= Len(c), \A y \in 1..k : b[y] = c[y]
    PROVE  \A i \in 0..Len(a), j \in 0..k : U[i][j] = T[i][j]
<1> DEFINE G == {p \in (0..Len(a)) \X (0..k) : U[p[1]][p[2]] = T[p[1]][p[2]]}
<1>1. Len(a) \in Nat /\ Len(b) \in Nat /\ Len(c) \in Nat /\ k \in Nat
  BY LenProperties
<1>2. ASSUME NEW x \in 0..Len(a), NEW y \in 0..k,
             x # 0 => U[x - 1][y] = T[x - 1][y],
             y # 0 => U[x][y - 1] = T[x][y - 1],
             x # 0 /\ y # 0 => U[x - 1][y - 1] = T[x - 1][y - 1]
      PROVE  U[x][y] = T[x][y]
  <2>1. CASE x = 0 \/ y = 0
    <3>1. y \in 0..Len(b) /\ y \in 0..Len(c)
      BY <1>1
    <3>2. U[0][y] = T[0][y] /\ U[x][0] = T[x][0]
      BY <3>1 DEF IsTable
    <3>3. QED
      BY <2>1, <3>2
  <2>2. CASE x # 0 /\ y # 0
    <3>1. x \in 1..Len(a) /\ y \in 1..Len(b) /\ y \in 1..Len(c) /\ y \in 1..k
      BY <1>1, <2>2
    <3>2. /\ U[x][y] = Cheapest(U[x][y - 1], U[x - 1][y], U[x - 1][y - 1], a[x], c[y])
          /\ T[x][y] = Cheapest(T[x][y - 1], T[x - 1][y], T[x - 1][y - 1], a[x], b[y])
      BY <3>1 DEF IsTable
    <3>3. QED
      BY <1>2, <2>2, <3>1, <3>2
  <2>3. QED
    BY <2>1, <2>2
<1>3. \A x \in 0..Len(a), y \in 0..k :
         /\ x # 0 => <<x - 1, y>> \in G
         /\ y # 0 => <<x, y - 1>> \in G
         /\ x # 0 /\ y # 0 => <<x - 1, y - 1>> \in G
         => <<x, y>> \in G
  BY <1>2
<1>4. \A x \in 0..Len(a), y \in 0..k : <<x, y>> \in G
  <2> HIDE DEF G
  <2>1. QED
    BY <1>1, <1>3, Cells
<1>5. QED
  BY <1>4

\* Cells of equal characters, computed from cells that are at most one higher.
LEMMA CellFollows ==
    ASSUME NEW S, NEW a \in Seq(S), NEW b \in Seq(S), NEW c \in Seq(S),
           NEW T, IsTable(T, a, b), NEW U, IsTable(U, a, c),
           NEW x \in 1..Len(a), NEW q \in 1..Len(b), NEW r \in 1..Len(c), c[r] = b[q],
           U[x][r - 1] <= T[x][q - 1] + 1,
           U[x - 1][r] <= T[x - 1][q] + 1,
           U[x - 1][r - 1] <= T[x - 1][q - 1] + 1
    PROVE  U[x][r] <= T[x][q] + 1
<1> DEFINE t == T[x][q]
           u == U[x][r]
           tl == T[x][q - 1]
           tu == T[x - 1][q]
           tc == T[x - 1][q - 1]
           ul == U[x][r - 1]
           uu == U[x - 1][r]
           uc == U[x - 1][r - 1]
           d  == Cost(a[x], b[q])
<1>1. /\ u \in Nat /\ ul \in Nat /\ uu \in Nat /\ uc \in Nat
      /\ u <= ul + 1 /\ u <= uu + 1 /\ u <= uc + d
  BY Cell
<1>2. /\ t \in Nat /\ tl \in Nat /\ tu \in Nat /\ tc \in Nat /\ d \in {0, 1}
      /\ t = tl + 1 \/ t = tu + 1 \/ t = tc + d
  BY Cell
<1>3. ul <= tl + 1 /\ uu <= tu + 1 /\ uc <= tc + 1
  OBVIOUS
<1>4. u <= t + 1
  <2> HIDE DEF t, u, tl, tu, tc, ul, uu, uc, d
  <2>1. QED
    BY <1>1, <1>2, <1>3
<1>5. QED
  BY <1>4

\* Where the rest of the strings is the same, one column that is at most one
\* higher makes all that follow at most one higher.
LEMMA SameRest ==
    ASSUME NEW S, NEW a \in Seq(S), NEW b \in Seq(S), NEW c \in Seq(S),
           NEW T, IsTable(T, a, b), NEW U, IsTable(U, a, c),
           NEW k \in 0..Len(b), NEW e \in {-1, 0, 1},
           Len(c) = Len(b) + e, k + e >= 0,
           \A y \in (k + 1)..Len(b) : c[y + e] = b[y],
           \A i \in 0..Len(a) : U[i][k + e] <= T[i][k] + 1
    PROVE  U[Len(a)][Len(c)] <= T[Len(a)][Len(b)] + 1
<1> DEFINE n == Len(b) - k
           near(x, y) == U[x][y + k + e] <= T[x][y + k] + 1
           G == {p \in (0..Len(a)) \X (0..n) : near(p[1], p[2])}
<1>1. Len(a) \in Nat /\ Len(b) \in Nat /\ Len(c) \in Nat /\ n \in Nat /\ k \in Nat
  BY LenProperties
<1>2. ASSUME NEW x \in 0..Len(a), NEW y \in 0..n,
             x # 0 => near(x - 1, y), y # 0 => near(x, y - 1),
             x # 0 /\ y # 0 => near(x - 1, y - 1)
      PROVE  near(x, y)
  <2>1. CASE y = 0
    BY <1>1, <2>1
  <2>2. CASE x = 0 /\ y # 0
    <3>1. y + k \in 0..Len(b) /\ y + k + e \in 0..Len(c)
      BY <1>1
    <3>2. T[0][y + k] = y + k /\ U[0][y + k + e] = y + k + e
      BY <3>1 DEF IsTable
    <3>3. QED
      BY <1>1, <2>2, <3>2
  <2>3. CASE x # 0 /\ y # 0
    <3> DEFINE q == y + k
               r == y + k + e
    <3>1. /\ x \in 1..Len(a) /\ q \in 1..Len(b) /\ r \in 1..Len(c)
          /\ q - 1 = (y - 1) + k /\ r - 1 = (y - 1) + k + e
      <4>1. x \in 1..Len(a) /\ y \in 1..n
        BY <1>1, <2>3
      <4>2. q \in 1..Len(b) /\ q - 1 = (y - 1) + k
        BY <1>1, <4>1
      <4>3. e \in Int /\ k + e >= 0 /\ Len(c) = Len(b) + e
        OBVIOUS
      <4>4. r \in 1..Len(c) /\ r - 1 = (y - 1) + k + e
        BY <1>1, <4>1, <4>3
      <4>5. QED
        BY <4>1, <4>2, <4>4
    <3>2. q \in (k + 1)..Len(b) /\ r = q + e
      BY <1>1, <2>3
    <3>3. c[r] = b[q]
      BY <3>2
    <3>4. near(x, y - 1) /\ near(x - 1, y) /\ near(x - 1, y - 1)
      BY <1>2, <2>3
    <3>5. /\ U[x][r - 1] <= T[x][q - 1] + 1
          /\ U[x - 1][r] <= T[x - 1][q] + 1
          /\ U[x - 1][r - 1] <= T[x - 1][q - 1] + 1
      BY <3>1, <3>4
    <3>6. U[x][r] <= T[x][q] + 1
      <4> HIDE DEF q, r
      <4>1. QED
        BY <3>1, <3>3, <3>5, CellFollows
    <3>7. QED
      BY <3>6
  <2>4. QED
    BY <2>1, <2>2, <2>3
<1>3. \A x \in 0..Len(a), y \in 0..n :
         /\ x # 0 => <<x - 1, y>> \in G
         /\ y # 0 => <<x, y - 1>> \in G
         /\ x # 0 /\ y # 0 => <<x - 1, y - 1>> \in G
         => <<x, y>> \in G
  <2> HIDE DEF near
  <2>1. QED
    BY <1>1, <1>2
<1>4. \A x \in 0..Len(a), y \in 0..n : <<x, y>> \in G
  <2> HIDE DEF G, n
  <2>1. QED
    BY <1>1, <1>3, Cells
<1>5. near(Len(a), n)
  <2>1. <<Len(a), n>> \in G
    <3> HIDE DEF G
    <3>1. QED
      BY <1>1, <1>4
  <2> HIDE DEF near
  <2>2. QED
    BY <2>1
<1>6. n + k + e = Len(c) /\ n + k = Len(b)
  BY <1>1
<1>7. QED
  BY <1>5, <1>6

\* The parts of a string, and two strings one after the other.
LEMMA PrefixIs ==
    ASSUME NEW S, NEW t \in Seq(S), NEW k \in 0..Len(t)
    PROVE  /\ SubSeq(t, 1, k) \in Seq(S) /\ Len(SubSeq(t, 1, k)) = k
           /\ \A y \in 1..k : SubSeq(t, 1, k)[y] = t[y]
<1> DEFINE v == SubSeq(t, 1, k)
<1>1. Len(t) \in Nat /\ \A y \in 1..Len(t) : t[y] \in S
  BY LenProperties, ElementOfSeq
<1>2. 1 \in Int /\ k \in Int /\ \A y \in 1..k : t[y] \in S
  BY <1>1
<1>3. /\ v \in Seq(S) /\ Len(v) = IF 1 <= k THEN k - 1 + 1 ELSE 0
      /\ \A y \in 1..(k - 1 + 1) : v[y] = t[1 + y - 1]
  BY <1>2, SubSeqProperties
<1> HIDE DEF v
<1>4. Len(v) = k
  BY <1>1, <1>3
<1>5. ASSUME NEW y \in 1..k PROVE v[y] = t[y]
  <2>1. y \in 1..(k - 1 + 1) /\ 1 + y - 1 = y
    BY <1>1
  <2>2. QED
    BY <1>3, <2>1
<1>6. QED
  BY <1>3, <1>4, <1>5 DEF v

LEMMA SuffixIs ==
    ASSUME NEW S, NEW t \in Seq(S), NEW k \in 0..Len(t)
    PROVE  /\ SubSeq(t, k + 1, Len(t)) \in Seq(S)
           /\ Len(SubSeq(t, k + 1, Len(t))) = Len(t) - k
           /\ \A y \in 1..(Len(t) - k) : SubSeq(t, k + 1, Len(t))[y] = t[y + k]
<1> DEFINE m == k + 1
           n == Len(t)
           w == SubSeq(t, m, n)
<1>1. n \in Nat /\ \A y \in 1..n : t[y] \in S
  BY LenProperties, ElementOfSeq
<1>2. m \in Int /\ n \in Int /\ \A y \in m..n : t[y] \in S
  BY <1>1
<1>3. /\ w \in Seq(S) /\ Len(w) = IF m <= n THEN n - m + 1 ELSE 0
      /\ \A y \in 1..(n - m + 1) : w[y] = t[m + y - 1]
  <2> HIDE DEF m, n
  <2>1. QED
    BY <1>2, SubSeqProperties
<1> HIDE DEF w
<1>4. Len(w) = n - k
  BY <1>1, <1>3
<1>5. ASSUME NEW y \in 1..(n - k) PROVE w[y] = t[y + k]
  <2>1. y \in 1..(n - m + 1) /\ m + y - 1 = y + k
    BY <1>1
  <2> HIDE DEF m, n
  <2>2. QED
    BY <1>3, <2>1
<1>6. QED
  BY <1>3, <1>4, <1>5 DEF w

LEMMA Joined ==
    ASSUME NEW S, NEW v \in Seq(S), NEW w \in Seq(S)
    PROVE  /\ v \o w \in Seq(S) /\ Len(v \o w) = Len(v) + Len(w)
           /\ \A y \in 1..Len(v) : (v \o w)[y] = v[y]
           /\ \A y \in 1..Len(w) : (v \o w)[Len(v) + y] = w[y]
<1> DEFINE u == v \o w
<1>1. Len(v) \in Nat /\ Len(w) \in Nat
  BY LenProperties
<1>2. /\ u \in Seq(S) /\ Len(u) = Len(v) + Len(w)
      /\ \A y \in 1..(Len(v) + Len(w)) : u[y] = IF y <= Len(v) THEN v[y] ELSE w[y - Len(v)]
  BY ConcatProperties
<1> HIDE DEF u
<1>3. ASSUME NEW y \in 1..Len(v) PROVE u[y] = v[y]
  BY <1>1, <1>2
<1>4. ASSUME NEW y \in 1..Len(w) PROVE u[Len(v) + y] = w[y]
  <2> DEFINE x == Len(v) + y
  <2>1. x \in 1..(Len(v) + Len(w)) /\ ~(x <= Len(v)) /\ x - Len(v) = y
    BY <1>1
  <2> HIDE DEF x
  <2>2. u[x] = w[y]
    BY <1>2, <2>1
  <2>3. QED
    BY <2>2 DEF x
<1>5. QED
  BY <1>2, <1>3, <1>4 DEF u

\* What the three kinds of edits do.
Changed(t, k, c) == [t EXCEPT ![k] = c]
Without(t, k)    == SubSeq(t, 1, k - 1) \o SubSeq(t, k + 1, Len(t))
With(t, k, c)    == SubSeq(t, 1, k) \o <<c>> \o SubSeq(t, k + 1, Len(t))

LEMMA Deleted ==
    ASSUME NEW S, NEW t \in Seq(S), NEW k \in 1..Len(t)
    PROVE  /\ Without(t, k) \in Seq(S) /\ Len(Without(t, k)) = Len(t) - 1
           /\ \A y \in 1..(k - 1) : Without(t, k)[y] = t[y]
           /\ \A y \in (k + 1)..Len(t) : Without(t, k)[y - 1] = t[y]
<1> DEFINE v == SubSeq(t, 1, k - 1)
           w == SubSeq(t, k + 1, Len(t))
           u == Without(t, k)
<1>1. Len(t) \in Nat /\ k - 1 \in 0..Len(t) /\ k \in 0..Len(t)
  BY LenProperties
<1>2. v \in Seq(S) /\ Len(v) = k - 1 /\ \A y \in 1..(k - 1) : v[y] = t[y]
  <2> DEFINE m == k - 1
  <2> HIDE DEF m
  <2>1. /\ SubSeq(t, 1, m) \in Seq(S) /\ Len(SubSeq(t, 1, m)) = m
        /\ \A y \in 1..m : SubSeq(t, 1, m)[y] = t[y]
    BY <1>1, PrefixIs DEF m
  <2>2. QED
    BY <2>1 DEF m
<1>3. w \in Seq(S) /\ Len(w) = Len(t) - k /\ \A y \in 1..(Len(t) - k) : w[y] = t[y + k]
  BY <1>1, SuffixIs
<1>4. u = v \o w
  BY DEF Without
<1> HIDE DEF v, w, u
<1>5. /\ u \in Seq(S) /\ Len(u) = Len(v) + Len(w)
      /\ \A y \in 1..Len(v) : u[y] = v[y]
      /\ \A y \in 1..Len(w) : u[Len(v) + y] = w[y]
  <2>1. v \in Seq(S) /\ w \in Seq(S)
    BY <1>2, <1>3
  <2>2. /\ v \o w \in Seq(S) /\ Len(v \o w) = Len(v) + Len(w)
        /\ \A y \in 1..Len(v) : (v \o w)[y] = v[y]
        /\ \A y \in 1..Len(w) : (v \o w)[Len(v) + y] = w[y]
    BY <2>1, Joined
  <2>3. QED
    BY <1>4, <2>2
<1>6. ASSUME NEW y \in (k + 1)..Len(t) PROVE u[y - 1] = t[y]
  <2> DEFINE z == y - k
  <2>1. z \in 1..Len(w) /\ y - 1 = Len(v) + z /\ y = z + k
    BY <1>1, <1>2, <1>3
  <2> HIDE DEF z
  <2>2. QED
    BY <1>3, <1>5, <2>1
<1>7. Len(u) = Len(t) - 1 /\ \A y \in 1..(k - 1) : u[y] = t[y]
  BY <1>1, <1>2, <1>3, <1>5
<1>8. QED
  BY <1>5, <1>6, <1>7 DEF u

Inserts(u, S, t, k, c) == /\ u \in Seq(S) /\ Len(u) = Len(t) + 1
                          /\ \A y \in 1..k : u[y] = t[y]
                          /\ u[k + 1] = c
                          /\ \A y \in (k + 1)..Len(t) : u[y + 1] = t[y]

LEMMA Inserted ==
    ASSUME NEW S, NEW t \in Seq(S), NEW k \in 0..Len(t), NEW c \in S
    PROVE  Inserts(With(t, k, c), S, t, k, c)
<1> DEFINE v == SubSeq(t, 1, k)
           w == SubSeq(t, k + 1, Len(t))
           x == v \o <<c>>
           u == With(t, k, c)
<1>1. Len(t) \in Nat
  BY LenProperties
<1>2. v \in Seq(S) /\ Len(v) = k /\ \A y \in 1..k : v[y] = t[y]
  BY PrefixIs
<1>3. w \in Seq(S) /\ Len(w) = Len(t) - k /\ \A y \in 1..(Len(t) - k) : w[y] = t[y + k]
  BY SuffixIs
<1>4. x \in Seq(S) /\ Len(x) = k + 1 /\ x[k + 1] = c /\ \A y \in 1..k : x[y] = t[y]
  <2> HIDE DEF v
  <2>1. x = Append(v, c)
    BY <1>2, AppendIsConcat
  <2> HIDE DEF x
  <2>2. /\ Append(v, c) \in Seq(S) /\ Len(Append(v, c)) = Len(v) + 1
        /\ Append(v, c)[Len(v) + 1] = c /\ \A y \in 1..Len(v) : Append(v, c)[y] = v[y]
    BY <1>2, AppendProperties
  <2>3. QED
    BY <1>2, <2>1, <2>2
<1>5. u = x \o w
  BY DEF With
<1> HIDE DEF v, w, x, u
<1>6. /\ u \in Seq(S) /\ Len(u) = Len(x) + Len(w)
      /\ \A y \in 1..Len(x) : u[y] = x[y]
      /\ \A y \in 1..Len(w) : u[Len(x) + y] = w[y]
  <2>1. x \in Seq(S) /\ w \in Seq(S)
    BY <1>3, <1>4
  <2>2. /\ x \o w \in Seq(S) /\ Len(x \o w) = Len(x) + Len(w)
        /\ \A y \in 1..Len(x) : (x \o w)[y] = x[y]
        /\ \A y \in 1..Len(w) : (x \o w)[Len(x) + y] = w[y]
    BY <2>1, Joined
  <2>3. QED
    BY <1>5, <2>2
<1>7. ASSUME NEW y \in (k + 1)..Len(t) PROVE u[y + 1] = t[y]
  <2> DEFINE z == y - k
  <2>1. z \in 1..Len(w) /\ y + 1 = Len(x) + z /\ y = z + k
    BY <1>1, <1>3, <1>4
  <2> HIDE DEF z
  <2>2. QED
    BY <1>3, <1>6, <2>1
<1>8. Len(u) = Len(t) + 1 /\ u[k + 1] = c /\ \A y \in 1..k : u[y] = t[y]
  BY <1>1, <1>3, <1>4, <1>6
<1>9. QED
  BY <1>6, <1>7, <1>8 DEF u, Inserts

LEMMA EditIs ==
    ASSUME NEW S, NEW t \in Seq(S), NEW C
    PROVE  Edits(t, C) = {Changed(t, k, c) : k \in 1..Len(t), c \in C}
                         \cup {Without(t, k) : k \in 1..Len(t)}
                         \cup {With(t, k, c) : k \in 0..Len(t), c \in C}
<1>1. DOMAIN t = 1..Len(t)
  BY LenProperties
<1>2. QED
  BY <1>1 DEF Edits, Changed, Without, With

LEMMA EditsType ==
    ASSUME NEW S, NEW t \in Seq(S), NEW C \in SUBSET S
    PROVE  Edits(t, C) \in SUBSET Seq(S)
<1>1. \A k \in 1..Len(t), c \in C : Changed(t, k, c) \in Seq(S)
  BY ExceptSeq DEF Changed
<1>2. \A k \in 1..Len(t) : Without(t, k) \in Seq(S)
  BY Deleted
<1>3. \A k \in 0..Len(t), c \in C : With(t, k, c) \in Seq(S)
  BY Inserted DEF Inserts
<1>4. QED
  BY <1>1, <1>2, <1>3, EditIs

LEMMA OneEdit ==
    ASSUME NEW S, NEW a \in Seq(S), NEW t \in Seq(S), NEW C \in SUBSET S,
           NEW u \in Edits(t, C)
    PROVE  Levenshtein(a, u) <= Levenshtein(a, t) + 1
<1>1. u \in Seq(S)
  BY EditsType
<1>2. PICK T : IsTable(T, a, t) /\ Levenshtein(a, t) = T[Len(a)][Len(t)]
  BY TableExists
<1>3. PICK U : IsTable(U, a, u) /\ Levenshtein(a, u) = U[Len(a)][Len(u)]
  BY <1>1, TableExists
<1>4. Len(a) \in Nat /\ Len(t) \in Nat /\ Len(u) \in Nat
  BY <1>1, LenProperties
<1>5. SUFFICES U[Len(a)][Len(u)] <= T[Len(a)][Len(t)] + 1
  BY <1>2, <1>3
<1>6. ASSUME NEW k \in 1..Len(t), NEW c \in C, u = Changed(t, k, c)
      PROVE  U[Len(a)][Len(u)] <= T[Len(a)][Len(t)] + 1
  <2>1. Len(u) = Len(t) /\ \A y \in 1..Len(t) : y # k => u[y] = t[y]
    BY <1>6, ExceptSeq DEF Changed
  <2>2. /\ k - 1 \in 0..Len(t) /\ k - 1 <= Len(u) /\ k \in 0..Len(t)
        /\ \A y \in 1..(k - 1) : t[y] = u[y]
        /\ \A y \in (k + 1)..Len(t) : u[y + 0] = t[y]
    BY <1>4, <2>1
  <2>3. \A i \in 0..Len(a), j \in 0..(k - 1) : U[i][j] = T[i][j]
    <3> DEFINE m == k - 1
    <3>1. m \in 0..Len(t) /\ m <= Len(u) /\ \A y \in 1..m : t[y] = u[y]
      BY <2>2
    <3> HIDE DEF m
    <3>2. \A i \in 0..Len(a), j \in 0..m : U[i][j] = T[i][j]
      BY <1>1, <1>2, <1>3, <3>1, SamePrefix
    <3>3. QED
      BY <3>2 DEF m
  <2>4. ASSUME NEW i \in 0..Len(a) PROVE U[i][k + 0] <= T[i][k] + 1
    <3>1. CASE i = 0
      <4>1. U[0][k] = k /\ T[0][k] = k
        BY <1>2, <1>3, <2>1, <2>2 DEF IsTable
      <4>2. QED
        BY <3>1, <4>1
    <3>2. CASE i # 0
      <4>1. i \in 1..Len(a) /\ i - 1 \in 0..Len(a) /\ k \in 1..Len(u) /\ k - 1 \in 0..(k - 1)
        BY <1>4, <2>1, <3>2
      <4>2. U[i - 1][k - 1] = T[i - 1][k - 1]
        BY <2>3, <4>1
      <4>3. T[i - 1][k - 1] <= T[i][k]
        <5>1. \A x \in 0..Len(a), y \in 0..Len(t) :
                 x # 0 /\ y # 0 => T[x - 1][y - 1] <= T[x][y]
          BY <1>2, Neighbours
        <5>2. k \in 0..Len(t) /\ k # 0
          BY <1>4, <2>2
        <5>3. QED
          BY <3>2, <5>1, <5>2
      <4>4. /\ U[i][k] <= U[i - 1][k - 1] + Cost(a[i], u[k])
            /\ U[i][k] \in Nat /\ U[i - 1][k - 1] \in Nat /\ Cost(a[i], u[k]) \in {0, 1}
        BY <1>1, <1>3, <4>1, Cell
      <4>5. T[i][k] \in Nat
        BY <1>2, <2>2 DEF IsTable
      <4> DEFINE v == U[i][k]
                 w == U[i - 1][k - 1]
                 x == T[i][k]
                 d == Cost(a[i], u[k])
      <4>6. v <= w + d /\ w <= x /\ v \in Nat /\ w \in Nat /\ x \in Nat /\ d \in {0, 1}
        BY <4>2, <4>3, <4>4, <4>5
      <4>7. v <= x + 1
        <5> HIDE DEF v, w, x, d
        <5>1. QED
          BY <4>6
      <4>8. QED
        BY <4>7
    <3>3. QED
      BY <3>1, <3>2
  <2>5. QED
    <3> DEFINE e == 0
    <3>1. /\ e \in {-1, 0, 1} /\ Len(u) = Len(t) + e /\ k + e >= 0
          /\ \A y \in (k + 1)..Len(t) : u[y + e] = t[y]
          /\ \A i \in 0..Len(a) : U[i][k + e] <= T[i][k] + 1
      BY <1>4, <2>1, <2>2, <2>4
    <3> HIDE DEF e
    <3>2. QED
      BY <1>1, <1>2, <1>3, <2>2, <3>1, SameRest
<1>7. ASSUME NEW k \in 1..Len(t), u = Without(t, k)
      PROVE  U[Len(a)][Len(u)] <= T[Len(a)][Len(t)] + 1
  <2>1. /\ Len(u) = Len(t) - 1
        /\ \A y \in 1..(k - 1) : u[y] = t[y]
        /\ \A y \in (k + 1)..Len(t) : u[y - 1] = t[y]
    BY <1>7, Deleted
  <2>2. k - 1 \in 0..Len(t) /\ k - 1 <= Len(u) /\ k \in 0..Len(t) /\ k - 1 \in 0..(k - 1)
    BY <1>4, <2>1
  <2>3. \A i \in 0..Len(a), j \in 0..(k - 1) : U[i][j] = T[i][j]
    <3> DEFINE m == k - 1
    <3>1. m \in 0..Len(t) /\ m <= Len(u) /\ \A y \in 1..m : t[y] = u[y]
      BY <2>1, <2>2
    <3> HIDE DEF m
    <3>2. \A i \in 0..Len(a), j \in 0..m : U[i][j] = T[i][j]
      BY <1>1, <1>2, <1>3, <3>1, SamePrefix, SMTT(30)
    <3>3. QED
      BY <3>2 DEF m
  <2>4. ASSUME NEW i \in 0..Len(a) PROVE U[i][k - 1] <= T[i][k] + 1
    <3>1. U[i][k - 1] = T[i][k - 1]
      BY <2>2, <2>3
    <3>2. QED
      BY <1>2, <2>2, <3>1, Neighbours
  <2>5. QED
    <3> DEFINE e == -1
    <3>1. /\ e \in {-1, 0, 1} /\ Len(u) = Len(t) + e /\ k + e >= 0
          /\ \A y \in (k + 1)..Len(t) : u[y + e] = t[y]
          /\ \A i \in 0..Len(a) : U[i][k + e] <= T[i][k] + 1
      BY <1>4, <2>1, <2>2, <2>4
    <3> HIDE DEF e
    <3>2. QED
      BY <1>1, <1>2, <1>3, <2>2, <3>1, SameRest
<1>8. ASSUME NEW k \in 0..Len(t), NEW c \in C,
             u = With(t, k, c)
      PROVE  U[Len(a)][Len(u)] <= T[Len(a)][Len(t)] + 1
  <2>1. /\ Len(u) = Len(t) + 1
        /\ \A y \in 1..k : u[y] = t[y]
        /\ \A y \in (k + 1)..Len(t) : u[y + 1] = t[y]
    <3>1. Inserts(u, S, t, k, c)
      BY <1>8, Inserted
    <3>2. QED
      BY <3>1 DEF Inserts
  <2>2. k <= Len(u) /\ k \in 0..k /\ k \in 0..Len(t) /\ k + 1 \in 1..Len(u)
    BY <1>4, <2>1
  <2>3. \A i \in 0..Len(a), j \in 0..k : U[i][j] = T[i][j]
    BY <1>1, <1>2, <1>3, <2>1, <2>2, SamePrefix
  <2>4. ASSUME NEW i \in 0..Len(a) PROVE U[i][k + 1] <= T[i][k] + 1
    <3>1. CASE i = 0
      <4>1. U[0][k + 1] = k + 1 /\ T[0][k] = k
        BY <1>2, <1>3, <1>4, <2>1, <2>2 DEF IsTable
      <4>2. QED
        BY <3>1, <4>1
    <3>2. CASE i # 0
      <4> DEFINE j == k + 1
      <4>1. i \in 1..Len(a) /\ j \in 1..Len(u) /\ j - 1 = k
        BY <1>4, <2>2, <3>2
      <4>2. U[i][k] = T[i][k]
        BY <2>2, <2>3
      <4>3. U[i][j] <= U[i][k] + 1
        <5> HIDE DEF j
        <5>1. U[i][j] <= U[i][j - 1] + 1
          BY <1>1, <1>3, <4>1, Cell
        <5>2. QED
          BY <4>1, <5>1
      <4>4. QED
        BY <4>2, <4>3
    <3>3. QED
      BY <3>1, <3>2
  <2>5. QED
    <3> DEFINE e == 1
    <3>1. /\ e \in {-1, 0, 1} /\ Len(u) = Len(t) + e /\ k + e >= 0
          /\ \A y \in (k + 1)..Len(t) : u[y + e] = t[y]
          /\ \A i \in 0..Len(a) : U[i][k + e] <= T[i][k] + 1
      BY <1>4, <2>1, <2>2, <2>4
    <3> HIDE DEF e
    <3>2. QED
      BY <1>1, <1>2, <1>3, <2>2, <3>1, SameRest
<1>9. QED
  BY <1>6, <1>7, <1>8, EditIs

-----------------------------------------------------------------------------
(***************************************************************************)
(* What is within n edits, step by step.                                   *)
(***************************************************************************)
OneMore(X, C) == X \cup UNION {Edits(t, C) : t \in X}

LEMMA OneMoreType ==
    ASSUME NEW S, NEW C \in SUBSET S, NEW X \in SUBSET Seq(S)
    PROVE  OneMore(X, C) \in SUBSET Seq(S)
BY EditsType DEF OneMore

Reaches(g, s, n, C) == g[0] = {s} /\ \A i \in 1..n : g[i] = OneMore(g[i - 1], C)

LEMMA WithinIs ==
    ASSUME NEW S, NEW s \in Seq(S), NEW C \in SUBSET S, NEW n \in Nat
    PROVE  \E g : Reaches(g, s, n, C) /\ Within(s, n, C) = g[n]
<1> DEFINE D == SUBSET Seq(S)
           Body(g) == [i \in 0..n |-> IF i = 0 THEN {s}
                          ELSE g[i - 1] \cup UNION {Edits(t, C) : t \in g[i - 1]}]
           reach == CHOOSE g : g = Body(g)
           f == [i \in Nat |-> [X \in D |-> OneMore(X, C)]]
           z == {s}
<1>1. z \in D /\ f \in [Nat -> [D -> D]]
  BY OneMoreType
<1>2. PICK g : Recurs(g, D, z, f, n)
  <2> HIDE DEF D, z, f
  <2>1. QED
    BY <1>1, Recursion
<1>3. g = Body(g)
  <2>1. ASSUME NEW i \in 0..n PROVE g[i] = Body(g)[i]
    <3>1. CASE i = 0
      BY <1>2, <3>1 DEF Recurs
    <3>2. CASE i # 0
      <4>1. i \in 1..n /\ i \in Nat /\ i - 1 \in 0..n
        BY <3>2
      <4>2. g[i] = f[i][g[i - 1]] /\ g[i - 1] \in D
        BY <1>2, <4>1 DEF Recurs
      <4>3. g[i] = OneMore(g[i - 1], C)
        BY <4>1, <4>2
      <4>4. QED
        BY <3>2, <4>3 DEF OneMore
    <3>3. QED
      BY <3>1, <3>2
  <2>2. g = [i \in 0..n |-> g[i]]
    BY <1>2 DEF Recurs
  <2>3. QED
    BY <2>1, <2>2
<1>4. reach = Body(reach)
  <2> HIDE DEF Body
  <2>1. QED
    BY <1>3
<1>5. Body(reach)[0] = {s} /\ \A i \in 1..n : Body(reach)[i] = OneMore(reach[i - 1], C)
  <2> HIDE DEF reach
  <2>1. QED
    BY DEF OneMore
<1>6. Reaches(reach, s, n, C)
  <2> HIDE DEF reach, Body
  <2>1. QED
    BY <1>4, <1>5 DEF Reaches
<1>7. Within(s, n, C) = reach[n]
  BY DEF Within
<1>8. QED
  <2> HIDE DEF reach
  <2>1. QED
    BY <1>6, <1>7

LEMMA WithinStep ==
    ASSUME NEW S, NEW s \in Seq(S), NEW C \in SUBSET S
    PROVE  /\ Within(s, 0, C) = {s}
           /\ \A n \in Nat : Within(s, n + 1, C) = OneMore(Within(s, n, C), C)
<1>1. Within(s, 0, C) = {s}
  <2>1. PICK g : Reaches(g, s, 0, C) /\ Within(s, 0, C) = g[0]
    BY WithinIs
  <2>2. QED
    BY <2>1 DEF Reaches
<1>2. ASSUME NEW n \in Nat PROVE Within(s, n + 1, C) = OneMore(Within(s, n, C), C)
  <2> DEFINE m == n + 1
  <2>1. PICK g : Reaches(g, s, n, C) /\ Within(s, n, C) = g[n]
    BY WithinIs
  <2>2. PICK h : Reaches(h, s, m, C) /\ Within(s, m, C) = h[m]
    <3>1. m \in Nat
      OBVIOUS
    <3> HIDE DEF m
    <3>2. QED
      BY <3>1, WithinIs
  <2>3. \A i \in 0..n : h[i] = g[i]
    <3> DEFINE G == {i \in 0..n : h[i] = g[i]}
    <3>1. 0 \in G
      <4>1. g[0] = {s} /\ h[0] = {s}
        BY <2>1, <2>2 DEF Reaches
      <4>2. 0 \in 0..n /\ h[0] = g[0]
        BY <4>1
      <4>3. QED
        BY <4>2
    <3>2. ASSUME NEW i \in 1..n, i - 1 \in G PROVE i \in G
      <4>1. g[i] = OneMore(g[i - 1], C)
        BY <2>1 DEF Reaches
      <4>2. i \in 1..m
        OBVIOUS
      <4>3. h[i] = OneMore(h[i - 1], C)
        BY <2>2, <4>2 DEF Reaches
      <4>4. h[i - 1] = g[i - 1]
        BY <3>2
      <4>5. QED
        BY <4>1, <4>3, <4>4
    <3>3. \A i \in 0..n : i \in G
      <4> HIDE DEF G
      <4>1. QED
        BY <3>1, <3>2, Stepwise
    <3>4. QED
      BY <3>3
  <2>4. h[m] = OneMore(h[n], C)
    BY <2>2 DEF Reaches
  <2>5. h[n] = g[n]
    BY <2>3
  <2>6. QED
    BY <2>1, <2>2, <2>4, <2>5
<1>3. QED
  BY <1>1, <1>2

LEMMA WithinType ==
    ASSUME NEW S, NEW s \in Seq(S), NEW C \in SUBSET S
    PROVE  \A n \in Nat : Within(s, n, C) \in SUBSET Seq(S)
<1> SUFFICES ASSUME NEW n \in Nat PROVE Within(s, n, C) \in SUBSET Seq(S)
  OBVIOUS
<1> DEFINE G == {i \in 0..n : Within(s, i, C) \in SUBSET Seq(S)}
<1>1. 0 \in G
  BY WithinStep
<1>2. ASSUME NEW i \in 1..n, i - 1 \in G PROVE i \in G
  <2>1. i - 1 \in Nat /\ Within(s, i - 1, C) \in SUBSET Seq(S) /\ (i - 1) + 1 = i
    BY <1>2
  <2>2. Within(s, i, C) = OneMore(Within(s, i - 1, C), C)
    BY <2>1, WithinStep
  <2>3. QED
    BY <2>1, <2>2, OneMoreType
<1>3. \A i \in 0..n : i \in G
  <2> HIDE DEF G
  <2>1. QED
    BY <1>1, <1>2, Stepwise
<1>4. QED
  BY <1>3

LEMMA WithinMore ==
    ASSUME NEW S, NEW s \in Seq(S), NEW C \in SUBSET S, NEW n \in Nat,
           NEW t \in Within(s, n, C), NEW u \in Edits(t, C) \cup {t}
    PROVE  u \in Within(s, n + 1, C)
<1>1. Within(s, n + 1, C) = OneMore(Within(s, n, C), C)
  BY WithinStep
<1>2. u \in OneMore(Within(s, n, C), C)
  BY DEF OneMore
<1>3. QED
  BY <1>1, <1>2

LEMMA WithinGrows ==
    ASSUME NEW S, NEW s \in Seq(S), NEW C \in SUBSET S, NEW n \in Nat, NEW k \in Nat
    PROVE  Within(s, n, C) \subseteq Within(s, n + k, C)
<1> DEFINE G == {i \in 0..k : Within(s, n, C) \subseteq Within(s, n + i, C)}
<1>1. 0 \in G
  OBVIOUS
<1>2. ASSUME NEW i \in 1..k, i - 1 \in G PROVE i \in G
  <2> DEFINE m == n + (i - 1)
  <2>1. m \in Nat /\ m + 1 = n + i
    OBVIOUS
  <2>2. Within(s, n, C) \subseteq Within(s, m, C)
    BY <1>2
  <2>3. Within(s, m, C) \subseteq Within(s, m + 1, C)
    <3> HIDE DEF m
    <3>1. QED
      BY <2>1, WithinMore
  <2>4. QED
    BY <2>1, <2>2, <2>3
<1>3. \A i \in 0..k : i \in G
  <2> HIDE DEF G
  <2>1. QED
    BY <1>1, <1>2, Stepwise
<1>4. QED
  BY <1>3

\* Nothing that is within n edits is further away than Levenshtein says.
LEMMA SelfDistance ==
    ASSUME NEW S, NEW a \in Seq(S) PROVE Levenshtein(a, a) = 0
<1>1. PICK T : IsTable(T, a, a) /\ Levenshtein(a, a) = T[Len(a)][Len(a)]
  BY TableExists
<1>2. Len(a) \in Nat
  BY LenProperties
<1> DEFINE G == {i \in 0..Len(a) : T[i][i] = 0}
<1>3. 0 \in G
  BY <1>1, <1>2 DEF IsTable
<1>4. ASSUME NEW i \in 1..Len(a), i - 1 \in G PROVE i \in G
  <2>1. T[i][i] \in Nat /\ T[i][i] <= T[i - 1][i - 1] + Cost(a[i], a[i]) /\ i \in 0..Len(a)
    BY <1>1, <1>2, Cell
  <2>2. Cost(a[i], a[i]) = 0 /\ T[i - 1][i - 1] = 0
    BY <1>4 DEF Cost
  <2>3. QED
    BY <2>1, <2>2
<1>5. \A i \in 0..Len(a) : i \in G
  <2> HIDE DEF G
  <2>1. QED
    BY <1>2, <1>3, <1>4, Stepwise
<1>6. QED
  BY <1>1, <1>2, <1>5

LEMMA LevenshteinType ==
    ASSUME NEW S, NEW a \in Seq(S), NEW b \in Seq(S) PROVE Levenshtein(a, b) \in Nat
<1>1. PICK T : IsTable(T, a, b) /\ Levenshtein(a, b) = T[Len(a)][Len(b)]
  BY TableExists
<1>2. Len(a) \in Nat /\ Len(b) \in Nat
  BY LenProperties
<1>3. QED
  BY <1>1, <1>2 DEF IsTable

LEMMA NotFurther ==
    ASSUME NEW S, NEW a \in Seq(S), NEW C \in SUBSET S, NEW n \in Nat,
           NEW b \in Within(a, n, C)
    PROVE  Levenshtein(a, b) <= n
<1> DEFINE G == {i \in 0..n : \A t \in Within(a, i, C) : Levenshtein(a, t) <= i}
<1>1. 0 \in G
  BY WithinStep, SelfDistance
<1>2. ASSUME NEW i \in 1..n, i - 1 \in G PROVE i \in G
  <2> DEFINE m == i - 1
  <2>1. m \in Nat /\ m + 1 = i
    OBVIOUS
  <2>2. \A t \in Within(a, m, C) : t \in Seq(S) /\ Levenshtein(a, t) <= m
    BY <1>2, <2>1, WithinType
  <2> HIDE DEF m
  <2>3. Within(a, m + 1, C) = OneMore(Within(a, m, C), C)
    BY <2>1, WithinStep
  <2>4. ASSUME NEW t \in Within(a, m, C), NEW u \in Edits(t, C)
        PROVE  Levenshtein(a, u) <= m + 1
    <3>1. t \in Seq(S) /\ u \in Seq(S)
      BY <2>2, EditsType
    <3>2. Levenshtein(a, u) <= Levenshtein(a, t) + 1
      BY <3>1, OneEdit
    <3>3. Levenshtein(a, u) \in Nat /\ Levenshtein(a, t) \in Nat
      BY <3>1, LevenshteinType
    <3>4. QED
      BY <2>1, <2>2, <3>2, <3>3
  <2>5. ASSUME NEW t \in Within(a, m, C) PROVE Levenshtein(a, t) <= m + 1
    BY <2>1, <2>2, LevenshteinType
  <2>6. \A t \in Within(a, m + 1, C) : Levenshtein(a, t) <= m + 1
    BY <2>3, <2>4, <2>5 DEF OneMore
  <2>7. QED
    BY <2>1, <2>6
<1>3. \A i \in 0..n : i \in G
  <2> HIDE DEF G
  <2>1. QED
    BY <1>1, <1>2, Stepwise
<1>4. QED
  BY <1>3

-----------------------------------------------------------------------------
(***************************************************************************)
(* And what Levenshtein says can be done.                                  *)
(***************************************************************************)
LEMMA AppendIs ==
    ASSUME NEW S, NEW t \in Seq(S), NEW c \in S
    PROVE  /\ Append(t, c) \in Seq(S) /\ Len(Append(t, c)) = Len(t) + 1
           /\ Len(t) \in Nat
           /\ \A y \in 1..Len(t) : Append(t, c)[y] = t[y]
           /\ Append(t, c)[Len(t) + 1] = c
BY AppendProperties, LenProperties

\* Edits of the last character.
LEMMA LastAdded ==
    ASSUME NEW S, NEW t \in Seq(S), NEW C \in SUBSET S, NEW c \in C
    PROVE  Append(t, c) \in Edits(t, C)
<1> DEFINE u == With(t, Len(t), c)
           v == Append(t, c)
           n == Len(t)
<1>1. c \in S /\ n \in Nat /\ n \in 0..n
  BY LenProperties
<1>2. /\ u \in Seq(S) /\ Len(u) = n + 1
      /\ \A y \in 1..n : u[y] = t[y]
      /\ u[n + 1] = c
  <2>1. Inserts(u, S, t, n, c)
    BY <1>1, Inserted
  <2>2. QED
    BY <2>1 DEF Inserts
<1>3. /\ v \in Seq(S) /\ Len(v) = n + 1
      /\ \A y \in 1..n : v[y] = t[y]
      /\ v[n + 1] = c
  BY <1>1, AppendIs
<1>4. u = v
  <2> HIDE DEF u, v
  <2>1. \A y \in 1..Len(u) : y \in 1..n \/ y = n + 1
    BY <1>1, <1>2
  <2>2. \A y \in 1..Len(u) : u[y] = v[y]
    BY <1>2, <1>3, <2>1
  <2>3. QED
    BY <1>2, <1>3, <2>2, SeqEqual
<1>5. u \in Edits(t, C)
  BY <1>1, EditIs
<1>6. QED
  BY <1>4, <1>5

LEMMA LastRemoved ==
    ASSUME NEW S, NEW t \in Seq(S), NEW C \in SUBSET S, NEW c \in S
    PROVE  t \in Edits(Append(t, c), C)
<1> DEFINE v == Append(t, c)
           n == Len(t) + 1
           u == Without(v, n)
<1>1. /\ v \in Seq(S) /\ Len(v) = n /\ Len(t) \in Nat
      /\ \A y \in 1..Len(t) : v[y] = t[y]
  BY AppendIs
<1>2. n \in 1..Len(v) /\ n - 1 = Len(t) /\ Len(v) - 1 = Len(t)
  BY <1>1
<1> HIDE DEF v, n
<1>3. /\ u \in Seq(S) /\ Len(u) = Len(v) - 1
      /\ \A y \in 1..(n - 1) : u[y] = v[y]
  BY <1>1, <1>2, Deleted
<1>4. u = t
  <2>1. Len(u) = Len(t) /\ \A y \in 1..Len(u) : u[y] = t[y]
    BY <1>1, <1>2, <1>3
  <2> HIDE DEF u
  <2>2. QED
    BY <1>3, <2>1, SeqEqual
<1>5. u \in Edits(v, C)
  BY <1>1, <1>2, EditIs
<1>6. QED
  BY <1>4, <1>5 DEF v

LEMMA LastChanged ==
    ASSUME NEW S, NEW t \in Seq(S), NEW C \in SUBSET S, NEW c \in S, NEW d \in C
    PROVE  Append(t, d) \in Edits(Append(t, c), C)
<1> DEFINE v == Append(t, c)
           w == Append(t, d)
           n == Len(t) + 1
           u == Changed(v, n, d)
<1>1. /\ v \in Seq(S) /\ Len(v) = n /\ Len(t) \in Nat
      /\ \A y \in 1..Len(t) : v[y] = t[y]
  BY AppendIs
<1>2. /\ w \in Seq(S) /\ Len(w) = n
      /\ \A y \in 1..Len(t) : w[y] = t[y]
      /\ w[n] = d
  BY AppendIs
<1>3. /\ n \in 1..n /\ n - 1 = Len(t) /\ d \in S
      /\ \A y \in 1..n : (y \in 1..Len(t) /\ y # n) \/ y = n
  BY <1>1
<1> HIDE DEF v, w, n
<1>4. /\ u \in Seq(S) /\ Len(u) = n
      /\ \A y \in 1..n : u[y] = IF y = n THEN d ELSE v[y]
  BY <1>1, <1>3, ExceptSeq DEF Changed
<1>5. u = w
  <2>1. \A y \in 1..Len(u) : u[y] = w[y]
    BY <1>1, <1>2, <1>3, <1>4
  <2> HIDE DEF u
  <2>2. QED
    BY <1>2, <1>4, <2>1, SeqEqual
<1>6. u \in Edits(v, C)
  BY <1>1, <1>3, EditIs
<1>7. QED
  BY <1>5, <1>6 DEF v, w

\* An edit does not mind what follows.
LEMMA EditExtends ==
    ASSUME NEW S, NEW t \in Seq(S), NEW C \in SUBSET S, NEW c \in S, NEW u \in Edits(t, C)
    PROVE  Append(u, c) \in Edits(Append(t, c), C)
<1> DEFINE v == Append(t, c)
           w == Append(u, c)
           n == Len(t)
<1>1. u \in Seq(S)
  BY EditsType
<1>2. /\ v \in Seq(S) /\ Len(v) = n + 1 /\ n \in Nat
      /\ \A y \in 1..n : v[y] = t[y]
      /\ v[n + 1] = c
  BY AppendIs
<1>3. /\ w \in Seq(S) /\ Len(w) = Len(u) + 1 /\ Len(u) \in Nat
      /\ \A y \in 1..Len(u) : w[y] = u[y]
      /\ w[Len(u) + 1] = c
  BY <1>1, AppendIs
<1> HIDE DEF v, w
<1>4. ASSUME NEW k \in 1..n, NEW d \in C, u = Changed(t, k, d)
      PROVE  w \in Edits(v, C)
  <2> DEFINE x == Changed(v, k, d)
  <2>1. Len(u) = n /\ \A y \in 1..n : u[y] = IF y = k THEN d ELSE t[y]
    BY <1>4, ExceptSeq DEF Changed
  <2>2. k \in 1..Len(v) /\ d \in S
    BY <1>2
  <2>3. /\ x \in Seq(S) /\ Len(x) = Len(v)
        /\ \A y \in 1..Len(v) : x[y] = IF y = k THEN d ELSE v[y]
    BY <1>2, <2>2, ExceptSeq DEF Changed
  <2>4. x \in Edits(v, C)
    BY <1>2, <2>2, EditIs
  <2> HIDE DEF x
  <2>5. ASSUME NEW y \in 1..Len(w) PROVE w[y] = x[y]
    <3>1. y \in 1..n \/ (y = n + 1 /\ y # k)
      BY <1>2, <1>3, <2>1
    <3>2. QED
      BY <1>2, <1>3, <2>1, <2>3, <3>1
  <2>6. w = x
    BY <1>2, <1>3, <2>1, <2>3, <2>5, SeqEqual
  <2>7. QED
    BY <2>4, <2>6
<1>5. ASSUME NEW k \in 1..n, u = Without(t, k) PROVE w \in Edits(v, C)
  <2> DEFINE x == Without(v, k)
  <2>1. /\ Len(u) = n - 1
        /\ \A y \in 1..(k - 1) : u[y] = t[y]
        /\ \A y \in (k + 1)..n : u[y - 1] = t[y]
    BY <1>5, Deleted
  <2>2. k \in 1..Len(v)
    BY <1>2
  <2>3. /\ x \in Seq(S) /\ Len(x) = Len(v) - 1
        /\ \A y \in 1..(k - 1) : x[y] = v[y]
        /\ \A y \in (k + 1)..Len(v) : x[y - 1] = v[y]
    BY <1>2, <2>2, Deleted
  <2>4. x \in Edits(v, C)
    BY <1>2, <2>2, EditIs
  <2> HIDE DEF x
  <2>5. ASSUME NEW y \in 1..Len(w) PROVE w[y] = x[y]
    <3>1. CASE y < k
      <4>1. y \in 1..(k - 1) /\ y \in 1..n /\ y \in 1..Len(u)
        BY <1>2, <2>1, <3>1
      <4>2. QED
        BY <1>2, <1>3, <2>1, <2>3, <4>1
    <3>2. CASE ~(y < k)
      <4> DEFINE z == y + 1
      <4>1. z \in (k + 1)..Len(v) /\ z - 1 = y
        BY <1>2, <1>3, <2>1, <3>2
      <4> HIDE DEF z
      <4>2. x[y] = v[z]
        BY <2>3, <4>1
      <4>3. CASE z = n + 1
        <5>1. y = Len(u) + 1
          BY <1>2, <2>1, <4>1, <4>3
        <5>2. QED
          BY <1>2, <1>3, <4>2, <4>3, <5>1
      <4>4. CASE z # n + 1
        <5>1. z \in (k + 1)..n /\ z \in 1..n /\ y \in 1..Len(u)
          BY <1>2, <1>3, <2>1, <4>1, <4>4
        <5>2. u[y] = t[z]
          BY <2>1, <4>1, <5>1
        <5>3. QED
          BY <1>2, <1>3, <4>2, <5>1, <5>2
      <4>5. QED
        BY <4>3, <4>4
    <3>3. QED
      BY <3>1, <3>2
  <2>6. Len(w) = Len(x)
    BY <1>2, <1>3, <2>1, <2>3
  <2>7. w = x
    BY <1>3, <2>3, <2>5, <2>6, SeqEqual
  <2>8. QED
    BY <2>4, <2>7
<1>6. ASSUME NEW k \in 0..n, NEW d \in C, u = With(t, k, d)
      PROVE  w \in Edits(v, C)
  <2> DEFINE x == With(v, k, d)
  <2>1. /\ Len(u) = n + 1
        /\ \A y \in 1..k : u[y] = t[y]
        /\ u[k + 1] = d
        /\ \A y \in (k + 1)..n : u[y + 1] = t[y]
    <3>1. Inserts(u, S, t, k, d)
      BY <1>6, Inserted
    <3>2. QED
      BY <3>1 DEF Inserts
  <2>2. k \in 0..Len(v) /\ d \in S
    BY <1>2
  <2>3. /\ x \in Seq(S) /\ Len(x) = Len(v) + 1
        /\ \A y \in 1..k : x[y] = v[y]
        /\ x[k + 1] = d
        /\ \A y \in (k + 1)..Len(v) : x[y + 1] = v[y]
    <3>1. Inserts(x, S, v, k, d)
      BY <1>2, <2>2, Inserted
    <3>2. QED
      BY <3>1 DEF Inserts
  <2>4. x \in Edits(v, C)
    BY <1>2, <2>2, EditIs
  <2> HIDE DEF x
  <2>5. ASSUME NEW y \in 1..Len(w) PROVE w[y] = x[y]
    <3>1. CASE y <= k
      <4>1. y \in 1..k /\ y \in 1..n /\ y \in 1..Len(u)
        BY <1>2, <2>1, <3>1
      <4>2. QED
        BY <1>2, <1>3, <2>1, <2>3, <4>1
    <3>2. CASE y = k + 1
      <4>1. k + 1 \in 1..Len(u)
        BY <1>2, <2>1
      <4>2. QED
        BY <1>3, <2>1, <2>3, <3>2, <4>1
    <3>3. CASE ~(y <= k) /\ y # k + 1
      <4> DEFINE z == y - 1
      <4>1. z \in (k + 1)..Len(v) /\ z + 1 = y
        BY <1>2, <1>3, <2>1, <3>3
      <4> HIDE DEF z
      <4>2. x[y] = v[z]
        BY <2>3, <4>1
      <4>3. CASE z = n + 1
        <5>1. y = Len(u) + 1
          BY <1>2, <2>1, <4>1, <4>3
        <5>2. QED
          BY <1>2, <1>3, <4>2, <4>3, <5>1
      <4>4. CASE z # n + 1
        <5>1. z \in (k + 1)..n /\ z \in 1..n /\ y \in 1..Len(u)
          BY <1>2, <1>3, <2>1, <4>1, <4>4
        <5>2. u[y] = t[z]
          BY <2>1, <4>1, <5>1
        <5>3. QED
          BY <1>2, <1>3, <4>2, <5>1, <5>2
      <4>5. QED
        BY <4>3, <4>4
    <3>4. QED
      BY <3>1, <3>2, <3>3
  <2>6. Len(w) = Len(x)
    BY <1>2, <1>3, <2>1, <2>3
  <2>7. w = x
    BY <1>3, <2>3, <2>5, <2>6, SeqEqual
  <2>8. QED
    BY <2>4, <2>7
<1>7. QED
  BY <1>4, <1>5, <1>6, EditIs DEF v, w

LEMMA WithinExtends ==
    ASSUME NEW S, NEW s \in Seq(S), NEW C \in SUBSET S, NEW c \in S, NEW n \in Nat,
           NEW t \in Within(s, n, C)
    PROVE  Append(t, c) \in Within(Append(s, c), n, C)
<1> DEFINE a == Append(s, c)
           G == {i \in 0..n : \A u \in Within(s, i, C) : Append(u, c) \in Within(a, i, C)}
<1>1. a \in Seq(S)
  BY AppendIs
<1> HIDE DEF a
<1>2. 0 \in G
  <2>1. Within(s, 0, C) = {s}
    BY WithinStep
  <2>2. Within(a, 0, C) = {a}
    BY <1>1, WithinStep
  <2>3. \A u \in Within(s, 0, C) : Append(u, c) \in Within(a, 0, C)
    BY <2>1, <2>2 DEF a
  <2>4. QED
    BY <2>3
<1>3. ASSUME NEW i \in 1..n, i - 1 \in G PROVE i \in G
  <2> DEFINE m == i - 1
  <2>1. m \in Nat /\ m + 1 = i
    OBVIOUS
  <2>2. \A u \in Within(s, m, C) : Append(u, c) \in Within(a, m, C)
    BY <1>3
  <2> HIDE DEF m
  <2>3. Within(s, m + 1, C) = OneMore(Within(s, m, C), C)
    BY <2>1, WithinStep
  <2>4. ASSUME NEW u \in Within(s, m, C) PROVE Append(u, c) \in Within(a, m + 1, C)
    BY <1>1, <2>1, <2>2, WithinMore
  <2>5. ASSUME NEW u \in Within(s, m, C), NEW v \in Edits(u, C)
        PROVE  Append(v, c) \in Within(a, m + 1, C)
    <3>1. u \in Seq(S)
      BY <2>1, WithinType
    <3>2. Append(v, c) \in Edits(Append(u, c), C)
      BY <3>1, EditExtends
    <3>3. Append(u, c) \in Within(a, m, C)
      BY <2>2
    <3>4. QED
      BY <1>1, <2>1, <3>2, <3>3, WithinMore
  <2>6. \A u \in Within(s, m + 1, C) : Append(u, c) \in Within(a, m + 1, C)
    BY <2>3, <2>4, <2>5 DEF OneMore
  <2>7. QED
    BY <2>1, <2>6
<1>4. \A i \in 0..n : i \in G
  <2> HIDE DEF G
  <2>1. QED
    BY <1>2, <1>3, Stepwise
<1>5. QED
  BY <1>4 DEF a

\* The three ways to a cell.
LEMMA ByInsertion ==
    ASSUME NEW S, NEW s \in Seq(S), NEW C \in SUBSET S, NEW n \in Nat,
           NEW t \in Within(s, n, C), NEW c \in C
    PROVE  Append(t, c) \in Within(s, n + 1, C)
<1>1. t \in Seq(S)
  BY WithinType
<1>2. Append(t, c) \in Edits(t, C)
  BY <1>1, LastAdded
<1>3. QED
  BY <1>2, WithinMore

LEMMA ByDeletion ==
    ASSUME NEW S, NEW s \in Seq(S), NEW C \in SUBSET S, NEW n \in Nat,
           NEW t \in Within(s, n, C), NEW c \in S
    PROVE  t \in Within(Append(s, c), n + 1, C)
<1>1. t \in Seq(S) /\ Append(s, c) \in Seq(S)
  BY WithinType, AppendIs
<1>2. Append(t, c) \in Within(Append(s, c), n, C)
  BY WithinExtends
<1>3. t \in Edits(Append(t, c), C)
  BY <1>1, LastRemoved
<1>4. QED
  BY <1>1, <1>2, <1>3, WithinMore

LEMMA ByReplacement ==
    ASSUME NEW S, NEW s \in Seq(S), NEW C \in SUBSET S, NEW n \in Nat,
           NEW t \in Within(s, n, C), NEW c \in S, NEW d \in C
    PROVE  Append(t, d) \in Within(Append(s, c), n + Cost(c, d), C)
<1>1. t \in Seq(S) /\ Append(s, c) \in Seq(S)
  BY WithinType, AppendIs
<1>2. Append(t, c) \in Within(Append(s, c), n, C)
  BY WithinExtends
<1>3. CASE c = d
  BY <1>2, <1>3 DEF Cost
<1>4. CASE c # d
  <2>1. Append(t, d) \in Edits(Append(t, c), C)
    BY <1>1, LastChanged
  <2>2. Append(t, d) \in Within(Append(s, c), n + 1, C)
    BY <1>1, <1>2, <2>1, WithinMore
  <2>3. QED
    BY <1>4, <2>2 DEF Cost
<1>5. QED
  BY <1>3, <1>4

LEMMA PrefixGrows ==
    ASSUME NEW S, NEW a \in Seq(S), NEW i \in 1..Len(a)
    PROVE  /\ SubSeq(a, 1, i) = Append(SubSeq(a, 1, i - 1), a[i])
           /\ a[i] \in S
           /\ SubSeq(a, 1, i - 1) \in Seq(S)
<1> DEFINE j == i - 1
<1>1. Len(a) \in Nat /\ j \in 0..Len(a) /\ i \in 0..Len(a) /\ j + 1 = i
  BY LenProperties
<1>2. a[i] \in S
  BY ElementOfSeq
<1> HIDE DEF j
<1> DEFINE x == SubSeq(a, 1, j)
           y == SubSeq(a, 1, i)
           z == Append(x, a[i])
<1>3. x \in Seq(S) /\ Len(x) = j /\ \A k \in 1..j : x[k] = a[k]
  BY <1>1, PrefixIs
<1>4. y \in Seq(S) /\ Len(y) = i /\ \A k \in 1..i : y[k] = a[k]
  BY <1>1, PrefixIs
<1>5. /\ z \in Seq(S) /\ Len(z) = Len(x) + 1
      /\ \A k \in 1..Len(x) : z[k] = x[k]
      /\ z[Len(x) + 1] = a[i]
  BY <1>2, <1>3, AppendIs
<1> HIDE DEF x, y, z
<1>6. ASSUME NEW k \in 1..Len(y) PROVE y[k] = z[k]
  <2>1. k \in 1..j \/ k = j + 1
    BY <1>1, <1>4
  <2>2. QED
    BY <1>1, <1>3, <1>4, <1>5, <2>1
<1>7. y = z
  BY <1>1, <1>3, <1>4, <1>5, <1>6, SeqEqual
<1>8. QED
  BY <1>2, <1>3, <1>7 DEF x, y, z, j

LEMMA ReachesCells ==
    ASSUME NEW S, NEW a \in Seq(S), NEW b \in Seq(S), NEW T, IsTable(T, a, b),
           NEW C \in SUBSET S, \A j \in 1..Len(b) : b[j] \in C
    PROVE  b \in Within(a, T[Len(a)][Len(b)], C)
<1> DEFINE x(i) == SubSeq(a, 1, i)
           y(j) == SubSeq(b, 1, j)
           done(i, j) == y(j) \in Within(x(i), T[i][j], C)
           G == {p \in (0..Len(a)) \X (0..Len(b)) : done(p[1], p[2])}
<1>0. \A i \in 1..Len(a), j \in 1..Len(b) :
         \/ T[i][j] = T[i][j - 1] + 1
         \/ T[i][j] = T[i - 1][j] + 1
         \/ T[i][j] = T[i - 1][j - 1] + Cost(a[i], b[j])
  BY Cell
<1>1. Len(a) \in Nat /\ Len(b) \in Nat
  BY LenProperties
<1>2. \A i \in 0..Len(a) : x(i) \in Seq(S)
  BY PrefixIs
<1>3. ASSUME NEW i \in 1..Len(a) PROVE x(i) = Append(x(i - 1), a[i]) /\ a[i] \in S
  BY PrefixGrows
<1>4. ASSUME NEW j \in 1..Len(b) PROVE y(j) = Append(y(j - 1), b[j]) /\ b[j] \in C
  BY PrefixGrows
<1>5. x(0) = <<>> /\ y(0) = <<>>
  BY SubSeqEmpty
<1> HIDE DEF x, y
<1>6. ASSUME NEW i \in 0..Len(a), NEW j \in 1..Len(b), done(i, j - 1),
             T[i][j] = T[i][j - 1] + 1
      PROVE  done(i, j)
  <2> DEFINE n == T[i][j - 1]
             t == y(j - 1)
  <2>1. n \in Nat
    BY <1>1 DEF IsTable
  <2>2. t \in Within(x(i), n, C) /\ b[j] \in C /\ x(i) \in Seq(S)
    BY <1>2, <1>4, <1>6
  <2>3. Append(t, b[j]) \in Within(x(i), n + 1, C)
    <3> HIDE DEF n, t
    <3>1. QED
      BY <2>1, <2>2, ByInsertion
  <2>4. QED
    BY <1>4, <1>6, <2>3
<1>7. ASSUME NEW i \in 1..Len(a), NEW j \in 0..Len(b), done(i - 1, j),
             T[i][j] = T[i - 1][j] + 1
      PROVE  done(i, j)
  <2> DEFINE n == T[i - 1][j]
             s == x(i - 1)
  <2>1. n \in Nat /\ i - 1 \in 0..Len(a)
    BY <1>1 DEF IsTable
  <2>2. y(j) \in Within(s, n, C) /\ a[i] \in S /\ s \in Seq(S)
    BY <1>2, <1>3, <1>7, <2>1
  <2>3. y(j) \in Within(Append(s, a[i]), n + 1, C)
    <3> HIDE DEF n, s
    <3>1. QED
      BY <2>1, <2>2, ByDeletion
  <2>4. QED
    BY <1>3, <1>7, <2>3
<1>8. ASSUME NEW i \in 1..Len(a), NEW j \in 1..Len(b), done(i - 1, j - 1),
             T[i][j] = T[i - 1][j - 1] + Cost(a[i], b[j])
      PROVE  done(i, j)
  <2> DEFINE n == T[i - 1][j - 1]
             s == x(i - 1)
             t == y(j - 1)
  <2>1. n \in Nat /\ i - 1 \in 0..Len(a)
    BY <1>1 DEF IsTable
  <2>2. t \in Within(s, n, C) /\ a[i] \in S /\ b[j] \in C /\ s \in Seq(S)
    BY <1>2, <1>3, <1>4, <1>8, <2>1
  <2>3. Append(t, b[j]) \in Within(Append(s, a[i]), n + Cost(a[i], b[j]), C)
    <3> HIDE DEF n, s, t
    <3>1. QED
      BY <2>1, <2>2, ByReplacement
  <2>4. QED
    BY <1>3, <1>4, <1>8, <2>3
<1>9. ASSUME NEW i \in 0..Len(a), NEW j \in 0..Len(b),
             i # 0 => done(i - 1, j), j # 0 => done(i, j - 1),
             i # 0 /\ j # 0 => done(i - 1, j - 1)
      PROVE  done(i, j)
  <2> HIDE DEF done
  <2>1. CASE i = 0 /\ j = 0
    <3>1. T[0][0] = 0
      BY <1>1 DEF IsTable
    <3>2. x(0) \in Within(x(0), 0, C)
      BY <1>1, <1>2, WithinStep
    <3>3. QED
      BY <1>5, <2>1, <3>1, <3>2 DEF done
  <2>2. CASE i = 0 /\ j # 0
    <3>1. j \in 1..Len(b) /\ j - 1 \in 0..Len(b)
      BY <1>1, <2>2
    <3>2. T[0][j] = j /\ T[0][j - 1] = j - 1
      BY <3>1 DEF IsTable
    <3>3. T[i][j] = T[i][j - 1] + 1
      BY <2>2, <3>2
    <3>4. QED
      BY <1>6, <1>9, <2>2, <3>1, <3>3
  <2>3. CASE i # 0 /\ j = 0
    <3>1. i \in 1..Len(a) /\ i - 1 \in 0..Len(a)
      BY <1>1, <2>3
    <3>2. T[i][0] = i /\ T[i - 1][0] = i - 1
      BY <3>1 DEF IsTable
    <3>3. T[i][j] = T[i - 1][j] + 1
      BY <2>3, <3>2
    <3>4. QED
      BY <1>7, <1>9, <2>3, <3>1, <3>3
  <2>4. CASE i # 0 /\ j # 0
    <3>1. i \in 1..Len(a) /\ j \in 1..Len(b)
      BY <1>1, <2>4
    <3>2. \/ T[i][j] = T[i][j - 1] + 1
          \/ T[i][j] = T[i - 1][j] + 1
          \/ T[i][j] = T[i - 1][j - 1] + Cost(a[i], b[j])
      BY <1>0, <3>1
    <3>3. QED
      BY <1>6, <1>7, <1>8, <1>9, <2>4, <3>1, <3>2
  <2>5. QED
    BY <2>1, <2>2, <2>3, <2>4
<1>10. \A i \in 0..Len(a), j \in 0..Len(b) :
          /\ i # 0 => <<i - 1, j>> \in G
          /\ j # 0 => <<i, j - 1>> \in G
          /\ i # 0 /\ j # 0 => <<i - 1, j - 1>> \in G
          => <<i, j>> \in G
  <2> HIDE DEF done
  <2>1. QED
    BY <1>9
<1>11. \A i \in 0..Len(a), j \in 0..Len(b) : <<i, j>> \in G
  <2> HIDE DEF G
  <2>1. QED
    BY <1>1, <1>10, Cells
<1>12. done(Len(a), Len(b))
  <2>1. <<Len(a), Len(b)>> \in G
    <3> HIDE DEF G
    <3>1. QED
      BY <1>1, <1>11
  <2> HIDE DEF done
  <2>2. QED
    BY <2>1
<1>13. x(Len(a)) = a /\ y(Len(b)) = b
  BY SubSeqFull DEF x, y
<1>14. QED
  BY <1>12, <1>13

-----------------------------------------------------------------------------
\* The rows end in the distance: b can be made of a with n edits, of b's own
\* characters, just if Levenshtein's result is at most n.
THEOREM LevenshteinIsDistance ==
    ASSUME NEW S, NEW a \in Seq(S), NEW b \in Seq(S), NEW n \in Nat
    PROVE  b \in Within(a, n, {b[j] : j \in DOMAIN b}) <=> Levenshtein(a, b) <= n
<1> DEFINE C == {b[j] : j \in DOMAIN b}
<1>1. C \in SUBSET S /\ \A j \in 1..Len(b) : b[j] \in C
  BY LenProperties, ElementOfSeq
<1> HIDE DEF C
<1>2. b \in Within(a, n, C) => Levenshtein(a, b) <= n
  BY <1>1, NotFurther
<1>3. b \in Within(a, Levenshtein(a, b), C)
  <2>1. PICK T : IsTable(T, a, b) /\ Levenshtein(a, b) = T[Len(a)][Len(b)]
    BY TableExists
  <2> DEFINE m == T[Len(a)][Len(b)]
  <2>2. b \in Within(a, m, C)
    BY <1>1, <2>1, ReachesCells
  <2> HIDE DEF m
  <2>3. Levenshtein(a, b) = m
    BY <2>1 DEF m
  <2>4. QED
    BY <2>2, <2>3
<1>4. ASSUME Levenshtein(a, b) <= n PROVE b \in Within(a, n, C)
  <2> DEFINE m == Levenshtein(a, b)
             k == n - m
  <2>1. m \in Nat
    BY LevenshteinType
  <2>2. k \in Nat /\ m + k = n /\ b \in Within(a, m, C)
    BY <1>3, <1>4, <2>1
  <2> HIDE DEF m, k
  <2>3. QED
    BY <1>1, <2>1, <2>2, WithinGrows
<1>5. QED
  BY <1>2, <1>4 DEF C

-----------------------------------------------------------------------------
(***************************************************************************)
(* What SuggestMatches returns.                                            *)
(***************************************************************************)
\* The first n of K, in order.
BestOf(t, n, K) == /\ \A i \in 1..(n - 1) : t[i].score <= t[i + 1].score
                   /\ Cardinality({t[i] : i \in 1..n}) = n
                   /\ \A c \in K \ {t[i] : i \in 1..n} :
                         \A i \in 1..n : t[i].score <= c.score

TopOnes(t, n, limit, K) ==
    /\ n \in 0..limit
    /\ \A i, j \in 1..n : t[i] = t[j] => i = j
    /\ \A i, j \in 1..n : i < j => t[i].score <= t[j].score
    /\ \A c \in K : (\A i \in 1..n : t[i] # c) =>
                       n = limit /\ \A i \in 1..n : t[i].score <= c.score

LEMMA TopOf ==
    ASSUME NEW K, IsFiniteSet(K), \A c \in K : c.score \in Int, NEW limit \in Nat,
           NEW n, n = Least(limit, Cardinality(K)), NEW t \in [1..n -> K], BestOf(t, n, K)
    PROVE  TopOnes(t, n, limit, K)
<1> DEFINE R == {t[i] : i \in 1..n}
<1>1. Cardinality(K) \in Nat
  BY FS_CardinalityType
<1>2. n \in 0..limit /\ (n = limit \/ n = Cardinality(K))
  BY <1>1 DEF Least
<1>3. Cardinality(R) = n /\ R \in SUBSET K
  BY DEF BestOf
<1>4. \A i, j \in 1..n : t[i] = t[j] => i = j
  <2>1. t \in Surjection(1..n, R)
    BY DEF Surjection
  <2>2. IsFiniteSet(1..n) /\ Cardinality(1..n) = n
    <3>1. 1 \in Int /\ n \in Int /\ (n >= 1 \/ n = 0)
      BY <1>2
    <3>2. IsFiniteSet(1..n) /\ Cardinality(1..n) = IF 1 > n THEN 0 ELSE n - 1 + 1
      BY <3>1, FS_Interval
    <3>3. QED
      BY <3>1, <3>2
  <2> HIDE DEF R
  <2>3. t \in Injection(1..n, R)
    BY <1>3, <2>1, <2>2, FS_Surjection
  <2>4. QED
    BY <2>3 DEF Injection, IsInjective
<1>5. ASSUME NEW i \in 1..n, NEW j \in 1..n, i < j PROVE t[i].score <= t[j].score
  <2> DEFINE score(k) == t[k].score
  <2>1. \A k \in 1..n : score(k) \in Int
    OBVIOUS
  <2>2. \A k \in 1..(n - 1) : score(k) <= score(k + 1)
    BY DEF BestOf
  <2> DEFINE rises(d) == \A k \in 1..n : k + d <= n => score(k) <= score(k + d)
             G == {d \in 0..n : rises(d)}
  <2> HIDE DEF score
  <2>3. 0 \in G
    <3>1. ASSUME NEW k \in 1..n PROVE score(k) <= score(k + 0)
      <4>1. k + 0 = k /\ score(k) \in Int
        BY <2>1
      <4>2. QED
        BY <4>1
    <3>2. QED
      BY <1>2, <3>1
  <2>4. ASSUME NEW d \in 1..n, d - 1 \in G PROVE d \in G
    <3>1. ASSUME NEW k \in 1..n, k + d <= n PROVE score(k) <= score(k + d)
      <4> DEFINE m == k + (d - 1)
      <4>1. m \in 1..(n - 1) /\ m \in 1..n /\ m + 1 = k + d /\ m + 1 \in 1..n
        BY <1>2, <3>1
      <4>2. score(k) <= score(m)
        BY <2>4, <4>1
      <4> HIDE DEF m
      <4>3. score(m) <= score(m + 1)
        BY <2>2, <4>1
      <4>4. score(k) \in Int /\ score(m) \in Int /\ score(m + 1) \in Int
        BY <2>1, <4>1
      <4>5. score(k) <= score(m + 1)
        BY <4>2, <4>3, <4>4
      <4>6. QED
        BY <4>1, <4>5
    <3>2. QED
      BY <1>2, <3>1
  <2>5. score(i) <= score(j)
    <3> DEFINE d == j - i
    <3>1. d \in 0..n /\ i + d = j /\ n \in Nat
      BY <1>2, <1>5
    <3> HIDE DEF d
    <3>2. \A x \in 0..n : x \in G
      <4> HIDE DEF G
      <4>1. QED
        BY <2>3, <2>4, <3>1, Stepwise
    <3>3. i + d <= n /\ rises(d)
      BY <3>1, <3>2
    <3>4. QED
      BY <3>1, <3>3
  <2>6. QED
    BY <2>5 DEF score
<1>6. ASSUME NEW c \in K, \A i \in 1..n : t[i] # c
      PROVE  n = limit /\ \A i \in 1..n : t[i].score <= c.score
  <2>1. c \notin R
    BY <1>6
  <2>2. n # Cardinality(K)
    <3> HIDE DEF R
    <3>1. QED
      BY <1>3, <2>1, FS_Subset
  <2>3. QED
    BY <1>2, <2>1, <2>2 DEF BestOf
<1>7. QED
  BY <1>2, <1>4, <1>5, <1>6 DEF TopOnes

LEMMA LowerType ==
    ASSUME NEW t \in Seq(DOMAIN LowerOf)
    PROVE  Lower(t) \in Seq({LowerOf[c] : c \in DOMAIN LowerOf}) /\ Len(Lower(t)) = Len(t)
<1>1. DOMAIN t = 1..Len(t) /\ Len(t) \in Nat /\ \A i \in 1..Len(t) : t[i] \in DOMAIN LowerOf
  BY LenProperties, ElementOfSeq
<1>2. Lower(t) \in [1..Len(t) -> {LowerOf[c] : c \in DOMAIN LowerOf}]
  BY <1>1 DEF Lower
<1>3. QED
  BY <1>1, <1>2, IsASeq, LenProperties

\* A word occurs in itself; so the empty one needs no distance.
LEMMA OccursInItself == ASSUME NEW S, NEW t \in Seq(S) PROVE Occurs(t, t)
<1>1. Len(t) \in Nat /\ SubSeq(t, 1, Len(t)) = t
  BY LenProperties, SubSeqFull
<1>2. 0 \in 0..(Len(t) - Len(t)) /\ SubSeq(t, 0 + 1, 0 + Len(t)) = t
  BY <1>1
<1>3. QED
  BY <1>2 DEF Occurs

LEMMA CandidateIs ==
    ASSUME NEW S, NEW q \in Seq(S), NEW t \in Seq(S)
    PROVE  IsCandidate(q, t) <=> \/ Occurs(q, t)
                                 \/ Levenshtein(q, t) <= Longer(q, t) \div 2
<1>1. Len(q) \in Nat /\ Len(t) \in Nat
  BY LenProperties
<1>2. ASSUME Longer(q, t) = 0 PROVE Occurs(q, t)
  <2>1. Len(q) = 0 /\ Len(t) = 0
    BY <1>1, <1>2 DEF Longer
  <2>2. q = t
    BY <2>1, SeqEqual
  <2>3. QED
    BY <2>2, OccursInItself
<1>3. QED
  BY <1>2 DEF IsCandidate

LEMMA ScoreType ==
    ASSUME NEW S, NEW q \in Seq(S), NEW t \in Seq(S) PROVE Score(q, t) \in Int
BY LenProperties, LevenshteinType DEF Score

\* Only the string itself is no edit away.
LEMMA Apart ==
    ASSUME NEW S, NEW q \in Seq(S), NEW t \in Seq(S), ~Occurs(q, t)
    PROVE  Levenshtein(q, t) > 0
<1> DEFINE C == {t[j] : j \in DOMAIN t}
<1>1. Levenshtein(q, t) \in Nat
  BY LevenshteinType
<1>2. CASE Levenshtein(q, t) = 0
  <2>1. t \in Within(q, 0, C)
    BY <1>2, LevenshteinIsDistance
  <2>2. C \in SUBSET S
    BY LenProperties, ElementOfSeq
  <2> HIDE DEF C
  <2>3. t = q
    BY <2>1, <2>2, WithinStep
  <2>4. QED
    BY <2>3, OccursInItself
<1>3. QED
  BY <1>1, <1>2

\* Of two titles the one that has the query in it has the lower score, if it
\* is no longer than 1000; of two that have it the shorter one, of two that
\* have not the nearer one.
Outranks(q, t, u) == IF Occurs(q, t) THEN Occurs(q, u) => Len(t) < Len(u)
                     ELSE ~Occurs(q, u) /\ Levenshtein(q, t) < Levenshtein(q, u)

LEMMA ScoresRank ==
    ASSUME NEW S, NEW q \in Seq(S), NEW t \in Seq(S), NEW u \in Seq(S),
           Len(t) <= 1000, Outranks(q, t, u)
    PROVE  Score(q, t) < Score(q, u)
<1>1. Len(t) \in Nat /\ Len(u) \in Nat /\ Levenshtein(q, u) \in Nat
  BY LenProperties, LevenshteinType
<1>2. CASE Occurs(q, t) /\ Occurs(q, u)
  BY <1>1, <1>2 DEF Outranks, Score
<1>3. CASE Occurs(q, t) /\ ~Occurs(q, u)
  <2>1. Score(q, t) = Len(t) - 1000 /\ Score(q, u) = Levenshtein(q, u)
    BY <1>3 DEF Score
  <2>2. Levenshtein(q, u) > 0
    BY <1>3, Apart
  <2>3. QED
    BY <1>1, <2>1, <2>2
<1>4. CASE ~Occurs(q, t)
  BY <1>4 DEF Outranks, Score
<1>5. QED
  BY <1>2, <1>3, <1>4

\* The list s is of H's best candidates for q by their score, limit at most.
Listed(s, q, limit, H) ==
    /\ Len(s) \in 0..limit /\ DOMAIN s = 1..Len(s)
    /\ \A i, j \in DOMAIN s : s[i] = s[j] => i = j
    /\ \A i \in DOMAIN s : s[i] \in H /\ IsCandidate(q, Lower(s[i].title))
    /\ \A i, j \in DOMAIN s :
          i < j => Score(q, Lower(s[i].title)) <= Score(q, Lower(s[j].title))
    /\ \A c \in H : IsCandidate(q, Lower(c.title)) /\ (\A i \in DOMAIN s : s[i] # c) =>
          /\ Len(s) = limit
          /\ \A i \in DOMAIN s : Score(q, Lower(s[i].title)) <= Score(q, Lower(c.title))

\* What SuggestMatches chooses from.
Candidates(q, H) == {[item |-> i, score |-> Score(q, Lower(i.title))] :
                        i \in {x \in H : IsCandidate(q, Lower(x.title))}}

LEMMA CandidatesType ==
    ASSUME NEW query \in Seq(DOMAIN LowerOf), NEW H, IsFiniteSet(H),
           \A i \in H : i.title \in Seq(DOMAIN LowerOf)
    PROVE  /\ IsFiniteSet(Candidates(Lower(query), H))
           /\ \A c \in Candidates(Lower(query), H) : c.score \in Int
<1> DEFINE q == Lower(query)
           score(i) == Score(q, Lower(i.title))
           fits(i) == IsCandidate(q, Lower(i.title))
           I == {x \in H : fits(x)}
           rec(i) == [item |-> i, score |-> score(i)]
           K == {rec(i) : i \in I}
<1>1. \A i \in H : score(i) \in Int
  BY LowerType, ScoreType
<1>2. IsFiniteSet(K)
  <2>1. IsFiniteSet(I)
    <3>1. I \in SUBSET H
      OBVIOUS
    <3> HIDE DEF I
    <3>2. QED
      BY <3>1, FS_Subset
  <2>2. [i \in I |-> rec(i)] \in Surjection(I, K)
    <3> HIDE DEF I, rec
    <3>1. QED
      BY DEF Surjection
  <2> HIDE DEF I, K
  <2>3. QED
    BY <2>1, <2>2, FS_Surjection
<1>3. \A c \in K : c.score \in Int
  <2> HIDE DEF score, fits
  <2>1. QED
    BY <1>1
<1>4. QED
  BY <1>2, <1>3 DEF Candidates

\* For any items, query and limit: what SuggestMatches returns are candidates,
\* none twice, by their scores, and whatever was left out scores no better.
THEOREM SuggestsListed ==
    ASSUME NEW query \in Seq(DOMAIN LowerOf), NEW H, IsFiniteSet(H),
           \A i \in H : i.title \in Seq(DOMAIN LowerOf),
           NEW limit \in Nat, NEW s \in SuggestMatches(query, H, limit)
    PROVE  Listed(s, Lower(query), limit, H)
<1> DEFINE q == Lower(query)
           score(i) == Score(q, Lower(i.title))
           fits(i) == IsCandidate(q, Lower(i.title))
           K == Candidates(q, H)
           n == Least(limit, Cardinality(K))
<1>1. PICK t \in [1..n -> K] : BestOf(t, n, K) /\ s = [i \in 1..n |-> t[i].item]
  BY DEF SuggestMatches, Candidates, BestOf
<1>2. \A c \in K : c.item \in H /\ fits(c.item) /\ c.score = score(c.item)
  <2> HIDE DEF q
  <2>1. QED
    BY DEF Candidates
<1>3. \A c, d \in K : c.item = d.item => c = d
  <2> HIDE DEF q
  <2>1. ASSUME NEW c \in K PROVE c = [item |-> c.item, score |-> score(c.item)]
    <3>1. PICK i \in H : c = [item |-> i, score |-> score(i)]
      BY DEF Candidates
    <3> HIDE DEF score
    <3>2. c.item = i
      BY <3>1
    <3>3. QED
      BY <3>1, <3>2
  <2> HIDE DEF score, K
  <2>2. QED
    BY <2>1
<1>4. ASSUME NEW i \in H, fits(i) PROVE \E c \in K : c.item = i
  <2> HIDE DEF q
  <2> DEFINE c == [item |-> i, score |-> score(i)]
  <2>1. c \in K
    BY <1>4 DEF Candidates
  <2>2. c.item = i
    OBVIOUS
  <2> HIDE DEF c, K
  <2>3. QED
    BY <2>1, <2>2
<1>5. IsFiniteSet(K) /\ \A c \in K : c.score \in Int
  BY CandidatesType
<1>6. n = Least(limit, Cardinality(K))
  OBVIOUS
<1> HIDE DEF K, n
<1>7. TopOnes(t, n, limit, K)
  BY <1>1, <1>5, <1>6, TopOf
<1> HIDE DEF score, fits, q
<1>8. Len(s) = n /\ DOMAIN s = 1..n /\ n \in 0..limit
  BY <1>1, <1>7 DEF TopOnes
<1>9. \A i \in 1..n : t[i] \in K /\ s[i] = t[i].item /\ t[i].score = score(s[i])
  BY <1>1, <1>2
<1>10. \A i, j \in 1..n : s[i] = s[j] => i = j
  BY <1>3, <1>7, <1>9 DEF TopOnes
<1>11. \A i \in 1..n : s[i] \in H /\ fits(s[i])
  BY <1>2, <1>9
<1>12. \A i, j \in 1..n : i < j => score(s[i]) <= score(s[j])
  BY <1>7, <1>9 DEF TopOnes
<1>13. ASSUME NEW c \in H, fits(c), \A i \in 1..n : s[i] # c
       PROVE  n = limit /\ \A i \in 1..n : score(s[i]) <= score(c)
  <2>1. PICK d \in K : d.item = c
    BY <1>4, <1>13
  <2>2. d.score = score(c) /\ \A i \in 1..n : t[i] # d
    BY <1>2, <1>9, <1>13, <2>1
  <2>3. QED
    BY <1>7, <1>9, <2>2 DEF TopOnes
<1>14. QED
  BY <1>8, <1>10, <1>11, <1>12, <1>13 DEF Listed, score, fits, q

\* Some element of a finite set has the lowest score.
LEMMA Lowest ==
    ASSUME NEW K, IsFiniteSet(K), K # {}, \A c \in K : c.score \in Int
    PROVE  \E c \in K : \A d \in K : c.score <= d.score
<1> DEFINE n == Cardinality(K)
<1>1. n \in Nat /\ ExistsBijection(1..n, K)
  BY FS_CardinalityType
<1>2. PICK f \in [1..n -> K] : \A c \in K : \E i \in 1..n : f[i] = c
  <2> HIDE DEF n
  <2>1. QED
    BY <1>1 DEF ExistsBijection, Bijection, Surjection, Injection
<1> HIDE DEF n
<1> DEFINE G == {j \in 0..n : j # 0 =>
                    \E i \in 1..j : \A k \in 1..j : f[i].score <= f[k].score}
<1>3. 0 \in G
  BY <1>1
<1>4. ASSUME NEW j \in 1..n, j - 1 \in G PROVE j \in G
  <2> DEFINE score(k) == f[k].score
  <2>1. \A k \in 1..n : score(k) \in Int
    OBVIOUS
  <2>2. j - 1 # 0 => \E i \in 1..(j - 1) : \A k \in 1..(j - 1) : score(i) <= score(k)
    BY <1>4
  <2> HIDE DEF score
  <2>3. \E i \in 1..j : \A k \in 1..j : score(i) <= score(k)
    <3>1. CASE j = 1
      <4>1. score(1) <= score(1)
        BY <2>1, <3>1
      <4>2. QED
        BY <3>1, <4>1
    <3>2. CASE j # 1
      <4>1. PICK i \in 1..(j - 1) : \A k \in 1..(j - 1) : score(i) <= score(k)
        BY <1>1, <2>2, <3>2
      <4>2. score(i) \in Int /\ score(j) \in Int /\ i \in 1..j /\ j \in 1..j
        BY <1>1, <2>1
      <4>3. CASE score(i) <= score(j)
        <5>1. \A k \in 1..j : score(i) <= score(k)
          BY <4>1, <4>3
        <5>2. QED
          BY <4>2, <5>1
      <4>4. CASE ~(score(i) <= score(j))
        <5>1. ASSUME NEW k \in 1..j PROVE score(j) <= score(k)
          <6>1. CASE k = j
            BY <4>2, <6>1
          <6>2. CASE k # j
            <7>1. k \in 1..(j - 1) /\ k \in 1..n
              BY <1>1, <6>2
            <7>2. score(i) <= score(k) /\ score(k) \in Int
              BY <2>1, <4>1, <7>1
            <7>3. QED
              BY <4>2, <4>4, <7>2
          <6>3. QED
            BY <6>1, <6>2
        <5>2. QED
          BY <4>2, <5>1
      <4>5. QED
        BY <4>3, <4>4
    <3>3. QED
      BY <3>1, <3>2
  <2>4. \E i \in 1..j : \A k \in 1..j : f[i].score <= f[k].score
    BY <2>3 DEF score
  <2>5. QED
    BY <1>1, <2>4
<1>5. n \in G
  <2> HIDE DEF G
  <2>1. \A j \in 0..n : j \in G
    BY <1>1, <1>3, <1>4, Stepwise
  <2>2. QED
    BY <1>1, <2>1
<1>6. n # 0
  BY <1>2
<1>7. PICK i \in 1..n : \A k \in 1..n : f[i].score <= f[k].score
  BY <1>5, <1>6
<1>8. \A d \in K : f[i].score <= d.score
  BY <1>2, <1>7
<1>9. QED
  BY <1>8

LEMMA BestExists ==
    ASSUME NEW K, IsFiniteSet(K), \A c \in K : c.score \in Int, NEW n \in 0..Cardinality(K)
    PROVE  \E t \in [1..n -> K] : BestOf(t, n, K)
<1> DEFINE has(m) == \E t \in [1..m -> K] : BestOf(t, m, K)
           G == {m \in 0..n : has(m)}
<1>1. Cardinality(K) \in Nat /\ n \in Nat
  BY FS_CardinalityType
<1>2. 0 \in G
  <2> DEFINE t == [i \in 1..0 |-> i]
  <2>1. t \in [1..0 -> K] /\ {t[i] : i \in 1..0} = {}
    OBVIOUS
  <2>2. Cardinality({}) = 0
    BY FS_EmptySet
  <2>3. BestOf(t, 0, K)
    BY <2>1, <2>2 DEF BestOf
  <2> HIDE DEF t
  <2>4. has(0)
    BY <2>1, <2>3
  <2> HIDE DEF has
  <2>5. QED
    BY <1>1, <2>4
<1>3. ASSUME NEW m \in 1..n, m - 1 \in G PROVE m \in G
  <2> DEFINE k == m - 1
  <2>1. k \in Nat /\ m = k + 1 /\ k < Cardinality(K)
    BY <1>1
  <2>2. PICK t \in [1..k -> K] : BestOf(t, k, K)
    BY <1>3
  <2> HIDE DEF k
  <2> DEFINE R == {t[i] : i \in 1..k}
  <2>3. /\ R \in SUBSET K /\ Cardinality(R) = k
        /\ \A i \in 1..(k - 1) : t[i].score <= t[i + 1].score
        /\ \A d \in K \ R : \A i \in 1..k : t[i].score <= d.score
    BY <2>2 DEF BestOf
  <2>4. IsFiniteSet(R) /\ IsFiniteSet(K \ R) /\ K \ R # {}
    <3> HIDE DEF R
    <3>1. IsFiniteSet(R) /\ IsFiniteSet(K \ R)
      BY <2>3, FS_Subset
    <3>2. K # R
      BY <1>1, <2>1, <2>3
    <3>3. QED
      BY <2>3, <3>1, <3>2
  <2>5. PICK c \in K \ R : \A d \in K \ R : c.score <= d.score
    <3> HIDE DEF R
    <3>1. QED
      BY <2>4, Lowest
  <2> DEFINE u == [i \in 1..m |-> IF i = m THEN c ELSE t[i]]
             Q == {u[i] : i \in 1..m}
  <2>6. u \in [1..m -> K] /\ u[m] = c /\ \A i \in 1..k : u[i] = t[i] /\ i \in 1..m
    BY <2>1, <2>5
  <2>7. \A i \in 1..m : i \in 1..k \/ i = m
    BY <2>1
  <2> HIDE DEF u
  <2>8. Q = R \cup {c}
    BY <2>6, <2>7
  <2>9. Cardinality(Q) = m
    <3> HIDE DEF Q, R
    <3>1. c \notin R
      OBVIOUS
    <3>2. QED
      BY <2>1, <2>3, <2>4, <2>8, <3>1, FS_AddElement
  <2>10. ASSUME NEW i \in 1..(m - 1) PROVE u[i].score <= u[i + 1].score
    <3>1. CASE i = k
      <4>1. u[i] = t[i] /\ u[i + 1] = c /\ i \in 1..k
        BY <2>1, <2>6, <3>1
      <4>2. QED
        BY <2>3, <2>5, <4>1
    <3>2. CASE i # k
      <4>1. i \in 1..(k - 1) /\ i \in 1..k /\ i + 1 \in 1..k
        BY <2>1, <3>2
      <4>2. u[i] = t[i] /\ u[i + 1] = t[i + 1]
        BY <2>6, <4>1
      <4>3. QED
        BY <2>3, <4>1, <4>2
    <3>3. QED
      BY <3>1, <3>2
  <2>11. ASSUME NEW d \in K \ Q, NEW i \in 1..m PROVE u[i].score <= d.score
    <3>1. d \in K \ R
      BY <2>8
    <3>2. QED
      BY <2>3, <2>5, <2>6, <2>7, <3>1
  <2>12. BestOf(u, m, K)
    BY <2>9, <2>10, <2>11 DEF BestOf
  <2>13. QED
    BY <1>1, <2>6, <2>12
<1>4. n \in G
  <2> HIDE DEF G
  <2>1. QED
    BY <1>1, <1>2, <1>3, Stepwise
<1>5. QED
  BY <1>4

\* There always is a list, of every length up to the number of candidates: what
\* is said of the lists is said of something.
THEOREM AlwaysSuggests ==
    ASSUME NEW query \in Seq(DOMAIN LowerOf), NEW H, IsFiniteSet(H),
           \A i \in H : i.title \in Seq(DOMAIN LowerOf), NEW limit \in Nat
    PROVE  SuggestMatches(query, H, limit) # {}
<1> DEFINE K == Candidates(Lower(query), H)
           n == Least(limit, Cardinality(K))
<1>1. IsFiniteSet(K) /\ \A c \in K : c.score \in Int
  BY CandidatesType
<1>2. n \in 0..Cardinality(K)
  <2>1. Cardinality(K) \in Nat
    BY <1>1, FS_CardinalityType
  <2>2. QED
    BY <2>1 DEF Least
<1>3. PICK t \in [1..n -> K] : BestOf(t, n, K)
  <2> HIDE DEF K, n
  <2>1. QED
    BY <1>1, <1>2, BestExists
<1>4. [i \in 1..n |-> t[i].item] \in SuggestMatches(query, H, limit)
  BY <1>3 DEF SuggestMatches, Candidates, BestOf
<1>5. QED
  BY <1>4
=============================================================================
