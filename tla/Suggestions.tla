---------------------------- MODULE Suggestions ----------------------------
(***************************************************************************)
(* "Did you mean" (internal/onepassword/fuzzy.go).  A string is a sequence *)
(* of characters, and a set of items is one of records with a title.       *)
(***************************************************************************)
EXTENDS Integers, Sequences, FiniteSets

CONSTANT LowerOf    \* function: the lower-case letter of every character

Lower(s) == [i \in DOMAIN s |-> LowerOf[s[i]]]

Least(a, b) == IF a < b THEN a ELSE b

Longer(a, b) == IF Len(a) > Len(b) THEN Len(a) ELSE Len(b)

\* Mutant: every row's first cell is that of the first row.
NextRowFromZero(prev, r, b) ==
    LET curr[j \in 0..Len(b)] ==
            IF j = 0 THEN 0
            ELSE Least(Least(curr[j-1] + 1, prev[j] + 1),
                       prev[j-1] + (IF r = b[j] THEN 0 ELSE 1))
    IN  curr

\* The row of the distances from one more character, r, to b's prefixes.
NextRow(prev, r, b) ==
    LET curr[j \in 0..Len(b)] ==
            IF j = 0 THEN prev[0] + 1
            ELSE Least(Least(curr[j-1] + 1, prev[j] + 1),
                       prev[j-1] + (IF r = b[j] THEN 0 ELSE 1))
    IN  curr

Levenshtein(a, b) ==
    LET row[i \in 0..Len(a)] == IF i = 0 THEN [j \in 0..Len(b) |-> j]
                                ELSE NextRow(row[i-1], a[i], b)
    IN  row[Len(a)][Len(b)]

Occurs(t, s) == \E i \in 0..(Len(s) - Len(t)) : SubSeq(s, i + 1, i + Len(t)) = t

IsCandidate(q, t) == \/ Occurs(q, t)
                     \/ /\ Longer(q, t) # 0
                        /\ Levenshtein(q, t) <= Longer(q, t) \div 2

Score(q, t) == IF Occurs(q, t) THEN Len(t) - 1000 ELSE Levenshtein(q, t)

\* The lists SuggestMatches may return: the best limit candidates, in order;
\* sort.Slice leaves the order of equal ones open.
SuggestMatches(query, items, limit) ==
    LET q == Lower(query)
        candidates == {[item |-> i, score |-> Score(q, Lower(i.title))] :
                          i \in {x \in items : IsCandidate(q, Lower(x.title))}}
        n == Least(limit, Cardinality(candidates))
        Best(s) == /\ \A i \in 1..(n - 1) : s[i].score <= s[i+1].score
                   /\ Cardinality({s[i] : i \in 1..n}) = n
                   /\ \A c \in candidates \ {s[i] : i \in 1..n} :
                         \A i \in 1..n : s[i].score <= c.score
    IN  {[i \in 1..n |-> s[i].item] : s \in {t \in [1..n -> candidates] : Best(t)}}

-----------------------------------------------------------------------------
(***************************************************************************)
(* What a distance is: the number of characters to replace, insert or      *)
(* delete, one after the other.                                            *)
(***************************************************************************)
Edits(s, Char) ==
    {[s EXCEPT ![i] = c] : i \in DOMAIN s, c \in Char}
    \cup {SubSeq(s, 1, i - 1) \o SubSeq(s, i + 1, Len(s)) : i \in DOMAIN s}
    \cup {SubSeq(s, 1, i) \o <<c>> \o SubSeq(s, i + 1, Len(s)) : i \in 0..Len(s), c \in Char}

Within(s, n, Char) ==
    LET reach[i \in 0..n] == IF i = 0 THEN {s}
                             ELSE reach[i-1] \cup UNION {Edits(t, Char) : t \in reach[i-1]}
    IN  reach[n]
=============================================================================
