------------------------------- MODULE Picker -------------------------------
(***************************************************************************)
(* The fzf-style list of init and its wizard (internal/cli/fzflist.go).    *)
(*                                                                         *)
(* bubbletea gives Update one key press or message at a time, and runs the *)
(* commands Update returns beside it: a change of the filter text starts a *)
(* search whose result comes back as a message, some time later and in no  *)
(* particular order.  Only tab searches at once.                           *)
(*                                                                         *)
(* The list of the bubbles library is modelled by what the picker uses of  *)
(* it: Found gives the rows a text matches, best first, and when the rows  *)
(* change the cursor does not move down.  Left out are sizes and colours,  *)
(* the keys only the library knows, and requireOne, which no caller sets.  *)
(***************************************************************************)
EXTENDS Integers, Sequences, SequencesExt

CONSTANTS
    Items,          \* the rows offered, by their values
    Text,           \* what the filter box can hold
    NoText,         \* the empty filter
    LabelOf,        \* function: the text that is a value's label
    Found,          \* function: the rows a text matches
    Nothing,        \* no row
    MaxPending      \* bound: searches under way at the same time

Values == {Items[i] : i \in DOMAIN Items}

\* runFzfList refuses an empty list; values are different, as pickers key by them.
ASSUME ItemsAssumption ==
    /\ Items \in Seq(Values) /\ Items # <<>>
    /\ \A i, j \in DOMAIN Items : Items[i] = Items[j] => i = j
    /\ Nothing \notin Values \cup BOOLEAN

\* Matches are rows, none twice; a label is matched by its own row best.
ASSUME FoundAssumption ==
    /\ NoText \in Text /\ Found[NoText] = Items
    /\ \A t \in Text : Found[t] \in Seq(Values) /\ Len(Found[t]) <= Len(Items)
    /\ \A v \in Values : /\ LabelOf[v] \in Text
                          /\ Len(Found[LabelOf[v]]) > 0 /\ Found[LabelOf[v]][1] = v

ASSUME MaxPendingAssumption == MaxPending \in Nat

VARIABLES
    multi,      \* rows are checked with space, and enter takes the checked
    filter,     \* FilterInput: the text in the box
    rows,       \* VisibleItems
    cursor,     \* Index, from 1; past the rows nothing is highlighted
    pending,    \* the texts of the searches under way
    checked,    \* the map, by value: Nothing where it has no entry
    ended,      \* "no", "submitted" or "aborted"
    marked,     \* history: the rows whose marks were on when last seen
    tabbed      \* history: the row of a tab that was the last key, if nothing
                \* was searched for at the time

vars == <<multi, filter, rows, cursor, pending, checked, ended, marked, tabbed>>

Init == /\ multi \in BOOLEAN
        /\ filter = NoText
        /\ rows = Items
        /\ cursor = 1
        /\ pending = <<>>
        /\ checked = [v \in Values |-> Nothing]
        /\ ended = "no"
        /\ marked = {}
        /\ tabbed = Nothing

Highlighted == cursor \in DOMAIN rows

-----------------------------------------------------------------------------
(***************************************************************************)
(* Key presses.                                                            *)
(***************************************************************************)
Press == ended = "no" /\ UNCHANGED multi

\* Any key that edits the text: the rows stay until the result comes.
Type(t) == /\ Press
           /\ t # filter
           /\ Len(pending) < MaxPending
           /\ filter' = t
           /\ pending' = Append(pending, t)
           /\ tabbed' = Nothing
           /\ UNCHANGED <<rows, cursor, checked, ended, marked>>

Up == /\ Press
      /\ cursor' = IF cursor > 1 THEN cursor - 1 ELSE 1
      /\ tabbed' = Nothing
      /\ UNCHANGED <<filter, rows, pending, checked, ended, marked>>

\* Mutant: nothing stops the cursor.
DownOn == /\ Press
          /\ cursor' = cursor + 1
          /\ tabbed' = Nothing
          /\ UNCHANGED <<filter, rows, pending, checked, ended, marked>>

Down == /\ Press
        /\ cursor' = IF cursor < Len(rows) THEN cursor + 1
                     ELSE IF rows = <<>> THEN 1 ELSE Len(rows)
        /\ tabbed' = Nothing
        /\ UNCHANGED <<filter, rows, pending, checked, ended, marked>>

\* Mutant: the completed text is searched for like a typed one.
TabLater == /\ Press
            /\ Highlighted
            /\ Len(pending) < MaxPending
            /\ filter' = LabelOf[rows[cursor]]
            /\ pending' = Append(pending, LabelOf[rows[cursor]])
            /\ cursor' = 1
            /\ tabbed' = IF pending = <<>> THEN rows[cursor] ELSE Nothing
            /\ UNCHANGED <<rows, checked, ended, marked>>

\* SetFilterText: the highlighted label is the filter, and its matches the rows.
Tab == /\ Press
       /\ Highlighted
       /\ LET v == rows[cursor] IN
          /\ filter' = LabelOf[v]
          /\ rows' = Found[LabelOf[v]]
          /\ cursor' = 1
          /\ tabbed' = IF pending = <<>> THEN v ELSE Nothing
       /\ UNCHANGED <<pending, checked, ended, marked>>

\* Mutant: marks belong to positions.
ToggleByIndex(v) ==
    [checked EXCEPT ![IF cursor \in DOMAIN Items THEN Items[cursor] ELSE v] = (@ # TRUE)]

Toggle(v) == [checked EXCEPT ![v] = (@ # TRUE)]

Space == /\ Press
         /\ multi
         /\ Highlighted
         /\ LET v == rows[cursor] IN
            /\ checked' = Toggle(v)
            /\ marked' = IF v \in marked THEN marked \ {v} ELSE marked \cup {v}
         /\ tabbed' = Nothing
         /\ UNCHANGED <<filter, rows, cursor, pending, ended>>

\* Tab, or space in a list with checkboxes, where nothing is highlighted.
NoRow == /\ Press
         /\ ~Highlighted
         /\ tabbed' = Nothing
         /\ UNCHANGED <<filter, rows, cursor, pending, checked, ended, marked>>

Submit == /\ Press
          /\ ended' = "submitted"
          /\ UNCHANGED <<filter, rows, cursor, pending, checked, marked, tabbed>>

Abort == /\ Press
         /\ ended' = "aborted"
         /\ UNCHANGED <<filter, rows, cursor, pending, checked, marked, tabbed>>

-----------------------------------------------------------------------------
\* The result of any search under way arrives.
Results(i) == /\ ended = "no"
              /\ rows' = Found[pending[i]]
              /\ pending' = RemoveAt(pending, i)
              /\ cursor' \in 1..cursor
              /\ UNCHANGED <<multi, filter, checked, ended, marked, tabbed>>

Next == \/ \E t \in Text : Type(t)
        \/ Up \/ Down \/ Tab \/ Space \/ NoRow
        \/ Submit \/ Abort
        \/ \E i \in DOMAIN pending : Results(i)

Spec == Init /\ [][Next]_vars

\* What runFzfList returns; with checkboxes, in the order of Items, which is
\* left out.
Chosen == IF multi THEN {v \in Values : checked[v] = TRUE}
          ELSE IF Highlighted THEN {rows[cursor]} ELSE {}

-----------------------------------------------------------------------------
\* Every variable has its type; the rows are some text's, and the cursor never
\* leaves the rows there were at the start.
TypeOK == /\ multi \in BOOLEAN
          /\ filter \in Text
          /\ rows \in {Found[t] : t \in Text}
          /\ cursor \in 1..Len(Items)
          /\ pending \in BoundedSeq(Text, MaxPending)
          /\ checked \in [Values -> BOOLEAN \cup {Nothing}]
          /\ ended \in {"no", "submitted", "aborted"}
          /\ marked \subseteq Values
          /\ tabbed \in Values \cup {Nothing}

\* What comes back from a list with checkboxes is what was marked while it was
\* highlighted, whatever was typed, completed and found in between, and rows
\* that were filtered away at the end included.
ChosenAsMarked ==
    ended = "submitted" /\ multi => Chosen = marked

\* fzflist.go, tab: a following enter confirms the completed row directly.  It
\* does, unless an older search was still under way at the tab.
TabThenEnter ==
    ended = "submitted" /\ ~multi /\ tabbed # Nothing => Chosen = {tabbed}

=============================================================================
