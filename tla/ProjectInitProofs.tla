------------------------- MODULE ProjectInitProofs -------------------------
(***************************************************************************)
(* Proofs about ProjectInit, for all items and titles, all command lines,  *)
(* any number of vaults of one name, and whatever fails and is answered.   *)
(***************************************************************************)
EXTENDS ProjectInit, SequenceTheorems, WellFoundedInduction, TLAPS

-----------------------------------------------------------------------------
(***************************************************************************)
(* A recursive function on 0..n exists, and has the type of its values:    *)
(* by the least number for which it would not.                             *)
(***************************************************************************)
LEMMA LeastNat ==
    ASSUME NEW T \in SUBSET Nat, T # {}
    PROVE  \E n \in T : \A m \in T : n <= m
<1> DEFINE R == {p \in Nat \X Nat : p[1] < p[2]}
<1>1. IsWellFoundedOn(R, Nat)
  BY NatLessThanWellFounded DEF OpToRel
<1> HIDE DEF R
<1>2. PICK n \in T : \A m \in T : <<m, n>> \notin R
  BY <1>1, WFMin
<1>3. \A m \in T : <<m, n>> \in R <=> m < n
  BY DEF R
<1>4. ASSUME NEW m \in T PROVE n <= m
  <2>1. ~(m < n) /\ m \in Nat /\ n \in Nat
    BY <1>2, <1>3
  <2>2. QED
    BY <2>1
<1>5. QED
  BY <1>4

LEMMA RecursionOnNat ==
    ASSUME NEW D, NEW a \in D, NEW f \in [Nat -> [D -> D]], NEW n \in Nat
    PROVE  \E g \in [0..n -> D] : g[0] = a /\ \A m \in 1..n : g[m] = f[m][g[m - 1]]
<1> DEFINE Upto(k) == \E g \in [0..k -> D] : g[0] = a /\ \A m \in 1..k : g[m] = f[m][g[m - 1]]
           Lacks  == {k \in Nat : ~Upto(k)}
<1>1. SUFFICES ASSUME Lacks # {} PROVE FALSE
  OBVIOUS
<1>2. PICK k \in Lacks : \A m \in Lacks : k <= m
  <2> HIDE DEF Upto
  <2>1. Lacks \in SUBSET Nat
    OBVIOUS
  <2> HIDE DEF Lacks
  <2>2. QED
    BY <1>1, <2>1, LeastNat
<1>3. k # 0
  <2> DEFINE z == [i \in 0..0 |-> a]
  <2>1. z \in [0..0 -> D] /\ z[0] = a /\ 1..0 = {}
    OBVIOUS
  <2>2. Upto(0)
    <3> HIDE DEF z
    <3>1. QED
      BY <2>1
  <2>3. QED
    BY <2>2
<1>4. Upto(k - 1)
  <2> HIDE DEF Upto
  <2>1. k - 1 \in Nat /\ ~(k <= k - 1)
    BY <1>3
  <2>2. QED
    BY <1>2, <2>1
<1>5. PICK g \in [0..(k - 1) -> D] :
          g[0] = a /\ \A m \in 1..(k - 1) : g[m] = f[m][g[m - 1]]
  BY <1>4
<1>6. DEFINE h == [i \in 0..k |-> IF i = k THEN f[k][g[k - 1]] ELSE g[i]]
<1>7. h \in [0..k -> D]
  <2>1. f[k][g[k - 1]] \in D
    BY <1>3
  <2>2. \A i \in 0..k : i # k => g[i] \in D
    OBVIOUS
  <2>3. QED
    BY <2>1, <2>2
<1>8. h[0] = a
  BY <1>3, <1>5
<1>9. \A m \in 1..k : h[m] = f[m][h[m - 1]]
  BY <1>3, <1>5
<1>10. Upto(k)
  <2> HIDE DEF h
  <2>1. QED
    BY <1>7, <1>8, <1>9
<1>11. QED
  <2> HIDE DEF Upto
  <2>1. QED
    BY <1>10

\* InOrder gives sequences of items.
LEMMA InOrderType == ASSUME NEW S PROVE InOrder(S) \in Seq(Item)
<1> DEFINE Body(g) == [n \in 0..Len(ItemList) |->
                          IF n = 0 THEN <<>>
                          ELSE IF ItemList[n] \in S THEN Append(g[n - 1], ItemList[n])
                          ELSE g[n - 1]]
           f == [n \in Nat |-> [s \in Seq(Item) |->
                    IF n \in 1..Len(ItemList) /\ ItemList[n] \in S
                    THEN Append(s, ItemList[n]) ELSE s]]
           first == CHOOSE g : g = Body(g)
<1>1. Len(ItemList) \in Nat /\ \A n \in 1..Len(ItemList) : ItemList[n] \in Item
  BY ListAssumption, LenProperties, ElementOfSeq
<1>2. f \in [Nat -> [Seq(Item) -> Seq(Item)]]
  BY <1>1, AppendProperties
<1>3. PICK g \in [0..Len(ItemList) -> Seq(Item)] :
          g[0] = <<>> /\ \A m \in 1..Len(ItemList) : g[m] = f[m][g[m - 1]]
  <2> HIDE DEF f
  <2>1. <<>> \in Seq(Item)
    BY EmptySeq
  <2>2. Len(ItemList) \in Nat
    BY <1>1
  <2> DEFINE D == Seq(Item)
           a == <<>>
           n == Len(ItemList)
  <2>3. a \in D /\ n \in Nat /\ f \in [Nat -> [D -> D]]
    BY <1>2, <2>1, <2>2
  <2>4. \E g \in [0..n -> D] : g[0] = a /\ \A m \in 1..n : g[m] = f[m][g[m - 1]]
    <3> HIDE DEF D, a, n
    <3>1. QED
      BY <2>3, RecursionOnNat
  <2>5. QED
    BY <2>4
<1>4. g = Body(g)
  <2>1. ASSUME NEW n \in 0..Len(ItemList) PROVE g[n] = Body(g)[n]
    <3>1. CASE n = 0
      BY <1>3, <3>1
    <3>2. CASE n # 0
      <4>1. n \in 1..Len(ItemList) /\ n - 1 \in 0..Len(ItemList) /\ n \in Nat
        BY <1>1, <3>2
      <4>2. g[n] = f[n][g[n - 1]] /\ g[n - 1] \in Seq(Item)
        BY <1>3, <4>1
      <4>3. QED
        BY <3>2, <4>1, <4>2
    <3>3. QED
      BY <3>1, <3>2
  <2>2. QED
    BY <2>1
<1>5. first = Body(first)
  <2> HIDE DEF Body
  <2>1. QED
    BY <1>4
<1>6. first \in [0..Len(ItemList) -> Seq(Item)]
  <2> DEFINE Bad == {n \in 0..Len(ItemList) : first[n] \notin Seq(Item)}
  <2>1. SUFFICES ASSUME Bad # {} PROVE FALSE
    BY <1>5
  <2>2. PICK n \in Bad : \A m \in Bad : n <= m
    <3>1. Bad \in SUBSET Nat
      BY <1>1
    <3> HIDE DEF Bad
    <3>2. QED
      BY <2>1, <3>1, LeastNat
  <2>3. first[n] = Body(first)[n]
    BY <1>5
  <2>4. n # 0
    BY <2>3, EmptySeq
  <2>5. n - 1 \in 0..Len(ItemList) /\ ~(n <= n - 1)
    BY <1>1, <2>4
  <2>6. first[n - 1] \in Seq(Item)
    BY <2>2, <2>5
  <2>7. first[n] \in Seq(Item)
    <3>1. n \in 1..Len(ItemList)
      BY <1>1, <2>4
    <3>2. first[n] \in {Append(first[n - 1], ItemList[n]), first[n - 1]}
      BY <2>3, <2>4
    <3>3. ItemList[n] \in Item
      BY <1>1, <3>1
    <3> HIDE DEF first
    <3>4. QED
      <4>1. Append(first[n - 1], ItemList[n]) \in Seq(Item)
        BY <2>6, <3>3, AppendProperties
      <4>2. QED
        BY <2>6, <3>2, <4>1
  <2>8. QED
    BY <2>7
<1>7. first[Len(ItemList)] \in Seq(Item)
  <2> HIDE DEF first
  <2>1. QED
    BY <1>1, <1>6
<1>8. QED
  BY <1>7 DEF InOrder

-----------------------------------------------------------------------------
(***************************************************************************)
(* The invariant.                                                          *)
(***************************************************************************)
Kinds == {"none", "flags", "wizard", "menu", "over", "add", "ttl"}

CmdOK == cmd \in [kind : Kinds, input : Input, before : Seq(Title), done : Seq(Item),
                  write : {"none", "ok", "failed"}, source : [Item -> 0..MaxCopies]]

Running == {"validate", "create", "from", "next"}

\* Which kind of command is at which step, and what it has been through.
Control ==
    /\ step = "idle" => st = Blank /\ (cmd.kind = "add" => cmd.write # "none")
    /\ step # "idle" => cmd.write = "none"
    /\ step = "wizard" => cmd.kind \in {"wizard", "over"}
    /\ step \in {"menu", "add"} => cmd.kind = step /\ Loads(file)
    /\ step \in Running => cmd.kind \in {"flags", "wizard", "over"}
    /\ step \in Running \ {"validate"} => Complete(st)

\* What the file will list, as far as it is known.
Collected ==
    /\ step \in {"wizard", "menu", "validate", "create"} => cmd.done = <<>>
    /\ step \in {"wizard", "validate", "create"} => cmd.before = st.names
    /\ step \in {"from", "next", "add"} => items = cmd.before \o Titles(cmd.done)

\* A script moves if it was told to, and only away from where the items were;
\* the wizard's commands do not move.
Moves ==
    /\ st.move => cmd.input.move /\ (cmd.kind = "flags" \/ step = "wizard")
    /\ step # "idle" /\ cmd.kind = "flags" => st.move = cmd.input.move
    /\ cmd.kind = "flags" /\ cmd.input.move =>
          \A i \in Item : place[Source][i] <= cmd.source[i]

\* Past the check for a file there is none, or --force.
Forces ==
    /\ step \in {"wizard"} \cup Running /\ cmd.kind \in {"flags", "wizard"}
           => st.force = cmd.input.force
    /\ step \in Running \ {"validate"} => file = NoFile \/ st.force

\* The wizard that is given nothing ends up with a mode and something to list.
Enough == cmd.kind = "over" \/ (cmd.kind = "wizard" /\ cmd.input.given = {}) =>
    /\ step = "wizard" => st.given = {} /\ ~st.from
    /\ step \in Running => st.mode \in Modes /\ ~st.from /\ step # "from"
    /\ step \in {"validate", "create"} => st.specs \in Seq(Item)
    /\ step = "next" =>
          /\ specs \in Seq(Item)
          /\ st.keys \/ items # <<>> \/ queue # <<>> \/ specs # <<>>

\* What the menu adds to was there already.
AddKeeps == step = "add" => file.keys \/ items # <<>>

IInv == /\ TypeOK /\ CmdOK /\ Control
        /\ Collected /\ FileTells
        /\ Moves /\ OriginalsStay
        /\ Forces
        /\ Enough /\ AddKeeps /\ WizardLoads

-----------------------------------------------------------------------------
(***************************************************************************)
(* Types.                                                                  *)
(***************************************************************************)
LEMMA Picks == \A S : /\ Picked(S) \in Seq(Item) /\ Picked(S) \in Seq(Item \cup {Pick})
                     /\ \A v : Listed(v) \in Seq(Item)
BY InOrderType, SeqMonotonic DEF Picked, Listed

LEMMA BlankType == Blank \in Input
BY EmptySeq DEF Blank, Input, Modes, TTLs

\* What the wizard keeps of what it was given, and what it asks for.
LEMMA WizardAsks ==
    ASSUME st \in Input, Wizard
    PROVE  /\ st' \in Input
           /\ st'.names = st.names /\ st'.from = st.from
           /\ st'.given = st.given
           /\ ~st'.move
           /\ st'.force = (st.force \/ cmd.kind = "over")
           /\ "mode" \notin st.given => st'.mode \in Modes
           /\ "item" \notin st.given => st'.specs \in Seq(Item)
<1>1. PICK v \in Asked("vault", st.vault, BOOLEAN),
           m \in Asked("mode", st.mode, Modes),
           p \in Asked("item", st.specs, {Picked(S) : S \in SUBSET Item}),
           k \in Asked("ssh-key", st.keys, BOOLEAN),
           t \in Asked("ttl", st.ttl, TTLs \cup {"bad"}) :
          st' = [st EXCEPT !.vault = v, !.mode = m, !.specs = p, !.keys = k, !.ttl = t,
                           !.move = FALSE, !.force = @ \/ cmd.kind = "over"]
  BY DEF Wizard
<1>2. v \in BOOLEAN /\ t \in TTLs \cup {"bad"} /\ k \in BOOLEAN
  BY DEF Input, Asked
<1>3. m \in Modes \cup {"other"} /\ ("mode" \notin st.given => m \in Modes)
  BY DEF Input, Asked
<1>4. p \in Seq(Item \cup {Pick}) /\ ("item" \notin st.given => p \in Seq(Item))
  BY Picks DEF Input, Asked
<1> DEFINE f == st.force \/ cmd.kind = "over"
<1>5. f \in BOOLEAN
  OBVIOUS
<1>6. st' = [st EXCEPT !.vault = v, !.mode = m, !.specs = p, !.keys = k, !.ttl = t,
                       !.move = FALSE, !.force = f]
  BY <1>1 DEF Input
<1> HIDE DEF f
<1>7. /\ st'.names = st.names /\ st'.from = st.from /\ st'.given = st.given
      /\ st'.move = FALSE /\ st'.force = f /\ st'.mode = m /\ st'.specs = p
  BY <1>6 DEF Input
<1>8. st' \in Input
  BY <1>2, <1>3, <1>4, <1>5, <1>6 DEF Input
<1>9. QED
  BY <1>3, <1>4, <1>7, <1>8 DEF f

LEMMA TitlesType == \A s \in Seq(Item) : Titles(s) \in Seq(Title) /\ Len(Titles(s)) = Len(s)
<1> SUFFICES ASSUME NEW s \in Seq(Item) PROVE Titles(s) \in Seq(Title) /\ Len(Titles(s)) = Len(s)
  OBVIOUS
<1>1. DOMAIN s = 1..Len(s) /\ Len(s) \in Nat /\ \A n \in 1..Len(s) : s[n] \in Item
  BY LenProperties, ElementOfSeq
<1>2. Titles(s) \in [1..Len(s) -> Title]
  BY <1>1, TitleAssumption DEF Titles
<1>3. QED
  BY <1>1, <1>2, IsASeq, LenProperties

\* The vaults a transfer can go to.
LEMMA Vaults == /\ Source \in Vault /\ 1 \in Vault
                /\ \A n \in 0..MaxVaults : \A v \in 1..n : v \in Vault /\ v # Source
                /\ MaxCopies \in Nat /\ MaxCopies >= 1 /\ MaxVaults \in Nat /\ MaxVaults >= 1
BY BoundsAssumption DEF Vault

Typed == TypeOK /\ CmdOK

\* Of the file a writing command leaves.
LEMMA SaveType ==
    ASSUME Typed, NEW cfg \in Config, NEW kind \in Kinds, Save(cfg, kind)
    PROVE  /\ file' \in {NoFile, Broken} \/ file' \in Config
           /\ cmd' \in {[cmd EXCEPT !.kind = kind, !.write = "ok"],
                        [cmd EXCEPT !.kind = kind, !.write = "failed"]}
           /\ CmdOK'
BY DEF Typed, TypeOK, CmdOK, Save

\* A write that succeeds leaves what was to be written.
LEMMA Saved ==
    ASSUME CmdOK, NEW cfg, NEW kind, Save(cfg, kind), cmd'.write = "ok"
    PROVE  file' = cfg
BY DEF Save, CmdOK

LEMMA CommandType ==
    ASSUME Typed, NEW kind \in Kinds, NEW i \in Input, cmd' = Command(kind, i)
    PROVE  CmdOK'
<1>1. place[Source] \in [Item -> 0..MaxCopies] /\ i.names \in Seq(Title) /\ <<>> \in Seq(Item)
  BY Vaults, EmptySeq DEF Typed, TypeOK, Input
<1>2. QED
  BY <1>1 DEF Command, CmdOK

LEMMA StopType == Stop => /\ st' \in Input /\ items' \in Seq(Title) /\ queue' \in Seq(Item)
                          /\ specs' \in Seq(Item \cup {Pick}) /\ step' = "idle"
BY BlankType, EmptySeq DEF Stop

LEMMA TypeInit == Init => Typed
<1> SUFFICES ASSUME Init PROVE Typed
  OBVIOUS
<1>1. place \in [Vault -> [Item -> 0..MaxCopies]]
  BY Vaults DEF Init
<1>2. TypeOK
  BY <1>1, Vaults, BlankType, EmptySeq DEF Init, TypeOK
<1>3. cmd = Command("none", Blank) /\ place[Source] \in [Item -> 0..MaxCopies]
  BY <1>1, Vaults DEF Init
<1>4. CmdOK
  BY <1>3, BlankType, EmptySeq DEF Command, CmdOK, Kinds, Input
<1>5. QED
  BY <1>2, <1>4 DEF Typed

\* What a copy and a move make of the vaults.
LEMMA Effects ==
    ASSUME TypeOK, NEW i \in Item, NEW v \in 1..made, i \in Has(Source),
           place[v][i] < MaxCopies
    PROVE  /\ Copied(i, v)[Source] = place[Source]
           /\ Moved(i, v)[Source] = [place[Source] EXCEPT ![i] = @ - 1]
           /\ \A p \in {Copied(i, v), Moved(i, v)} :
                 /\ p \in [Vault -> [Item -> 0..MaxCopies]]
                 /\ p[v][i] = place[v][i] + 1
                 /\ \A w \in Vault, j \in Item : w # Source => p[w][j] >= place[w][j]
<1>1. v \in Vault /\ v # Source /\ Source \in Vault
  BY Vaults DEF TypeOK
<1>2. place[v][i] + 1 \in 0..MaxCopies /\ place[Source][i] - 1 \in 0..MaxCopies
  BY <1>1, Vaults DEF TypeOK, Has
<1>3. \A w \in Vault, j \in Item : place[w][j] \in Nat
  BY Vaults DEF TypeOK
<1>4. /\ Copied(i, v)[Source] = place[Source]
      /\ Moved(i, v)[Source] = [place[Source] EXCEPT ![i] = @ - 1]
  BY <1>1 DEF TypeOK, Copied, Moved
<1>5. /\ Copied(i, v) \in [Vault -> [Item -> 0..MaxCopies]]
      /\ Copied(i, v)[v][i] = place[v][i] + 1
      /\ \A w \in Vault, j \in Item : w # Source => Copied(i, v)[w][j] >= place[w][j]
  BY <1>1, <1>2, <1>3 DEF TypeOK, Copied
<1>6. /\ Moved(i, v) \in [Vault -> [Item -> 0..MaxCopies]]
      /\ Moved(i, v)[v][i] = place[v][i] + 1
      /\ \A w \in Vault, j \in Item : w # Source => Moved(i, v)[w][j] >= place[w][j]
  <2>1. Moved(i, v) = [Copied(i, v) EXCEPT ![Source] = [place[Source] EXCEPT ![i] = @ - 1]]
    BY <1>1 DEF TypeOK, Copied, Moved
  <2>2. [place[Source] EXCEPT ![i] = @ - 1] \in [Item -> 0..MaxCopies]
    BY <1>1, <1>2 DEF TypeOK
  <2>3. QED
    BY <1>1, <1>5, <2>1, <2>2
<1>7. QED
  BY <1>4, <1>5, <1>6

\* A transfer that fails may have had its effect, and no other.
LEMMA HalfDoneEffect ==
    ASSUME TypeOK, queue # <<>>, HalfDone
    PROVE  \/ place' = place
           \/ \E i \in Item, v \in 1..made :
                 /\ i \in Has(Source) /\ place[v][i] < MaxCopies
                 /\ \/ place' = Copied(i, v)
                    \/ st.move /\ place' = Moved(i, v)
<1>1. Head(queue) \in Item
  BY HeadTailProperties DEF TypeOK
<1>2. QED
  BY <1>1 DEF HalfDone

LEMMA HalfDoneType ==
    ASSUME TypeOK, queue # <<>>, HalfDone
    PROVE  place' \in [Vault -> [Item -> 0..MaxCopies]]
<1>1. CASE place' = place
  BY <1>1 DEF TypeOK
<1>2. CASE place' # place
  <2>1. PICK i \in Item, v \in 1..made :
               /\ i \in Has(Source) /\ place[v][i] < MaxCopies
               /\ place' \in {Copied(i, v), Moved(i, v)}
    BY <1>2, HalfDoneEffect
  <2>2. \A p \in {Copied(i, v), Moved(i, v)} :
             /\ p \in [Vault -> [Item -> 0..MaxCopies]]
             /\ p[v][i] = place[v][i] + 1
             /\ \A w \in Vault, j \in Item : w # Source => p[w][j] >= place[w][j]
    BY <2>1, Effects
  <2>3. QED
    BY <2>1, <2>2
<1>3. QED
  BY <1>1, <1>2

\* One more item in a vault.
LEMMA TransferType ==
    ASSUME Typed, NEW i \in Item, NEW v \in 1..made, i \in Has(Source),
           place[v][i] < MaxCopies, TransferItem(i, v)
    PROVE  /\ place' \in [Vault -> [Item -> 0..MaxCopies]]
           /\ items' \in Seq(Title)
           /\ CmdOK'
<1>3. place' \in [Vault -> [Item -> 0..MaxCopies]]
  BY Effects DEF Typed, TransferItem
<1>4. items' \in Seq(Title)
  BY TitleAssumption, AppendProperties DEF Typed, TypeOK, TransferItem
<1>5. Append(cmd.done, i) \in Seq(Item)
  BY AppendProperties DEF Typed, CmdOK
<1>6. CmdOK'
  BY <1>5 DEF Typed, CmdOK, TransferItem
<1>7. QED
  BY <1>3, <1>4, <1>6

LEMMA TypeStep == Typed /\ Control /\ [Next]_vars => Typed'
<1> SUFFICES ASSUME Typed, Control, [Next]_vars PROVE Typed'
  OBVIOUS
<1> USE DEF Typed, world, local
<1>1. ASSUME NEW i \in Inputs, NonInteractive(i) PROVE Typed'
  <2>1. i \in Input
    BY InputsAssumption
  <2>2. CmdOK'
    BY <1>1, <2>1, CommandType DEF NonInteractive, Kinds
  <2>3. QED
    BY <1>1, <2>1, <2>2 DEF NonInteractive, TypeOK
<1>2. ASSUME NEW i \in Inputs, Interactive(i) PROVE Typed'
  <2>1. i \in Input /\ Blank \in Input
    BY InputsAssumption, BlankType
  <2>2. CmdOK'
    BY <1>2, <2>1, CommandType DEF Interactive, Kinds
  <2>3. QED
    BY <1>2, <2>1, <2>2 DEF Interactive, TypeOK
<1>3. CASE Wizard
  <2>1. st' \in Input
    BY <1>3, WizardAsks DEF TypeOK
  <2>2. QED
    BY <1>3, <2>1 DEF Wizard, TypeOK, CmdOK
<1>4. CASE Cancel
  BY <1>4, StopType DEF Cancel, Fail, TypeOK, CmdOK
<1>5. CASE MenuAdd
  <2>1. queue' \in Seq(Item)
    BY <1>5, Picks DEF MenuAdd
  <2>2. file.items \in Seq(Title)
    BY <1>5 DEF MenuAdd, Control, Loads, TypeOK, Config
  <2>3. CmdOK'
    BY <1>5, <2>2 DEF MenuAdd, CmdOK, Kinds
  <2>4. QED
    BY <1>5, <2>1, <2>2, <2>3 DEF MenuAdd, TypeOK
<1>6. CASE MenuTTL
  <2>1. PICK t \in TTLs : Save([file EXCEPT !.ttl = t], "ttl")
    BY <1>6 DEF MenuTTL
  <2>2. [file EXCEPT !.ttl = t] \in Config
    BY <1>6 DEF MenuTTL, Control, Loads, TypeOK, Config
  <2>3. CmdOK' /\ (file' \in {NoFile, Broken} \/ file' \in Config)
    BY <2>1, <2>2, SaveType DEF Kinds
  <2>4. QED
    BY <1>6, <2>3, StopType DEF MenuTTL, TypeOK
<1>7. CASE MenuOver
  <2>1. CmdOK'
    BY <1>7, BlankType, CommandType DEF MenuOver, Kinds
  <2>2. QED
    BY <1>7, <2>1, BlankType DEF MenuOver, TypeOK
<1>8. CASE Validate
  <2>1. CASE Complete(st) /\ (file = NoFile \/ st.force)
    BY <1>8, <2>1 DEF Validate, TypeOK, CmdOK
  <2>2. CASE ~(Complete(st) /\ (file = NoFile \/ st.force))
    BY <1>8, <2>2, StopType DEF Validate, TypeOK, CmdOK
  <2>3. QED
    BY <2>1, <2>2
<1>9. CASE CreateVault
  <2>1. items' \in Seq(Title) /\ specs' \in Seq(Item \cup {Pick})
    BY <1>9 DEF CreateVault, TypeOK, Input
  <2>2. made' \in 0..MaxVaults
    BY <1>9, Vaults DEF CreateVault, TypeOK
  <2>3. QED
    BY <1>9, <2>1, <2>2 DEF CreateVault, TypeOK, CmdOK
<1>10. CASE FromVault
  BY <1>10, Picks DEF FromVault, TypeOK, CmdOK
<1>11. CASE NextSpec
  <2>1. Head(specs) \in Item \cup {Pick} /\ Tail(specs) \in Seq(Item \cup {Pick})
    BY <1>11, HeadTailProperties DEF NextSpec, TypeOK
  <2>2. queue' \in Seq(Item)
    <3>1. CASE Head(specs) = Pick
      BY <1>11, <3>1, Picks DEF NextSpec
    <3>2. CASE Head(specs) # Pick
      <4>1. Head(specs) \in Item /\ queue' = <<Head(specs)>>
        BY <1>11, <2>1, <3>2 DEF NextSpec
      <4> HIDE DEF Typed
      <4>2. QED
        BY <4>1
    <3>3. QED
      BY <3>1, <3>2
  <2>3. QED
    BY <1>11, <2>1, <2>2 DEF NextSpec, TypeOK, CmdOK
<1>12. CASE Transfer
  <2>1. Head(queue) \in Item /\ Tail(queue) \in Seq(Item)
    BY <1>12, HeadTailProperties DEF Transfer, TypeOK
  <2>2. PICK v \in 1..made : place[v][Head(queue)] < MaxCopies /\ TransferItem(Head(queue), v)
    BY <1>12 DEF Transfer
  <2>3. /\ place' \in [Vault -> [Item -> 0..MaxCopies]]
        /\ items' \in Seq(Title)
        /\ CmdOK'
    BY <1>12, <2>1, <2>2, TransferType DEF Transfer
  <2>4. QED
    BY <1>12, <2>1, <2>3 DEF Transfer, TypeOK
<1>13. CASE AddFails
  BY <1>13, HalfDoneType, EmptySeq DEF AddFails, TypeOK, CmdOK
<1>14. CASE Write
  <2>1. [mode |-> st.mode, ttl |-> st.ttl, items |-> items, keys |-> st.keys] \in Config
    BY <1>14 DEF Write, Control, Running, Complete, TypeOK, Input, Config
  <2>2. cmd.kind \in Kinds
    BY DEF CmdOK
  <2>3. CmdOK' /\ (file' \in {NoFile, Broken} \/ file' \in Config)
    BY <1>14, <2>1, <2>2, SaveType DEF Write
  <2>4. QED
    BY <1>14, <2>3, StopType DEF Write, TypeOK
<1>15. CASE AddWrite
  <2>1. [file EXCEPT !.items = items] \in Config
    BY <1>15 DEF AddWrite, Control, Loads, TypeOK, Config
  <2>2. CmdOK' /\ (file' \in {NoFile, Broken} \/ file' \in Config)
    BY <1>15, <2>1, SaveType DEF AddWrite, Kinds
  <2>3. QED
    BY <1>15, <2>2, StopType DEF AddWrite, TypeOK
<1>16. CASE OpFails
  <2>1. place' \in [Vault -> [Item -> 0..MaxCopies]] /\ made' \in 0..MaxVaults
    BY <1>16, HalfDoneType DEF OpFails, TypeOK
  <2>2. QED
    BY <1>16, <2>1, StopType DEF OpFails, TypeOK, CmdOK
<1>17. CASE UNCHANGED vars
  BY <1>17 DEF vars, TypeOK, CmdOK
<1>18. QED
  BY <1>1, <1>2, <1>3, <1>4, <1>5, <1>6, <1>7, <1>8, <1>9, <1>10, <1>11, <1>12,
     <1>13, <1>14, <1>15, <1>16, <1>17 DEF Next

-----------------------------------------------------------------------------
(***************************************************************************)
(* Where a command is.                                                     *)
(***************************************************************************)
LEMMA ControlStep == Typed /\ Control /\ [Next]_vars => Control'
<1> SUFFICES ASSUME Typed, Control, [Next]_vars PROVE Control'
  OBVIOUS
<1> USE DEF Typed, Control, Running, world, local
<1>1. ASSUME NEW i \in Inputs, NonInteractive(i) \/ Interactive(i) PROVE Control'
  BY <1>1 DEF NonInteractive, Interactive, Command
<1>2. CASE Wizard
  BY <1>2 DEF Wizard
<1>3. CASE Cancel \/ OpFails
  BY <1>3 DEF Cancel, OpFails, Fail, Stop
<1>4. CASE MenuAdd
  BY <1>4 DEF MenuAdd, CmdOK
<1>5. CASE MenuTTL
  BY <1>5 DEF MenuTTL, Save, Stop, CmdOK
<1>6. CASE MenuOver
  BY <1>6 DEF MenuOver, Command
<1>7. CASE Validate
  BY <1>7 DEF Validate, Stop
<1>8. CASE CreateVault \/ FromVault \/ NextSpec
  BY <1>8 DEF CreateVault, FromVault, NextSpec
<1>9. CASE Transfer
  <2>1. cmd'.kind = cmd.kind /\ cmd'.write = cmd.write
    BY <1>9 DEF Transfer, TransferItem, CmdOK
  <2>2. QED
    BY <1>9, <2>1 DEF Transfer
<1>10. CASE AddFails
  BY <1>10 DEF AddFails
<1>11. CASE Write
  BY <1>11 DEF Write, Save, Stop, CmdOK
<1>12. CASE AddWrite
  BY <1>12 DEF AddWrite, Save, Stop, CmdOK
<1>13. CASE UNCHANGED vars
  BY <1>13 DEF vars
<1>14. QED
  BY <1>1, <1>2, <1>3, <1>4, <1>5, <1>6, <1>7, <1>8, <1>9, <1>10, <1>11, <1>12,
     <1>13 DEF Next

-----------------------------------------------------------------------------
(***************************************************************************)
(* The file.                                                               *)
(***************************************************************************)
\* One more item transferred is one more title collected.
LEMMA TitlesGrow ==
    ASSUME NEW b \in Seq(Title), NEW d \in Seq(Item), NEW i \in Item
    PROVE  Append(b \o Titles(d), TitleOf[i]) = b \o Titles(Append(d, i))
<1>1. Titles(d) \in Seq(Title) /\ TitleOf[i] \in Title
  BY TitlesType, TitleAssumption
<1>2. Titles(Append(d, i)) = Append(Titles(d), TitleOf[i])
  <2>1. Append(d, i) \in Seq(Item) /\ Len(Append(d, i)) = Len(d) + 1
    BY AppendProperties
  <2>2. /\ Titles(Append(d, i)) \in Seq(Title)
        /\ Append(Titles(d), TitleOf[i]) \in Seq(Title)
        /\ Len(Titles(Append(d, i))) = Len(d) + 1
        /\ Len(Append(Titles(d), TitleOf[i])) = Len(d) + 1
    <3>1. Titles(Append(d, i)) \in Seq(Title) /\ Len(Titles(Append(d, i))) = Len(d) + 1
      BY <2>1, TitlesType
    <3>2. Len(Titles(d)) = Len(d)
      BY TitlesType
    <3>3. /\ Append(Titles(d), TitleOf[i]) \in Seq(Title)
          /\ Len(Append(Titles(d), TitleOf[i])) = Len(Titles(d)) + 1
      BY <1>1, AppendProperties
    <3>4. QED
      BY <3>1, <3>2, <3>3
  <2>3. ASSUME NEW n \in 1..(Len(d) + 1)
        PROVE  Titles(Append(d, i))[n] = Append(Titles(d), TitleOf[i])[n]
    <3>1. Titles(Append(d, i))[n] = TitleOf[Append(d, i)[n]]
      BY <2>1, LenProperties DEF Titles
    <3>2. CASE n = Len(d) + 1
      BY <1>1, <3>1, <3>2, AppendProperties, TitlesType
    <3>3. CASE n # Len(d) + 1
      <4>1. n \in 1..Len(d)
        BY <3>3, LenProperties
      <4>2. Append(d, i)[n] = d[n] /\ Append(Titles(d), TitleOf[i])[n] = Titles(d)[n]
        BY <1>1, <4>1, AppendProperties, TitlesType
      <4>3. Titles(d)[n] = TitleOf[d[n]]
        BY <4>1, LenProperties DEF Titles
      <4>4. QED
        BY <3>1, <4>2, <4>3
    <3>4. QED
      BY <3>2, <3>3
  <2>4. QED
    BY <2>2, <2>3, SeqEqual
<1>3. Append(b \o Titles(d), TitleOf[i]) = b \o Append(Titles(d), TitleOf[i])
  <2> DEFINE t == Titles(d)
             e == TitleOf[i]
  <2>1. t \in Seq(Title) /\ e \in Title /\ <<e>> \in Seq(Title)
    BY <1>1
  <2> HIDE DEF t, e
  <2>2. Append(t, e) = t \o <<e>>
    BY <2>1, AppendIsConcat
  <2>3. b \o t \in Seq(Title) /\ Append(b \o t, e) = (b \o t) \o <<e>>
    BY <2>1, ConcatProperties, AppendIsConcat
  <2>4. (b \o t) \o <<e>> = b \o (t \o <<e>>)
    BY <2>1, ConcatAssociative
  <2>5. Append(b \o t, e) = b \o Append(t, e)
    BY <2>2, <2>3, <2>4
  <2>6. QED
    BY <2>5 DEF t, e
<1>4. QED
  BY <1>2, <1>3

LEMMA NoTitles == ASSUME NEW b \in Seq(Title) PROVE b \o Titles(<<>>) = b
<1>1. Titles(<<>>) = <<>>
  BY TitlesType, EmptySeq
<1>2. QED
  BY <1>1, ConcatEmptySeq

\* A command that does not write, and stops, has no file to answer for.
LEMMA FileStep ==
    ASSUME Typed, Control, Collected, FileTells, [Next]_vars
    PROVE  Collected' /\ FileTells'
<1> USE DEF Typed, Control, Running, Collected, FileTells, world, local
<1>1. ASSUME NEW i \in Inputs, NonInteractive(i) \/ Interactive(i)
      PROVE  Collected' /\ FileTells'
  <2>1. CASE NonInteractive(i) \/ file = NoFile
    <3>1. cmd'.done = <<>> /\ cmd'.before = i.names /\ st' = i
      BY <1>1, <2>1 DEF NonInteractive, Interactive, Command
    <3>2. step' \in {"validate", "wizard"}
      BY <1>1, <2>1 DEF NonInteractive, Interactive
    <3>3. QED
      BY <3>1, <3>2
  <2>2. CASE Interactive(i) /\ file # NoFile
    BY <2>2 DEF Interactive, Command
  <2>3. QED
    BY <1>1, <2>1, <2>2
<1>2. CASE Wizard
  BY <1>2, WizardAsks DEF Wizard, TypeOK
<1>3. CASE Cancel \/ OpFails
  BY <1>3 DEF Cancel, OpFails, Fail, Stop
<1>4. CASE MenuAdd
  <2>1. file.items \in Seq(Title)
    BY <1>4 DEF MenuAdd, Loads, TypeOK, Config
  <2>2. cmd'.done = <<>> /\ cmd'.before = file.items /\ items' = file.items /\ step' = "add"
    BY <1>4 DEF MenuAdd, CmdOK
  <2>3. QED
    BY <2>1, <2>2, NoTitles
<1>5. CASE MenuTTL
  BY <1>5 DEF MenuTTL, Save, Stop, CmdOK
<1>6. CASE MenuOver
  BY <1>6 DEF MenuOver, Command
<1>7. CASE Validate
  BY <1>7 DEF Validate, Stop
<1>8. CASE CreateVault
  <2>1. st.names \in Seq(Title)
    BY DEF TypeOK, Input
  <2>2. QED
    BY <1>8, <2>1, NoTitles DEF CreateVault
<1>9. CASE FromVault \/ NextSpec
  BY <1>9 DEF FromVault, NextSpec
<1>10. CASE Transfer
  <2>1. Head(queue) \in Item
    BY <1>10, HeadTailProperties DEF Transfer, TypeOK
  <2>2. /\ items' = Append(items, TitleOf[Head(queue)])
        /\ cmd'.before = cmd.before
        /\ cmd'.done = Append(cmd.done, Head(queue))
        /\ step' = step
    BY <1>10 DEF Transfer, TransferItem, CmdOK
  <2>3. cmd.before \in Seq(Title) /\ cmd.done \in Seq(Item)
    BY DEF CmdOK
  <2>4. items' = cmd'.before \o Titles(cmd'.done)
    BY <1>10, <2>1, <2>2, <2>3, TitlesGrow DEF Transfer
  <2>5. QED
    BY <1>10, <2>2, <2>4 DEF Transfer
<1>11. CASE AddFails
  BY <1>11 DEF AddFails
<1>12. CASE Write
  <2>1. step' = "idle" /\ items = cmd.before \o Titles(cmd.done) /\ cmd.kind # "add"
    BY <1>12 DEF Write, Stop
  <2>2. cmd'.before = cmd.before /\ cmd'.done = cmd.done /\ cmd'.kind = cmd.kind
    BY <1>12 DEF Write, Save, CmdOK
  <2>3. cmd'.write = "ok" => file'.items = items
    BY <1>12, Saved DEF Write
  <2>4. QED
    BY <2>1, <2>2, <2>3 DEF Titles
<1>13. CASE AddWrite
  <2>1. file \in Config
    BY <1>13 DEF AddWrite, Loads, TypeOK
  <2>2. [file EXCEPT !.items = items].items = items
    BY <2>1 DEF Config
  <2>3. QED
    BY <1>13, <2>2 DEF AddWrite, Save, Stop, CmdOK
<1>14. CASE UNCHANGED vars
  BY <1>14 DEF vars, Titles
<1>15. QED
  BY <1>1, <1>2, <1>3, <1>4, <1>5, <1>6, <1>7, <1>8, <1>9, <1>10, <1>11, <1>12,
     <1>13, <1>14 DEF Next

-----------------------------------------------------------------------------
(***************************************************************************)
(* The originals.                                                          *)
(***************************************************************************)
LEMMA HalfDoneKeeps ==
    ASSUME Typed, Moves, OriginalsStay, queue # <<>>, HalfDone, cmd' = cmd,
           (~st'.move /\ step' = "idle") \/ UNCHANGED <<step, st>>
    PROVE  Moves' /\ OriginalsStay'
<1> USE DEF Typed
<1>1. CASE place' = place
  BY <1>1 DEF Moves, OriginalsStay
<1>2. CASE place' # place
  <2>1. PICK i \in Item, v \in 1..made :
               /\ i \in Has(Source) /\ place[v][i] < MaxCopies
               /\ \/ place' = Copied(i, v)
                  \/ st.move /\ place' = Moved(i, v)
    BY <1>2, HalfDoneEffect
  <2>2. v \in Vault /\ Source \in Vault
    BY Vaults DEF TypeOK
  <2>3. \A w \in Vault, j \in Item : place[w][j] \in Nat
    BY Vaults DEF TypeOK
  <2>4. /\ place'[v][i] = place[v][i] + 1
        /\ \A w \in Vault, j \in Item : w # Source => place'[w][j] >= place[w][j]
        /\ \/ place'[Source] = place[Source]
           \/ st.move /\ place'[Source] = [place[Source] EXCEPT ![i] = @ - 1]
        /\ place' \in [Vault -> [Item -> 0..MaxCopies]]
    <3>1. place' \in {Copied(i, v), Moved(i, v)}
      BY <2>1
    <3>2. /\ \A p \in {Copied(i, v), Moved(i, v)} :
                /\ p \in [Vault -> [Item -> 0..MaxCopies]]
                /\ p[v][i] = place[v][i] + 1
                /\ \A w \in Vault, j \in Item : w # Source => p[w][j] >= place[w][j]
          /\ Copied(i, v)[Source] = place[Source]
          /\ Moved(i, v)[Source] = [place[Source] EXCEPT ![i] = @ - 1]
      BY <2>1, Effects
    <3>3. QED
      BY <2>1, <3>1, <3>2
  <2>5. \A j \in Item : place'[Source][j] <= place[Source][j]
    <3>1. place[Source] \in [Item -> 0..MaxCopies]
      BY <2>2 DEF TypeOK
    <3>2. TAKE j \in Item
    <3>3. place'[Source][j] \in {place[Source][j], place[Source][j] - 1}
      BY <2>4, <3>1
    <3>4. QED
      BY <2>2, <2>3, <3>3
  <2>6. \A j \in Item : j # i => place'[Source][j] = place[Source][j]
    BY <2>2, <2>4 DEF TypeOK
  <2>7. place'[Source] # place[Source] => cmd.input.move
    BY <2>4 DEF Moves
  <2>8. \A j \in Item : place'[Source][j] \in Nat /\ cmd.source[j] \in Nat
    BY <2>2, <2>4, Vaults DEF CmdOK
  <2>9. Moves'
    <3>1. cmd.kind = "flags" /\ cmd.input.move =>
              \A j \in Item : place'[Source][j] <= cmd.source[j]
      <4>1. SUFFICES ASSUME cmd.kind = "flags", cmd.input.move, NEW j \in Item
                     PROVE  place'[Source][j] <= cmd.source[j]
        OBVIOUS
      <4>2. place[Source][j] <= cmd.source[j]
        BY <4>1 DEF Moves
      <4>3. place'[Source][j] <= place[Source][j] /\ place[Source][j] \in Nat
        BY <2>2, <2>3, <2>5
      <4>4. QED
        BY <2>8, <4>2, <4>3
    <3>2. QED
      BY <3>1 DEF Moves
  <2>10. place'[Source] # cmd.source => cmd.input.move
    BY <2>7 DEF OriginalsStay
  <2>11. cmd.kind = "flags" /\ cmd.input.move =>
             \A j \in Members(cmd.done) : place'[Source][j] < cmd.source[j]
    <3>1. \A j \in Members(cmd.done) : j \in Item
      BY ElementOfSeq, LenProperties DEF CmdOK, Members
    <3>2. QED
      BY <2>2, <2>3, <2>5, <2>8, <3>1 DEF OriginalsStay
  <2>12. \A j \in Item : \E w \in Vault : place'[w][j] > 0
    <3>1. TAKE j \in Item
    <3>2. CASE j = i
      BY <2>2, <2>3, <2>4, <3>2
    <3>3. CASE j # i
      <4>1. PICK w \in Vault : place[w][j] > 0
        BY DEF OriginalsStay
      <4>2. place'[w][j] \in Nat /\ place'[w][j] >= place[w][j]
        BY <2>3, <2>4, <2>6, <2>8, <3>3, Vaults
      <4>3. QED
        BY <2>3, <4>1, <4>2
    <3>4. QED
      BY <3>2, <3>3
  <2>13. QED
    BY <2>9, <2>10, <2>11, <2>12 DEF OriginalsStay
<1>3. QED
  BY <1>1, <1>2

LEMMA MoveStep ==
    ASSUME Typed, Control, Collected, Moves, OriginalsStay, [Next]_vars
    PROVE  Moves' /\ OriginalsStay'
<1> USE DEF Typed, Control, Running, Moves, OriginalsStay, world, local, Members
<1>0. \A i \in Item : place[Source][i] \in Nat
  BY Vaults DEF TypeOK
<1>1. ASSUME NEW i \in Inputs, NonInteractive(i) \/ Interactive(i)
      PROVE  Moves' /\ OriginalsStay'
  BY <1>0, <1>1 DEF NonInteractive, Interactive, Command, Blank
<1>2. CASE Wizard
  BY <1>2, WizardAsks DEF Wizard, TypeOK
<1>3. CASE Cancel
  BY <1>3 DEF Cancel, Fail, Stop, Blank
<1>4. CASE MenuAdd
  BY <1>4 DEF MenuAdd, CmdOK
<1>5. CASE MenuTTL
  BY <1>5 DEF MenuTTL, Save, Stop, Blank, CmdOK
<1>6. CASE MenuOver
  BY <1>0, <1>6 DEF MenuOver, Command, Blank
<1>7. CASE Validate
  BY <1>7 DEF Validate, Stop, Blank
<1>8. CASE CreateVault \/ FromVault \/ NextSpec
  BY <1>8 DEF CreateVault, FromVault, NextSpec
<1>9. CASE Transfer
  <2> DEFINE h == Head(queue)
  <2>1. h \in Item /\ place[Source][h] > 0
    BY <1>9, HeadTailProperties DEF Transfer, TypeOK, Has
  <2>2. PICK v \in 1..made : TransferItem(h, v)
    BY <1>9 DEF Transfer
  <2>3. v \in Vault /\ v # Source /\ Source \in Vault
    BY Vaults DEF TypeOK
  <2>4. /\ cmd' = [cmd EXCEPT !.done = Append(@, h)]
        /\ UNCHANGED <<step, st>>
    BY <1>9, <2>2 DEF Transfer, TransferItem
  <2>5. /\ place'[v][h] = place[v][h] + 1
        /\ place'[Source] = [place[Source] EXCEPT ![h] = IF st.move THEN @ - 1 ELSE @]
        /\ \A i \in Item, w \in Vault : i # h \/ w \notin {v, Source} =>
               place'[w][i] = place[w][i]
    BY <2>1, <2>2, <2>3 DEF TransferItem, Copied, Moved, TypeOK
  <2> HIDE DEF h
  <2>6. Moves'
    BY <1>0, <1>9, <2>1, <2>4, <2>5 DEF CmdOK, Transfer
  <2>7. place'[Source] # cmd'.source => cmd'.input.move
    <3>1. CASE st.move
      BY <1>9, <2>4, <3>1 DEF Transfer, CmdOK
    <3>2. CASE ~st.move
      <4>1. place'[Source] = place[Source]
        BY <2>1, <2>3, <2>5, <3>2 DEF TypeOK
      <4>2. QED
        BY <2>4, <4>1 DEF CmdOK
    <3>3. QED
      BY <3>1, <3>2
  <2>8. cmd'.kind = "flags" /\ cmd'.input.move =>
            \A i \in Members(cmd'.done) : place'[Source][i] < cmd'.source[i]
    <3> SUFFICES ASSUME cmd.kind = "flags", cmd.input.move, NEW i \in Members(cmd'.done)
                 PROVE  place'[Source][i] < cmd.source[i]
      BY <2>4 DEF CmdOK
    <3>1. st.move
      BY <1>9 DEF Transfer
    <3>2. i \in Members(cmd.done) \cup {h}
      BY <2>1, <2>4, AppendProperties DEF CmdOK
    <3>3. \A x \in Item : cmd.source[x] \in Nat
      BY Vaults DEF CmdOK
    <3>4. i \in Item
      BY <2>1, <3>2, ElementOfSeq DEF CmdOK
    <3>5. CASE i = h
      BY <1>0, <2>1, <2>3, <2>5, <3>1, <3>3, <3>5 DEF TypeOK
    <3>6. CASE i # h
      BY <2>3, <2>5, <3>2, <3>4, <3>6
    <3>7. QED
      BY <3>5, <3>6
  <2>9. \A i \in Item : \E w \in Vault : place'[w][i] > 0
    <3>1. TAKE i \in Item
    <3>2. CASE i = h
      BY <2>3, <2>5, <3>2, Vaults DEF TypeOK
    <3>3. CASE i # h
      BY <2>5, <3>3
    <3>4. QED
      BY <3>2, <3>3
  <2>10. QED
    BY <2>6, <2>7, <2>8, <2>9
<1>10. CASE AddFails
  <2>1. queue # <<>> /\ HalfDone /\ cmd' = cmd /\ UNCHANGED <<step, st>>
    BY <1>10 DEF AddFails
  <2>2. QED
    BY <2>1, HalfDoneKeeps
<1>11. CASE Write
  <2>1. /\ cmd'.input = cmd.input /\ cmd'.source = cmd.source
        /\ cmd'.done = cmd.done /\ cmd'.kind = cmd.kind
    BY <1>11 DEF Write, Save, CmdOK
  <2>2. place' = place /\ step' = "idle" /\ ~st'.move
    BY <1>11 DEF Write, Stop, Blank
  <2>3. QED
    BY <2>1, <2>2
<1>12. CASE AddWrite
  BY <1>12 DEF AddWrite, Save, Stop, Blank, CmdOK
<1>13. CASE OpFails
  <2>1. cmd' = cmd /\ ~st'.move /\ step' = "idle"
    BY <1>13 DEF OpFails, Stop, Blank
  <2>2. CASE place' = place
    BY <2>1, <2>2
  <2>3. CASE place' # place
    BY <1>13, <2>1, <2>3, HalfDoneKeeps DEF OpFails
  <2>4. QED
    BY <2>2, <2>3
<1>14. CASE UNCHANGED vars
  BY <1>14 DEF vars
<1>15. QED
  BY <1>1, <1>2, <1>3, <1>4, <1>5, <1>6, <1>7, <1>8, <1>9, <1>10, <1>11, <1>12,
     <1>13, <1>14 DEF Next

-----------------------------------------------------------------------------
(***************************************************************************)
(* The existing file.                                                      *)
(***************************************************************************)
LEMMA ForceStep ==
    ASSUME Typed, Control, Forces, [Next]_vars
    PROVE  Forces'
<1> USE DEF Typed, Control, Running, Forces, world, local
<1>1. ASSUME NEW i \in Inputs, NonInteractive(i) \/ Interactive(i) PROVE Forces'
  BY <1>1 DEF NonInteractive, Interactive, Command
<1>2. CASE Wizard
  <2>1. st'.force = (st.force \/ cmd.kind = "over") /\ st.force \in BOOLEAN
    BY <1>2, WizardAsks DEF TypeOK, Input
  <2>2. cmd.kind = "wizard" => st'.force = st.force
    BY <2>1
  <2>3. QED
    BY <1>2, <2>2 DEF Wizard
<1>3. CASE Cancel \/ OpFails
  BY <1>3 DEF Cancel, OpFails, Fail, Stop
<1>4. CASE MenuAdd
  BY <1>4 DEF MenuAdd
<1>5. CASE MenuTTL \/ Write \/ AddWrite
  BY <1>5 DEF MenuTTL, Write, AddWrite, Stop
<1>6. CASE MenuOver
  BY <1>6 DEF MenuOver, Command
<1>7. CASE Validate
  BY <1>7 DEF Validate, Stop
<1>8. CASE CreateVault \/ FromVault \/ NextSpec \/ AddFails
  BY <1>8 DEF CreateVault, FromVault, NextSpec, AddFails
<1>9. CASE Transfer
  <2>1. cmd'.kind = cmd.kind /\ cmd'.input = cmd.input
    BY <1>9 DEF Transfer, TransferItem, CmdOK
  <2>2. QED
    BY <1>9, <2>1 DEF Transfer
<1>10. CASE UNCHANGED vars
  BY <1>10 DEF vars
<1>11. QED
  BY <1>1, <1>2, <1>3, <1>4, <1>5, <1>6, <1>7, <1>8, <1>9, <1>10 DEF Next

-----------------------------------------------------------------------------
(***************************************************************************)
(* A file that loads.                                                      *)
(***************************************************************************)
\* Where no flag is given nothing is, and starting over gives none.
LEMMA NothingGiven ==
    ASSUME NEW i \in Inputs \cup {Blank}, i.given = {}
    PROVE  ~i.from /\ i.names = <<>> /\ i.specs = <<>>
BY InputsAssumption DEF Blank, Input

LEMMA LoadStep ==
    ASSUME Typed, Control, Enough, AddKeeps, WizardLoads, [Next]_vars
    PROVE  Enough' /\ AddKeeps' /\ WizardLoads'
<1> USE DEF Typed, Control, Running, Enough, AddKeeps, WizardLoads, world, local
<1>1. ASSUME NEW i \in Inputs, NonInteractive(i) \/ Interactive(i)
      PROVE  Enough' /\ AddKeeps' /\ WizardLoads'
  <2>1. i \in Input
    BY InputsAssumption
  <2>2. CASE NonInteractive(i)
    BY <2>2 DEF NonInteractive, Command
  <2>3. CASE Interactive(i)
    BY <2>1, <2>3, NothingGiven DEF Interactive, Command
  <2>4. QED
    BY <1>1, <2>2, <2>3
<1>2. CASE Wizard
  BY <1>2, WizardAsks DEF Wizard, TypeOK
<1>3. CASE Cancel \/ OpFails
  BY <1>3 DEF Cancel, OpFails, Fail, Stop
<1>4. CASE MenuAdd
  <2>1. cmd'.kind = "add" /\ step' = "add" /\ file' = file /\ items' = file.items
    BY <1>4 DEF MenuAdd, CmdOK
  <2>2. QED
    BY <1>4, <2>1 DEF MenuAdd, Loads
<1>5. CASE MenuTTL
  <2>1. cmd'.kind = "ttl" /\ step' = "idle"
    BY <1>5 DEF MenuTTL, Save, Stop, CmdOK
  <2>2. cmd'.write = "ok" => \E t \in TTLs : file' = [file EXCEPT !.ttl = t]
    BY <1>5, Saved DEF MenuTTL
  <2>3. cmd'.write = "ok" => Loads(file')
    <3>1. file \in Config /\ Loads(file)
      BY <1>5 DEF MenuTTL, Loads, TypeOK
    <3>2. \A t \in TTLs : LET f == [file EXCEPT !.ttl = t] IN
             f \in Config /\ f.mode = file.mode /\ f.items = file.items /\ f.keys = file.keys
      BY <3>1 DEF Config
    <3>3. QED
      BY <2>2, <3>1, <3>2, FileAssumption DEF Loads
  <2>4. QED
    BY <2>1, <2>3
<1>6. CASE MenuOver
  BY <1>6 DEF MenuOver, Command, Blank
<1>7. CASE Validate
  BY <1>7 DEF Validate, Stop, Complete
<1>8. CASE CreateVault
  BY <1>8 DEF CreateVault, Complete
<1>9. CASE FromVault
  BY <1>9 DEF FromVault
<1>10. CASE NextSpec
  <2>1. CASE specs \in Seq(Item)
    <3>1. Head(specs) \in Item /\ Tail(specs) \in Seq(Item)
      BY <1>10, <2>1, HeadTailProperties DEF NextSpec
    <3>2. queue' = <<Head(specs)>>
      BY <1>10, <3>1, ListAssumption DEF NextSpec
    <3>3. queue' # <<>>
      BY <3>1, <3>2
    <3>4. QED
      BY <1>10, <3>1, <3>3 DEF NextSpec
  <2>2. CASE specs \notin Seq(Item)
    BY <1>10, <2>2 DEF NextSpec
  <2>3. QED
    BY <2>1, <2>2
<1>11. CASE Transfer
  <2>1. cmd'.kind = cmd.kind /\ cmd'.input = cmd.input /\ cmd'.write = cmd.write
    BY <1>11 DEF Transfer, TransferItem, CmdOK
  <2>2. items' # <<>>
    <3>1. items' = Append(items, TitleOf[Head(queue)]) /\ Head(queue) \in Item
      BY <1>11, HeadTailProperties DEF Transfer, TransferItem, TypeOK
    <3>2. QED
      BY <3>1, TitleAssumption, AppendProperties, EmptySeq DEF TypeOK
  <2>3. QED
    BY <1>11, <2>1, <2>2 DEF Transfer
<1>12. CASE AddFails
  BY <1>12 DEF AddFails
<1>13. CASE Write
  <2>1. cmd'.kind = cmd.kind /\ cmd'.input = cmd.input /\ step' = "idle"
    BY <1>13 DEF Write, Save, Stop, CmdOK
  <2>2. cmd'.write = "ok" =>
           file' = [mode |-> st.mode, ttl |-> st.ttl, items |-> items, keys |-> st.keys]
    BY <1>13, Saved DEF Write
  <2>3. [mode |-> st.mode, ttl |-> st.ttl, items |-> items, keys |-> st.keys] \in Config
    BY <1>13 DEF Write, Complete, TypeOK, Input, Config
  <2>4. cmd'.write = "ok" => file' \notin {NoFile, Broken}
    BY <2>2, <2>3, FileAssumption
  <2>5. QED
    BY <1>13, <2>1, <2>2, <2>4 DEF Write, Loads
<1>14. CASE AddWrite
  <2>1. cmd'.kind = "add" /\ step' = "idle"
    BY <1>14 DEF AddWrite, Save, Stop, CmdOK
  <2>2. QED
    <3>1. file \in Config /\ Loads(file)
      BY <1>14 DEF AddWrite, Loads, TypeOK
    <3>2. LET f == [file EXCEPT !.items = items] IN
             f \in Config /\ f.mode = file.mode /\ f.items = items /\ f.keys = file.keys
      BY <3>1 DEF Config, TypeOK
    <3>3. cmd'.write = "ok" => file' = [file EXCEPT !.items = items]
      BY <1>14, Saved DEF AddWrite
    <3>4. cmd'.write = "ok" => Loads(file')
      BY <1>14, <3>1, <3>2, <3>3, FileAssumption DEF Loads, AddWrite
    <3>5. QED
      BY <2>1, <3>4
<1>15. CASE UNCHANGED vars
  BY <1>15 DEF vars, Loads
<1>16. QED
  BY <1>1, <1>2, <1>3, <1>4, <1>5, <1>6, <1>7, <1>8, <1>9, <1>10, <1>11, <1>12,
     <1>13, <1>14, <1>15 DEF Next

-----------------------------------------------------------------------------
LEMMA InvInit == Init => IInv
<1> SUFFICES ASSUME Init PROVE IInv
  OBVIOUS
<1>1. Typed
  BY TypeInit
<1>2. step = "idle" /\ st = Blank /\ cmd = Command("none", Blank)
  BY DEF Init
<1>3. /\ cmd.kind = "none" /\ cmd.write = "none" /\ cmd.source = place[Source]
      /\ ~st.move
  BY <1>2 DEF Command, Blank
<1>4. \A i \in Item : place[Source][i] > 0
  BY Vaults DEF Init
<1>5. QED
  BY <1>1, <1>2, <1>3, <1>4, Vaults DEF IInv, Typed, Control, Collected, FileTells,
     Moves, OriginalsStay, Forces, Enough, AddKeeps, WizardLoads, Running

\* The invariant is inductive.
LEMMA InvStep == IInv /\ [Next]_vars => IInv'
BY TypeStep, ControlStep, FileStep, MoveStep, ForceStep, LoadStep DEF IInv, Typed

LEMMA Invariance == Spec => []IInv
BY InvInit, InvStep, PTL DEF Spec

-----------------------------------------------------------------------------
\* Every state of init is well typed, whatever is given and answered.
THEOREM TypeCorrect == Spec => []TypeOK
BY Invariance, PTL DEF IInv

\* No original leaves its vault unless --move was given, and no item is in no
\* vault, whatever `op` does and reports.
THEOREM NoItemIsLost == Spec => []OriginalsStay
BY Invariance, PTL DEF IInv

\* The file lists what was asked for and what was transferred, in this order.
THEOREM FileIsTrue == Spec => []FileTells
BY Invariance, PTL DEF IInv

\* What wizard and menu write loads.
THEOREM WrittenFileLoads == Spec => []WizardLoads
BY Invariance, PTL DEF IInv

\* Without --force a file that is there stays, and so does 1Password.
THEOREM FileStays == Spec => NeverOverwrites
<1>1. IInv /\ [Next]_vars =>
          [file # NoFile /\ step # "idle" /\ ~cmd.input.force
             /\ cmd.kind \in {"flags", "wizard"} => UNCHANGED world]_vars
  <2> SUFFICES ASSUME IInv, Next, file # NoFile, step # "idle", ~cmd.input.force,
                      cmd.kind \in {"flags", "wizard"}
               PROVE  UNCHANGED world
    BY DEF vars
  <2>1. step \in {"wizard", "validate"}
    BY DEF IInv, Control, Running, Forces, TypeOK
  <2>2. QED
    BY <2>1 DEF Next, NonInteractive, Interactive, Wizard, Cancel, Fail, MenuAdd, MenuTTL,
       MenuOver, Validate, CreateVault, FromVault, NextSpec, Transfer, AddFails, OpFails,
       Write, AddWrite
<1>2. QED
  BY <1>1, Invariance, PTL DEF Spec, NeverOverwrites
=============================================================================
