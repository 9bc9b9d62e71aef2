------------------------- MODULE CommandLineProofs -------------------------
(***************************************************************************)
(* Proofs about CommandLine, for every tree of directories, all contents   *)
(* of 1Password and of the files, and any number of changes to them.       *)
(***************************************************************************)
EXTENDS CommandLine, SuggestionsProofs, FiniteSetTheorems, TLAPS

-----------------------------------------------------------------------------
(***************************************************************************)
(* The project of a directory.  FindGitRoot's recursion has a solution:    *)
(* Nearest(d) is what every set has that contains d and, with a directory  *)
(* that is no git root, its parent.                                        *)
(***************************************************************************)
UpTo(d) == {S \in SUBSET DOMAIN Parent :
                d \in S /\ \A e \in S : e \notin Git => Parent[e] \in S}

Nearest(d) == {x \in Git : \A S \in UpTo(d) : x \in S}

LEMMA NearestOfRoot ==
    ASSUME NEW d \in DOMAIN Parent, d \in Git PROVE Nearest(d) = {d}
<1>1. {d} \in UpTo(d)
  BY DEF UpTo
<1>2. QED
  BY <1>1 DEF Nearest, UpTo

LEMMA NearestAtTop ==
    ASSUME NEW d \in DOMAIN Parent, d \notin Git, Parent[d] = d PROVE Nearest(d) = {}
<1>1. {d} \in UpTo(d)
  BY DEF UpTo
<1>2. QED
  BY <1>1 DEF Nearest

LEMMA NearestOfParent ==
    ASSUME NEW d \in DOMAIN Parent, d \notin Git PROVE Nearest(d) = Nearest(Parent[d])
<1>1. Parent[d] \in DOMAIN Parent
  BY ParentAssumption
<1>2. UpTo(d) \subseteq UpTo(Parent[d])
  BY DEF UpTo
<1>3. ASSUME NEW x \in Nearest(d) PROVE x \in Nearest(Parent[d])
  <2>1. SUFFICES ASSUME NEW S \in UpTo(Parent[d]) PROVE x \in S
    BY <1>3 DEF Nearest
  <2>2. S \cup {d} \in UpTo(d)
    BY <2>1 DEF UpTo
  <2>3. x \in S \cup {d} /\ x \in Git
    BY <1>3, <2>2 DEF Nearest
  <2>4. QED
    BY <2>3
<1>4. ASSUME NEW x \in Nearest(Parent[d]) PROVE x \in Nearest(d)
  BY <1>2, <1>4 DEF Nearest
<1>5. QED
  BY <1>3, <1>4

\* A command has a project, or none.
LEMMA RootType ==
    ASSUME NEW cwd \in DOMAIN Parent PROVE Root(cwd) \in Git \cup {Nothing}
<1> DEFINE D == DOMAIN Parent
           Body(g) == [d \in D |-> IF d \in Git THEN d
                                   ELSE IF Parent[d] = d THEN Nothing
                                   ELSE g[Parent[d]]]
           near == [d \in D |-> IF Nearest(d) = {} THEN Nothing
                                ELSE CHOOSE x \in Nearest(d) : TRUE]
           root == CHOOSE g : g = Body(g)
<1>1. \A d \in D : Parent[d] \in D
  BY ParentAssumption
<1>2. ASSUME NEW d \in D PROVE near[d] = Body(near)[d]
  <2>1. CASE d \in Git
    <3>1. Nearest(d) = {d}
      BY <2>1, NearestOfRoot
    <3>2. QED
      BY <2>1, <3>1
  <2>2. CASE d \notin Git /\ Parent[d] = d
    BY <2>2, NearestAtTop
  <2>3. CASE d \notin Git /\ Parent[d] # d
    <3>1. Nearest(d) = Nearest(Parent[d]) /\ Parent[d] \in D
      BY <1>1, <2>3, NearestOfParent
    <3>2. near[d] = near[Parent[d]]
      BY <3>1
    <3>3. QED
      BY <2>3, <3>2
  <2>4. QED
    BY <2>1, <2>2, <2>3
<1>3. near = Body(near)
  BY <1>2
<1>4. root = Body(root)
  <2> HIDE DEF Body, near
  <2>1. QED
    BY <1>3
<1>5. \A d \in D : root[d] \in Git \cup {Nothing}
  <2> DEFINE Bad == {d \in D : root[d] \notin Git \cup {Nothing}}
  <2>1. SUFFICES ASSUME Bad # {} PROVE FALSE
    OBVIOUS
  <2>2. PICK d \in Bad : Parent[d] = d \/ Parent[d] \notin Bad
    <3> HIDE DEF root
    <3>1. Bad \in SUBSET DOMAIN Parent
      OBVIOUS
    <3> HIDE DEF Bad
    <3>2. QED
      BY <2>1, <3>1, ParentAssumption
  <2>3. root[d] = Body(root)[d]
    BY <1>4
  <2> HIDE DEF root
  <2>4. QED
    BY <1>1, <2>2, <2>3
<1>6. QED
  BY <1>5 DEF Root, FindGitRoot

\* A command that has a configuration has that of its project.
LEMMA ContextIs ==
    ASSUME TypeOK, NEW cwd \in DOMAIN Parent, Context(cwd) # Nothing
    PROVE  /\ Root(cwd) \in Git /\ Root(cwd) # Nothing
           /\ Context(cwd) = file[Root(cwd)]
           /\ Context(cwd) \in Files /\ Loads(Context(cwd))
BY RootType DEF Context, TypeOK

-----------------------------------------------------------------------------
(***************************************************************************)
(* The entries of a file that loads.                                       *)
(***************************************************************************)
LEMMA Entries ==
    ASSUME NEW f \in Files, Loads(f)
    PROVE  /\ Len(f.items) \in Nat /\ DOMAIN f.items = 1..Len(f.items)
           /\ \A i \in 1..Len(f.items) :
                 f.items[i].name \in Name /\ f.items[i].field \in Field \cup {Empty}
<1>1. f.items \in Seq(Entry)
  BY FilesAssumption DEF Loads
<1>2. /\ Len(f.items) \in Nat /\ DOMAIN f.items = 1..Len(f.items)
      /\ \A i \in 1..Len(f.items) :
            f.items[i] \in Entry
  BY <1>1, LenProperties, ElementOfSeq
<1>3. QED
  BY <1>2 DEF Entry

LEMMA FirstField ==
    ASSUME NEW f \in Files, Loads(f), NEW n
    PROVE  /\ FieldFor(f, n) \in Field \cup {Empty}
           /\ Allows(f, n) => \E i \in 1..Len(f.items) : /\ f.items[i].name = n
                                                       /\ f.items[i].field = FieldFor(f, n)
<1> DEFINE Of == {i \in DOMAIN f.items : f.items[i].name = n}
<1>1. CASE ~Allows(f, n)
  BY <1>1 DEF FieldFor
<1>2. CASE Allows(f, n)
  <2>1. Of # {} /\ Of \in SUBSET Nat
    BY <1>2, Entries DEF Allows, ItemNames
  <2>2. PICK i \in Of : \A j \in Of : i <= j
    <3> HIDE DEF Of
    <3>1. QED
      BY <2>1, LeastNat
  <2>3. ASSUME NEW j \in 1..(i - 1) PROVE f.items[j].name # n
    <3>1. j \in DOMAIN f.items /\ ~(i <= j)
      BY Entries
    <3>2. QED
      BY <2>2, <3>1
  <2>4. \E k \in DOMAIN f.items :
            f.items[k].name = n /\ \A j \in 1..(k - 1) : f.items[j].name # n
    BY <2>3
  <2>5. PICK k \in DOMAIN f.items : f.items[k].name = n /\ FieldFor(f, n) = f.items[k].field
    BY <1>2, <2>4 DEF FieldFor
  <2>6. QED
    BY <2>5, Entries
<1>3. QED
  BY <1>1, <1>2

-----------------------------------------------------------------------------
(***************************************************************************)
(* The requests of a command, and the cache after them.                    *)
(***************************************************************************)
RequestOf(p, f, r) == \E n \in Name, d \in Field \cup {Empty} :
                          r = Request("read", p, f, n, d, f.ttl)

AskedFor(s, p, f) == /\ Len(s) \in Nat /\ DOMAIN s = 1..Len(s)
                     /\ \A i \in 1..Len(s) : RequestOf(p, f, s[i])

LEMMA OneRead ==
    ASSUME NEW p, NEW f \in Files, Loads(f), NEW n \in Name
    PROVE  /\ AskedFor(<<ReadRequest(f, p, n, Nothing)>>, p, f)
           /\ Len(<<ReadRequest(f, p, n, Nothing)>>) = 1
           /\ KeyOf(<<ReadRequest(f, p, n, Nothing)>>[1])
                 = [project |-> p, name |-> n, field |-> FieldFor(f, n)]
<1> DEFINE r == ReadRequest(f, p, n, Nothing)
<1>1. r = Request("read", p, f, n, FieldFor(f, n), f.ttl)
  BY DEF ReadRequest
<1>2. RequestOf(p, f, r)
  BY <1>1, FirstField DEF RequestOf
<1>3. KeyOf(r) = [project |-> p, name |-> n, field |-> FieldFor(f, n)]
  BY <1>1 DEF KeyOf, Request
<1> HIDE DEF r
<1>4. Len(<<r>>) = 1 /\ DOMAIN <<r>> = 1..Len(<<r>>) /\ <<r>>[1] = r
  OBVIOUS
<1>5. AskedFor(<<r>>, p, f)
  <2>1. \A i \in 1..Len(<<r>>) : <<r>>[i] = r
    BY <1>4
  <2>2. QED
    BY <1>2, <1>4, <2>1 DEF AskedFor
<1>6. QED
  BY <1>3, <1>4, <1>5 DEF r

LEMMA AllReads ==
    ASSUME NEW p, NEW f \in Files, Loads(f)
    PROVE  /\ AskedFor(RunRequests(f, p), p, f)
           /\ Len(RunRequests(f, p)) = Len(f.items)
           /\ \A i \in 1..Len(f.items) : RunRequests(f, p)[i].name = f.items[i].name
<1> DEFINE s == RunRequests(f, p)
<1>1. DOMAIN s = 1..Len(f.items) /\ Len(f.items) \in Nat
  BY Entries DEF RunRequests
<1>2. ASSUME NEW i \in 1..Len(f.items)
      PROVE  RequestOf(p, f, s[i]) /\ s[i].name = f.items[i].name
  <2>1. s[i] = Request("read", p, f, f.items[i].name, f.items[i].field, f.ttl)
    BY <1>1 DEF RunRequests
  <2>2. s[i].name = f.items[i].name
    BY <2>1 DEF Request
  <2>3. QED
    BY <2>1, <2>2, Entries DEF RequestOf
<1>3. Len(s) = Len(f.items)
  BY <1>1 DEF RunRequests
<1> HIDE DEF s
<1>4. AskedFor(s, p, f)
  BY <1>1, <1>2, <1>3 DEF AskedFor
<1>5. QED
  BY <1>2, <1>3, <1>4 DEF s

\* A request's key says which request of the command it is.
LEMMA Keys ==
    ASSUME NEW p \in Git, NEW f, NEW s, AskedFor(s, p, f)
    PROVE  /\ \A i \in 1..Len(s) : KeyOf(s[i]) \in Key
           /\ \A i, j \in 1..Len(s) : KeyOf(s[i]) = KeyOf(s[j]) => s[i] = s[j]
<1>1. ASSUME NEW i \in 1..Len(s), NEW j \in 1..Len(s)
      PROVE  /\ KeyOf(s[i]) \in Key
             /\ KeyOf(s[i]) = KeyOf(s[j]) => s[i] = s[j]
  <2>1. PICK n \in Name, d \in Field \cup {Empty} :
            s[i] = Request("read", p, f, n, d, f.ttl)
    BY DEF AskedFor, RequestOf
  <2>2. PICK m \in Name, e \in Field \cup {Empty} :
            s[j] = Request("read", p, f, m, e, f.ttl)
    BY DEF AskedFor, RequestOf
  <2>3. /\ KeyOf(s[i]) = [project |-> p, name |-> n, field |-> d]
        /\ KeyOf(s[j]) = [project |-> p, name |-> m, field |-> e]
    BY <2>1, <2>2 DEF KeyOf, Request
  <2>4. KeyOf(s[i]) \in Key
    BY <2>3 DEF Key
  <2>5. KeyOf(s[i]) = KeyOf(s[j]) => n = m /\ d = e
    BY <2>3
  <2>6. QED
    BY <2>1, <2>2, <2>4, <2>5
<1>2. QED
  BY <1>1

LEMMA Matched ==
    ASSUME TypeOK, NEW v, NEW ref, Found(v, ref)
    PROVE  TheItem(v, ref) \in Item
<1>1. Matching(v, ref) # {}
  BY FS_EmptySet DEF Found
<1>2. Matching(v, ref) \subseteq Item
  BY DEF Matching, ItemsIn, TypeOK
<1>3. QED
  BY <1>1, <1>2 DEF TheItem

LEMMA AnswerType ==
    ASSUME TypeOK, NEW p, NEW f, NEW r, RequestOf(p, f, r), Refusal(r) = "ok"
    PROVE  Answer(r) \in Value
<1>1. Found(r.vault, r.name)
  BY DEF Refusal
<1>2. TheItem(r.vault, r.name) \in Item
  BY <1>1, Matched
<1>3. FieldOf(r) \in Field
  BY NamesAssumption DEF RequestOf, Request, FieldOf
<1>4. QED
  BY <1>2, <1>3 DEF Answer, Value

\* What is in the cache stays; what comes in is an answer.
LEMMA FilledIs ==
    ASSUME TypeOK, NEW p \in Git, NEW f, NEW s, AskedFor(s, p, f),
           NEW n \in 0..Len(s), Answerable(s, n)
    PROVE  /\ Filled(s, n) \in [Key -> Value \cup {Nothing}]
           /\ \A k \in Key : /\ memory[k] # Nothing => Filled(s, n)[k] = memory[k]
                             /\ (\E i \in 1..n : KeyOf(s[i]) = k /\ Cold(s, i))
                                    => Filled(s, n)[k] # Nothing
<1>1. Len(s) \in Nat
  BY DEF AskedFor
<1>2. ASSUME NEW k \in Key
      PROVE  /\ Filled(s, n)[k] \in Value \cup {Nothing}
             /\ memory[k] # Nothing => Filled(s, n)[k] = memory[k]
             /\ (\E i \in 1..n : KeyOf(s[i]) = k /\ Cold(s, i))
                    => Filled(s, n)[k] # Nothing
  <2>1. CASE \E i \in 1..n : KeyOf(s[i]) = k /\ Cold(s, i)
    <3>1. PICK i \in 1..n : KeyOf(s[i]) = k /\ Cold(s, i)
      BY <2>1
    <3>2. PICK j \in 1..n : /\ KeyOf(s[j]) = k
                            /\ Filled(s, n)[k] = Answer(s[j])
      BY <2>1 DEF Filled
    <3>3. i \in 1..Len(s) /\ j \in 1..Len(s)
      BY <1>1
    <3>4. s[j] = s[i]
      BY <3>1, <3>2, <3>3, Keys
    <3>5. RequestOf(p, f, s[i]) /\ Refusal(s[i]) = "ok"
      BY <3>1, <3>3 DEF AskedFor, Answerable
    <3>6. Answer(s[j]) \in Value
      BY <3>4, <3>5, AnswerType
    <3>7. memory[k] = Nothing
      BY <3>1 DEF Cold
    <3>8. QED
      BY <3>2, <3>6, <3>7, NothingAssumption
  <2>2. CASE ~\E i \in 1..n : KeyOf(s[i]) = k /\ Cold(s, i)
    <3>1. Filled(s, n)[k] = memory[k]
      BY <2>2 DEF Filled
    <3>2. QED
      BY <2>2, <3>1 DEF TypeOK
  <2>3. QED
    BY <2>1, <2>2
<1>3. DOMAIN Filled(s, n) = Key /\ Filled(s, n) = [k \in Key |-> Filled(s, n)[k]]
  BY DEF Filled
<1>4. QED
  BY <1>2, <1>3

\* Every one of the first n has its entry then.
LEMMA FilledAll ==
    ASSUME TypeOK, NEW p \in Git, NEW f, NEW s, AskedFor(s, p, f),
           NEW n \in 0..Len(s), Answerable(s, n), NEW i \in 1..n
    PROVE  Filled(s, n)[KeyOf(s[i])] # Nothing
<1> DEFINE k == KeyOf(s[i])
           Same == {j \in 1..n : KeyOf(s[j]) = k}
<1>1. Len(s) \in Nat /\ i \in 1..Len(s)
  BY DEF AskedFor
<1>2. k \in Key
  BY <1>1, Keys
<1>3. CASE memory[k] # Nothing
  BY <1>2, <1>3, FilledIs
<1>4. CASE memory[k] = Nothing
  <2>1. PICK j \in Same : \A m \in Same : j <= m
    <3>1. Same # {} /\ Same \in SUBSET Nat
      BY <1>1
    <3> HIDE DEF Same
    <3>2. QED
      BY <3>1, LeastNat
  <2>2. ASSUME NEW m \in 1..(j - 1) PROVE KeyOf(s[m]) # k
    <3>1. m \in 1..n /\ ~(j <= m)
      BY <1>1
    <3>2. QED
      BY <2>1, <3>1
  <2>3. j \in 1..n /\ KeyOf(s[j]) = k /\ Cold(s, j)
    BY <1>4, <2>2 DEF Cold
  <2> HIDE DEF k
  <2>4. QED
    BY <1>2, <2>3, FilledIs DEF k
<1>5. QED
  BY <1>3, <1>4

MemoryOK == /\ daemon \in [Variables -> Token \cup {Nothing}] \cup {Nothing}
            /\ memory \in [Key -> Value \cup {Nothing}]
            /\ daemon = Nothing => \A k \in Key : memory[k] = Nothing

LEMMA SpawnedType ==
    ASSUME TypeOK
    PROVE  Spawned \in [Variables -> Token \cup {Nothing}] /\ Spawned # Nothing
BY NothingAssumption DEF TypeOK, Spawned

LEMMA SentIs ==
    ASSUME TypeOK, NEW STATE p, p \in Git, NEW STATE f, NEW STATE s, AskedFor(s, p, f),
           NEW STATE n, n \in 0..Len(s), Answerable(s, n), Sent(s, n)
    PROVE  /\ MemoryOK'
           /\ \A k \in Key : memory[k] # Nothing => memory'[k] = memory[k]
<1>1. /\ memory' \in [Key -> Value \cup {Nothing}]
      /\ \A k \in Key : memory[k] # Nothing => memory'[k] = memory[k]
  BY FilledIs DEF Sent
<1>2. CASE s = <<>>
  <2>1. n = 0
    BY <1>2
  <2>2. ASSUME NEW k \in Key PROVE memory'[k] = memory[k]
    BY <2>1 DEF Sent, Filled
  <2>3. QED
    BY <1>1, <1>2, <2>2 DEF MemoryOK, TypeOK, Sent
<1>3. CASE s # <<>>
  BY <1>1, <1>3, SpawnedType DEF MemoryOK, Sent
<1>4. QED
  BY <1>2, <1>3

-----------------------------------------------------------------------------
(***************************************************************************)
(* The invariant.                                                          *)
(***************************************************************************)
\* All that doctor looks at is as it should be, but for the daemon.
Passes(p) == /\ Loads(file[p]) /\ op
             /\ file[p].keys # <<>> => agent
             /\ \A i \in DOMAIN file[p].items :
                   Found(file[p].vault, file[p].items[i].name)
             /\ \A i \in DOMAIN file[p].keys : KeyCheck(file[p].keys[i])

DoctorSaw == \A p \in clean : Passes(p)

\* The cache has what the command was given, where read looks for it.
Kept(p, n) ==
    given[p][n] # Nothing =>
        /\ Loads(file[p]) /\ Allows(file[p], n)
        /\ memory[[project |-> p, name |-> n, field |-> FieldFor(file[p], n)]]
              = given[p][n]

RunKept == \A p \in Git, n \in Name : Kept(p, n)

IInv == TypeOK /\ DoctorSaw /\ CleanDoctorRuns /\ RunKept /\ WarmAfterRun

\* Only a run and a read are judged by how they ended.
Unjudged == last'.cmd \notin {"run", "read"} /\ last'.value = Nothing

LEMMA Judged == ASSUME Unjudged PROVE CleanDoctorRuns' /\ WarmAfterRun'
BY DEF Unjudged, CleanDoctorRuns, WarmAfterRun

LEMMA PassesStays ==
    ASSUME NEW p, Passes(p), UNCHANGED <<held, op, agent>>, file'[p] = file[p]
    PROVE  Passes(p)'
BY DEF Passes, KeyCheck, Found, Matching, ItemsIn, TheItem

LEMMA DoctorSawStays ==
    ASSUME DoctorSaw, UNCHANGED <<held, op, agent>>,
           clean' \subseteq clean, \A p \in clean' : file'[p] = file[p]
    PROVE  DoctorSaw'
BY PassesStays DEF DoctorSaw

LEMMA KeptStays ==
    ASSUME TypeOK, RunKept, NEW p \in Git, NEW n \in Name, file'[p] = file[p],
           given'[p][n] \in {given[p][n], Nothing},
           \A k \in Key : k.project = p /\ k.name = n /\ given'[p][n] # Nothing
                              => memory[k] \in {memory'[k], Nothing}
    PROVE  Kept(p, n)'
<1> SUFFICES ASSUME given'[p][n] # Nothing PROVE Kept(p, n)'
  BY DEF Kept
<1> DEFINE k == [project |-> p, name |-> n, field |-> FieldFor(file[p], n)]
<1>1. Loads(file[p]) /\ Allows(file[p], n) /\ memory[k] = given[p][n]
  BY DEF RunKept, Kept
<1>2. FieldFor(file[p], n) \in Field \cup {Empty}
  BY <1>1, FirstField DEF TypeOK
<1>3. k \in Key /\ k.project = p /\ k.name = n
  BY <1>2 DEF Key
<1>4. memory'[k] = given'[p][n]
  BY <1>1, <1>3
<1>5. FieldFor(file[p], n)' = FieldFor(file[p], n)
  BY DEF FieldFor, Allows, ItemNames
<1>6. Loads(file[p])' /\ Allows(file[p], n)'
  BY <1>1 DEF Loads, EntryOK, Allows, ItemNames
<1>7. QED
  BY <1>4, <1>5, <1>6 DEF Kept

LEMMA RunKeptStays ==
    ASSUME TypeOK, RunKept, UNCHANGED <<file, given>>,
           \A k \in Key : memory[k] # Nothing => memory'[k] = memory[k]
    PROVE  RunKept'
<1>1. ASSUME NEW p \in Git, NEW n \in Name PROVE Kept(p, n)'
  BY KeptStays
<1>2. QED
  BY <1>1 DEF RunKept

LEMMA InitIInv == Init => IInv
<1> SUFFICES ASSUME Init PROVE IInv
  OBVIOUS
<1>1. TypeOK
  BY HeldAssumption, EditsAssumption DEF Init, TypeOK, Silence, Outcome
<1>2. QED
  BY <1>1 DEF Init, IInv, DoctorSaw, RunKept, Kept, CleanDoctorRuns,
              WarmAfterRun, Silence, Outcome

-----------------------------------------------------------------------------
(***************************************************************************)
(* Commands.                                                               *)
(***************************************************************************)
LEMMA CommandTypes ==
    ASSUME TypeOK, UNCHANGED <<world, edits>>, MemoryOK',
           last'.value \in Value \cup {Nothing}, clean' \subseteq Git,
           given' \in [Git -> [Name -> Value \cup {Nothing}]]
    PROVE  TypeOK'
BY DEF TypeOK, MemoryOK, world

LEMMA MemoryStays == ASSUME TypeOK, UNCHANGED <<daemon, memory>> PROVE MemoryOK'
BY DEF TypeOK, MemoryOK

LEMMA NoProjectKeeps ==
    ASSUME IInv, NEW cwd \in DOMAIN Parent,
           NEW c \in {"read", "run", "lock", "status"}, NoProject(c, cwd)
    PROVE  IInv'
<1>1. /\ UNCHANGED <<world, edits, daemon, memory, clean, given>>
      /\ last'.root = Nothing /\ last'.value = Nothing
  BY DEF NoProject, Ends, Outcome
<1>2. Nothing \notin clean
  BY NothingAssumption DEF IInv, TypeOK
<1>3. TypeOK'
  BY <1>1, CommandTypes, MemoryStays DEF IInv, TypeOK
<1>4. DoctorSaw'
  BY <1>1, DoctorSawStays DEF IInv, world
<1>5. RunKept'
  BY <1>1, RunKeptStays DEF IInv, world
<1>6. CleanDoctorRuns' /\ WarmAfterRun'
  BY <1>1, <1>2 DEF CleanDoctorRuns, WarmAfterRun
<1>7. QED
  BY <1>3, <1>4, <1>5, <1>6 DEF IInv

LEMMA ReadKeeps ==
    ASSUME IInv, NEW cwd \in DOMAIN Parent, NEW n \in Name, Read(cwd, n)
    PROVE  IInv'
<1> DEFINE f == Context(cwd)
           p == Root(cwd)
           s == <<ReadRequest(f, p, n, Nothing)>>
           k == [project |-> p, name |-> n, field |-> FieldFor(f, n)]
<1>1. /\ f # Nothing /\ UNCHANGED <<clean, given>>
      /\ \/ /\ ~Allows(f, n) /\ Ends(ReadOutcome(cwd, n, "not listed"))
            /\ UNCHANGED <<daemon, memory>>
         \/ /\ Allows(f, n) /\ Answerable(s, 1) /\ Sent(s, 1)
            /\ Ends([ReadOutcome(cwd, n, "ok") EXCEPT
                        !.value = memory'[KeyOf(s[1])], !.warm = ~Cold(s, 1)])
         \/ /\ Allows(f, n) /\ Stops(s, 0)
            /\ \E why \in WhyNot(s[1]) : Ends(ReadOutcome(cwd, n, why))
  BY DEF Read
<1>2. TypeOK
  BY DEF IInv
<1>3. p \in Git /\ f = file[p] /\ f \in Files /\ Loads(f)
  BY <1>1, <1>2, ContextIs
<1>4. AskedFor(s, p, f) /\ Len(s) = 1 /\ KeyOf(s[1]) = k
  BY <1>3, OneRead
<1> HIDE DEF s
<1>5. k \in Key
  BY <1>3, FirstField DEF Key
<1>6. Cold(s, 1) <=> memory[k] = Nothing
  BY <1>4 DEF Cold
<1>7. UNCHANGED <<world, edits>>
  BY <1>1 DEF Ends
<1>8. /\ MemoryOK'
      /\ \A c \in Key : memory[c] # Nothing => memory'[c] = memory[c]
  <2>1. CASE UNCHANGED <<daemon, memory>>
    BY <1>2, <2>1, MemoryStays
  <2>2. CASE Answerable(s, 1) /\ Sent(s, 1)
    <3>1. 1 \in 0..Len(s)
      BY <1>4
    <3>2. QED
      BY <1>2, <1>3, <1>4, <2>2, <3>1, SentIs
  <2>3. CASE Stops(s, 0)
    <3>1. 0 \in 0..Len(s) /\ Answerable(s, 0) /\ Sent(s, 0)
      BY <1>4, <2>3 DEF Stops
    <3>2. QED
      BY <1>2, <1>3, <1>4, <3>1, SentIs
  <2>4. QED
    BY <1>1, <2>1, <2>2, <2>3
<1>9. /\ last'.cmd = "read" /\ last'.root = p /\ last'.name = n
      /\ \/ ~Allows(f, n) /\ last'.value = Nothing
         \/ Allows(f, n) /\ last'.why = "ok" /\ last'.value = memory'[k]
            /\ last'.warm = (memory[k] # Nothing)
         \/ Allows(f, n) /\ last'.value = Nothing /\ memory[k] = Nothing
  <2>1. CASE ~Allows(f, n) /\ Ends(ReadOutcome(cwd, n, "not listed"))
    BY <2>1 DEF Ends, ReadOutcome, Outcome
  <2>2. CASE /\ Allows(f, n)
             /\ Ends([ReadOutcome(cwd, n, "ok") EXCEPT
                        !.value = memory'[KeyOf(s[1])], !.warm = ~Cold(s, 1)])
    BY <1>4, <1>6, <2>2 DEF Ends, ReadOutcome, Outcome
  <2>3. CASE /\ Allows(f, n) /\ Stops(s, 0)
             /\ \E why \in WhyNot(s[1]) : Ends(ReadOutcome(cwd, n, why))
    <3>1. PICK why \in WhyNot(s[1]) : Ends(ReadOutcome(cwd, n, why))
      BY <2>3
    <3>2. last'.cmd = "read" /\ last'.root = p /\ last'.name = n /\ last'.value = Nothing
      BY <3>1 DEF Ends, ReadOutcome, Outcome
    <3>3. memory[k] = Nothing
      BY <1>6, <2>3 DEF Stops
    <3>4. QED
      BY <2>3, <3>2, <3>3
  <2>4. QED
    BY <1>1, <2>1, <2>2, <2>3
<1>10. TypeOK'
  <2>1. memory'[k] \in Value \cup {Nothing}
    BY <1>5, <1>8 DEF MemoryOK
  <2>2. last'.value \in Value \cup {Nothing}
    BY <1>9, <2>1
  <2>3. clean' \subseteq Git /\ given' \in [Git -> [Name -> Value \cup {Nothing}]]
    BY <1>1, <1>2 DEF TypeOK
  <2>4. QED
    BY <1>2, <1>7, <1>8, <2>2, <2>3, CommandTypes
<1>11. DoctorSaw'
  BY <1>1, <1>7, DoctorSawStays DEF IInv, world
<1>12. RunKept'
  BY <1>1, <1>7, <1>8, RunKeptStays DEF IInv, world
<1>13. WarmAfterRun'
  <2>1. CASE given[p][n] = Nothing
    BY <1>1, <1>9, <2>1 DEF WarmAfterRun
  <2>2. CASE given[p][n] # Nothing
    <3>1. Allows(f, n) /\ memory[k] = given[p][n]
      BY <1>3, <2>2 DEF IInv, RunKept, Kept
    <3>2. memory'[k] = memory[k]
      BY <1>5, <1>8, <2>2, <3>1
    <3>3. QED
      BY <1>1, <1>9, <2>2, <3>1, <3>2 DEF WarmAfterRun
  <2>3. QED
    BY <2>1, <2>2
<1>14. CleanDoctorRuns'
  BY <1>9 DEF CleanDoctorRuns
<1>15. QED
  BY <1>10, <1>11, <1>12, <1>13, <1>14 DEF IInv

\* Where doctor found nothing, a request is refused for its field or token only.
LEMMA RefusedAfterDoctor ==
    ASSUME NEW p \in Git, Passes(p), file[p] \in Files,
           NEW i \in 1..Len(file[p].items),
           NEW why \in WhyNot(RunRequests(file[p], p)[i])
    PROVE  why \in {"no field", "no token", "denied", "call failed"}
<1> DEFINE r == RunRequests(file[p], p)[i]
<1>1. Loads(file[p]) /\ op
  BY DEF Passes
<1>2. i \in DOMAIN file[p].items
  BY <1>1, Entries
<1>3. r.vault = file[p].vault /\ r.name = file[p].items[i].name
  BY <1>2 DEF RunRequests, Request
<1>4. Found(r.vault, r.name)
  BY <1>2, <1>3 DEF Passes
<1> HIDE DEF r
<1>5. Refusal(r) \in {"no token", "denied", "no field", "ok"}
  BY <1>1, <1>4 DEF Refusal
<1>6. QED
  BY <1>5 DEF WhyNot, r

\* And a reference to a key only because a call of op fails by itself.
LEMMA KeyAfterDoctor ==
    ASSUME NEW p \in Git, Passes(p), NEW x \in KeyFailures(file[p])
    PROVE  x.why = "call failed"
<1> DEFINE f == file[p]
           refs == {n \in DOMAIN f.keys :
                       \A j \in 1..(n - 1) : KeyRefusal(f.keys[j]) = "ok"}
           may(ref) == IF Slashes(ref) = {} THEN {} ELSE {"call failed"}
<1>1. f.keys # <<>> /\ agent
  BY DEF KeyFailures, Passes
<1>2. PICK i \in refs :
          x \in [why : ({KeyRefusal(f.keys[i])} \cup may(f.keys[i])) \ {"ok"},
                 ref : {f.keys[i]}, hints : Hints(f.keys[i])]
  BY <1>1 DEF KeyFailures
<1>3. KeyCheck(f.keys[i])
  BY <1>2 DEF Passes
<1>4. KeyRefusal(f.keys[i]) = "ok"
  BY <1>3 DEF KeyCheck, KeyRefusal
<1>5. x.why \in ({KeyRefusal(f.keys[i])} \cup may(f.keys[i])) \ {"ok"}
  BY <1>2
<1>6. QED
  BY <1>4, <1>5

LEMMA RunKeeps ==
    ASSUME IInv, NEW cwd \in DOMAIN Parent, Run(cwd)
    PROVE  IInv'
<1> DEFINE f == Context(cwd)
           p == Root(cwd)
           s == RunRequests(f, p)
           fails(n) == /\ Stops(s, n) /\ UNCHANGED given
                       /\ \E why \in WhyNot(s[n + 1]) : Ends(RunOutcome(cwd, why))
           keyFails == /\ UNCHANGED given
                       /\ \E x \in KeyFailures(f) :
                             Ends([RunOutcome(cwd, x.why) EXCEPT !.ref = x.ref,
                                                                 !.hints = x.hints])
           key(n) == [project |-> p, name |-> n, field |-> FieldFor(f, n)]
           gives == [n \in Name |-> IF Allows(f, n) /\ OneField(f, n)
                                    THEN memory'[key(n)] ELSE Nothing]
           runs == Ends(RunOutcome(cwd, "ok")) /\ given' = [given EXCEPT ![p] = gives]
<1>1. /\ f # Nothing /\ UNCHANGED clean
      /\ \/ \E n \in 0..(Len(s) - 1) : fails(n)
         \/ Answerable(s, Len(s)) /\ Sent(s, Len(s)) /\ (keyFails \/ runs)
  BY DEF Run
<1>2. TypeOK
  BY DEF IInv
<1>3. p \in Git /\ f = file[p] /\ f \in Files /\ Loads(f)
  BY <1>1, <1>2, ContextIs
<1>4. AskedFor(s, p, f) /\ Len(s) = Len(f.items) /\ Len(s) \in Nat
  BY <1>3, AllReads, Entries
<1>5. \A n \in Name : key(n) \in Key
  BY <1>3, FirstField DEF Key
<1>6. /\ MemoryOK'
      /\ \A c \in Key : memory[c] # Nothing => memory'[c] = memory[c]
  <2>1. ASSUME NEW n \in 0..(Len(s) - 1), fails(n)
        PROVE  /\ MemoryOK'
               /\ \A c \in Key : memory[c] # Nothing => memory'[c] = memory[c]
    <3> HIDE DEF s
    <3>1. n \in 0..Len(s) /\ Answerable(s, n) /\ Sent(s, n)
      BY <1>4, <2>1 DEF Stops
    <3>2. QED
      BY <1>2, <1>3, <1>4, <3>1, SentIs
  <2>2. CASE Answerable(s, Len(s)) /\ Sent(s, Len(s))
    <3> HIDE DEF s
    <3>1. Len(s) \in 0..Len(s)
      BY <1>4
    <3>2. QED
      BY <1>2, <1>3, <1>4, <2>2, <3>1, SentIs
  <2>3. QED
    BY <1>1, <2>1, <2>2
<1>7. UNCHANGED <<world, edits>>
  BY <1>1 DEF Ends
<1>8. last'.cmd = "run" /\ last'.value = Nothing /\ last'.root = p
  BY <1>1 DEF Ends, RunOutcome, Outcome
<1>9. UNCHANGED given \/ given' = [given EXCEPT ![p] = gives]
  BY <1>1
<1>10. TypeOK'
  <2>1. gives \in [Name -> Value \cup {Nothing}]
    BY <1>5, <1>6 DEF MemoryOK
  <2>2. given' \in [Git -> [Name -> Value \cup {Nothing}]]
    <3> HIDE DEF gives, p
    <3>1. QED
      BY <1>2, <1>3, <1>9, <2>1 DEF TypeOK
  <2>3. clean' \subseteq Git
    BY <1>1, <1>2 DEF TypeOK
  <2>4. QED
    BY <1>2, <1>6, <1>7, <1>8, <2>2, <2>3, CommandTypes
<1>11. DoctorSaw'
  BY <1>1, <1>7, DoctorSawStays DEF IInv, world
<1>12. RunKept'
  <2>1. CASE UNCHANGED given
    BY <1>2, <1>6, <1>7, <2>1, RunKeptStays DEF IInv, world
  <2>2. CASE given' = [given EXCEPT ![p] = gives]
    <3>1. ASSUME NEW q \in Git, NEW n \in Name, q # p PROVE Kept(q, n)'
      <4>1. given'[q][n] = given[q][n] /\ file'[q] = file[q]
        BY <1>2, <1>7, <2>2, <3>1 DEF TypeOK, world
      <4>2. QED
        BY <1>2, <1>6, <4>1, KeptStays DEF IInv
    <3>2. ASSUME NEW n \in Name, given'[p][n] # Nothing
          PROVE  /\ Loads(file'[p]) /\ Allows(file'[p], n)
                 /\ memory'[[project |-> p, name |-> n, field |-> FieldFor(file'[p], n)]]
                       = given'[p][n]
      <4>1. given'[p][n] = gives[n]
        BY <1>2, <1>3, <2>2 DEF TypeOK
      <4>2. Allows(f, n) /\ given'[p][n] = memory'[key(n)]
        BY <3>2, <4>1
      <4>3. QED
        BY <1>3, <1>7, <4>2 DEF world
    <3>3. ASSUME NEW q \in Git, NEW n \in Name, q = p PROVE Kept(q, n)'
      BY <3>2, <3>3 DEF Kept
    <3>4. QED
      BY <3>1, <3>3 DEF RunKept
  <2>3. QED
    BY <1>9, <2>1, <2>2
<1>13. CleanDoctorRuns'
  <2>1. SUFFICES ASSUME p \in clean
                 PROVE  last'.why \in {"ok", "no field", "no token", "denied", "call failed"}
    BY <1>1, <1>8 DEF CleanDoctorRuns
  <2>2. Passes(p)
    BY <2>1 DEF IInv, DoctorSaw
  <2>3. ASSUME NEW n \in 0..(Len(s) - 1), fails(n)
        PROVE  last'.why \in {"no field", "no token", "denied", "call failed"}
    <3>1. PICK why \in WhyNot(s[n + 1]) : Ends(RunOutcome(cwd, why))
      BY <2>3
    <3>2. last'.why = why
      BY <3>1 DEF Ends, RunOutcome, Outcome
    <3>3. n + 1 \in 1..Len(file[p].items)
      BY <1>3, <1>4
    <3>4. why \in WhyNot(RunRequests(file[p], p)[n + 1])
      BY <1>3, <3>1
    <3>5. QED
      BY <1>3, <2>2, <3>2, <3>3, <3>4, RefusedAfterDoctor
  <2>4. ASSUME keyFails PROVE last'.why = "call failed"
    <3>1. PICK x \in KeyFailures(f) :
              Ends([RunOutcome(cwd, x.why) EXCEPT !.ref = x.ref, !.hints = x.hints])
      BY <2>4
    <3>2. last'.why = x.why
      BY <3>1 DEF Ends, RunOutcome, Outcome
    <3>3. QED
      BY <1>3, <2>2, <3>1, <3>2, KeyAfterDoctor
  <2>5. ASSUME runs PROVE last'.why = "ok"
    BY <2>5 DEF Ends, RunOutcome, Outcome
  <2>6. QED
    BY <1>1, <2>3, <2>4, <2>5
<1>14. WarmAfterRun'
  BY <1>8 DEF WarmAfterRun
<1>15. QED
  BY <1>10, <1>11, <1>12, <1>13, <1>14 DEF IInv

LEMMA LockKeeps ==
    ASSUME IInv, NEW cwd \in DOMAIN Parent, Lock(cwd)
    PROVE  IInv'
<1> DEFINE p == Root(cwd)
<1>1. TypeOK /\ p \in Git
  BY ContextIs DEF IInv, Lock
<1>2. /\ memory' = [k \in Key |-> IF k.project = p THEN Nothing ELSE memory[k]]
      /\ given' = [given EXCEPT ![p] = [n \in Name |-> Nothing]]
      /\ daemon' = Spawned
      /\ UNCHANGED <<world, edits, clean>>
  BY DEF Lock, Forget, Ends
<1>3. Unjudged
  BY DEF Lock, Ends, Outcome, Unjudged
<1> HIDE DEF p
<1>4. given' \in [Git -> [Name -> Value \cup {Nothing}]]
  BY <1>1, <1>2 DEF TypeOK
<1>5. TypeOK'
  <2>1. MemoryOK'
    BY <1>1, <1>2, SpawnedType DEF MemoryOK, TypeOK
  <2>2. QED
    BY <1>1, <1>2, <1>3, <1>4, <2>1, CommandTypes DEF Unjudged, TypeOK
<1>6. DoctorSaw'
  BY <1>2, DoctorSawStays DEF IInv, world
<1>7. RunKept'
  <2>1. ASSUME NEW q \in Git, NEW n \in Name PROVE Kept(q, n)'
    <3>1. given'[q][n] = IF q = p THEN Nothing ELSE given[q][n]
      BY <1>1, <1>2 DEF TypeOK
    <3>2. ASSUME NEW k \in Key, k.project = q, given'[q][n] # Nothing
          PROVE  memory'[k] = memory[k]
      BY <1>2, <3>1, <3>2
    <3>3. file'[q] = file[q]
      BY <1>2 DEF world
    <3>4. QED
      BY <1>1, <3>1, <3>2, <3>3, KeptStays DEF IInv
  <2>2. QED
    BY <2>1 DEF RunKept
<1>8. QED
  BY <1>3, <1>5, <1>6, <1>7, Judged DEF IInv

LEMMA StatusKeeps ==
    ASSUME IInv, NEW cwd \in DOMAIN Parent, Status(cwd)
    PROVE  IInv'
<1>1. UNCHANGED <<world, edits, daemon, memory, clean, given>> /\ Unjudged
  BY DEF Status, Ends, Outcome, Unjudged
<1>2. TypeOK'
  BY <1>1, CommandTypes, MemoryStays DEF IInv, TypeOK, Unjudged
<1>3. DoctorSaw' /\ RunKept'
  BY <1>1, DoctorSawStays, RunKeptStays DEF IInv, world
<1>4. QED
  BY <1>1, <1>2, <1>3, Judged DEF IInv

LEMMA DoctorKeeps ==
    ASSUME IInv, NEW cwd \in DOMAIN Parent, Doctor(cwd)
    PROVE  IInv'
<1>1. UNCHANGED <<world, edits, daemon, memory, given>> /\ Unjudged
  <2>1. PICK why \in {"ok", "checks failed"} : Ends(Outcome("doctor", why))
    BY DEF Doctor
  <2>2. UNCHANGED <<daemon, memory, given>>
    BY DEF Doctor
  <2>3. QED
    BY <2>1, <2>2 DEF Ends, Outcome, Unjudged
<1>2. \/ clean' = clean
      \/ /\ clean' = clean \cup {Root(cwd)}
         /\ Root(cwd) \in Git /\ Passes(Root(cwd))
  <2>1. CASE AllChecksPass(cwd) /\ clean' = clean \cup {Root(cwd)}
    <3>1. Root(cwd) \in Git /\ Context(cwd) = file[Root(cwd)] /\ Loads(file[Root(cwd)])
      BY <2>1, ContextIs DEF IInv, AllChecksPass
    <3>2. Passes(Root(cwd))
      BY <2>1, <3>1 DEF AllChecksPass, Passes
    <3>3. QED
      BY <2>1, <3>1, <3>2
  <2>2. QED
    BY <2>1 DEF Doctor
<1>3. TypeOK'
  BY <1>1, <1>2, CommandTypes, MemoryStays DEF IInv, TypeOK, Unjudged
<1>4. RunKept'
  BY <1>1, RunKeptStays DEF IInv, world
<1>5. DoctorSaw'
  <2>1. ASSUME NEW p \in clean' PROVE Passes(p)'
    <3>1. Passes(p)
      BY <1>2 DEF IInv, DoctorSaw
    <3>2. QED
      BY <1>1, <3>1, PassesStays DEF world
  <2>2. QED
    BY <2>1 DEF DoctorSaw
<1>6. QED
  BY <1>1, <1>3, <1>4, <1>5, Judged DEF IInv

-----------------------------------------------------------------------------
(***************************************************************************)
(* What changes between the commands.                                      *)
(***************************************************************************)
LEMMA EditsCounted ==
    ASSUME TypeOK, edits < MaxEdits, edits' = edits + 1
    PROVE  edits' \in 0..MaxEdits
BY EditsAssumption DEF TypeOK

LEMMA TokenStoreKeeps ==
    ASSUME IInv, NEW v \in Vault, NEW t \in Token \cup {Empty}, TokenStore(v, t)
    PROVE  IInv'
<1>1. Unjudged /\ edits' \in 0..MaxEdits
  BY EditsCounted DEF IInv, TokenStore, Change, Outcome, Unjudged
<1>2. keychain' \in [Vault -> Token \cup {Nothing}]
  BY DEF IInv, TypeOK, TokenStore
<1>3. UNCHANGED <<file, held, shell, op, agent, daemon, memory, clean, given>>
  BY DEF TokenStore
<1>4. TypeOK'
  BY <1>1, <1>2, <1>3 DEF IInv, TypeOK, Unjudged
<1>5. DoctorSaw' /\ RunKept'
  BY <1>3, DoctorSawStays, RunKeptStays DEF IInv
<1>6. QED
  BY <1>1, <1>4, <1>5, Judged DEF IInv

LEMMA TokenDeleteKeeps ==
    ASSUME IInv, NEW v \in Vault, TokenDelete(v)
    PROVE  IInv'
<1>1. Unjudged /\ edits' \in 0..MaxEdits
  BY EditsCounted DEF IInv, TokenDelete, Change, Outcome, Unjudged
<1>2. keychain' \in [Vault -> Token \cup {Nothing}]
  BY DEF IInv, TypeOK, TokenDelete
<1>3. UNCHANGED <<file, held, shell, op, agent, daemon, memory, clean, given>>
  BY DEF TokenDelete
<1>4. TypeOK'
  BY <1>1, <1>2, <1>3 DEF IInv, TypeOK, Unjudged
<1>5. DoctorSaw' /\ RunKept'
  BY <1>3, DoctorSawStays, RunKeptStays DEF IInv
<1>6. QED
  BY <1>1, <1>4, <1>5, Judged DEF IInv

LEMMA EditKeeps ==
    ASSUME IInv, NEW p \in Git, NEW f \in Files, Edit(p, f)
    PROVE  IInv'
<1>1. Unjudged /\ edits' \in 0..MaxEdits
  BY EditsCounted DEF IInv, Edit, Change, Outcome, Unjudged
<1>2. /\ file' = [file EXCEPT ![p] = f] /\ clean' = clean \ {p}
      /\ given' = [given EXCEPT ![p] = [n \in Name |-> Nothing]]
      /\ UNCHANGED <<held, keychain, shell, op, agent, daemon, memory>>
  BY DEF Edit
<1>3. TypeOK'
  <2>1. file' \in [Git -> Files] /\ given' \in [Git -> [Name -> Value \cup {Nothing}]]
    BY <1>2 DEF IInv, TypeOK
  <2>2. QED
    BY <1>1, <1>2, <2>1 DEF IInv, TypeOK, Unjudged
<1>4. \A q \in Git : q # p => file'[q] = file[q] /\ given'[q] = given[q]
  BY <1>2 DEF IInv, TypeOK
<1>5. DoctorSaw'
  BY <1>2, <1>4, DoctorSawStays DEF IInv, TypeOK
<1>6. RunKept'
  <2>1. ASSUME NEW q \in Git, NEW n \in Name PROVE Kept(q, n)'
    <3>1. CASE q = p
      <4>1. given'[q][n] = Nothing
        BY <1>2, <3>1 DEF IInv, TypeOK
      <4>2. QED
        BY <4>1 DEF Kept
    <3>2. CASE q # p
      BY <1>2, <1>4, <3>2, KeptStays DEF IInv
    <3>3. QED
      BY <3>1, <3>2
  <2>2. QED
    BY <2>1 DEF RunKept
<1>7. QED
  BY <1>1, <1>3, <1>5, <1>6, Judged DEF IInv

\* Nothing of what doctor saw is taken to hold any longer.
LEMMA RearrangeKeeps ==
    ASSUME IInv, NEW v \in Vault, NEW i \in Item, Rearrange(v, i)
    PROVE  IInv'
<1>1. Unjudged /\ edits' \in 0..MaxEdits
  BY EditsCounted DEF IInv, Rearrange, Change, Outcome, Unjudged
<1>2. held' \in [Vault -> SUBSET Item]
  BY DEF IInv, TypeOK, Rearrange
<1>3. /\ UNCHANGED <<file, keychain, shell, op, agent, daemon, memory, given>>
      /\ clean' = {}
  BY DEF Rearrange
<1>4. TypeOK'
  BY <1>1, <1>2, <1>3 DEF IInv, TypeOK, Unjudged
<1>5. DoctorSaw' /\ RunKept'
  BY <1>3, RunKeptStays DEF IInv, DoctorSaw
<1>6. QED
  BY <1>1, <1>4, <1>5, Judged DEF IInv

LEMMA ExportKeeps ==
    ASSUME IInv, NEW x \in Variables, NEW t \in Token \cup {Nothing}, Export(x, t)
    PROVE  IInv'
<1>1. Unjudged /\ edits' \in 0..MaxEdits
  BY EditsCounted DEF IInv, Export, Change, Outcome, Unjudged
<1>2. shell' \in [Variables -> Token \cup {Nothing}]
  BY DEF IInv, TypeOK, Export
<1>3. UNCHANGED <<file, held, keychain, op, agent, daemon, memory, clean, given>>
  BY DEF Export
<1>4. TypeOK'
  BY <1>1, <1>2, <1>3 DEF IInv, TypeOK, Unjudged
<1>5. DoctorSaw' /\ RunKept'
  BY <1>3, DoctorSawStays, RunKeptStays DEF IInv
<1>6. QED
  BY <1>1, <1>4, <1>5, Judged DEF IInv

LEMMA ToolsKeep ==
    ASSUME IInv, Install \/ AgentComesOrGoes
    PROVE  IInv'
<1>1. Unjudged /\ edits' \in 0..MaxEdits
  BY EditsCounted DEF IInv, Install, AgentComesOrGoes, Change, Outcome, Unjudged
<1>2. /\ op' \in BOOLEAN /\ agent' \in BOOLEAN /\ clean' = {}
      /\ UNCHANGED <<file, held, keychain, shell, daemon, memory, given>>
  BY DEF IInv, TypeOK, Install, AgentComesOrGoes
<1>3. TypeOK'
  BY <1>1, <1>2 DEF IInv, TypeOK, Unjudged
<1>4. DoctorSaw' /\ RunKept'
  BY <1>2, RunKeptStays DEF IInv, DoctorSaw
<1>5. QED
  BY <1>1, <1>3, <1>4, Judged DEF IInv

LEMMA DaemonExitsKeeps ==
    ASSUME IInv, DaemonExits
    PROVE  IInv'
<1>1. Unjudged /\ UNCHANGED <<world, clean, edits>>
  BY DEF DaemonExits, Silence, Outcome, Unjudged
<1>2. /\ daemon' = Nothing /\ memory' = [k \in Key |-> Nothing]
      /\ given' = [p \in Git |-> [n \in Name |-> Nothing]]
  BY DEF DaemonExits
<1>3. MemoryOK'
  BY <1>2 DEF MemoryOK
<1>4. TypeOK'
  BY <1>1, <1>2, <1>3, CommandTypes DEF IInv, TypeOK, Unjudged
<1>5. DoctorSaw'
  BY <1>1, DoctorSawStays DEF IInv, world
<1>6. RunKept'
  BY <1>2 DEF RunKept, Kept
<1>7. QED
  BY <1>1, <1>4, <1>5, <1>6, Judged DEF IInv

LEMMA ExpireKeeps ==
    ASSUME IInv, NEW k \in Key, Expire(k)
    PROVE  IInv'
<1>1. Unjudged /\ UNCHANGED <<world, daemon, clean, edits>>
  BY DEF Expire, Silence, Outcome, Unjudged
<1>2. /\ memory' = [memory EXCEPT ![k] = Nothing]
      /\ given' = [given EXCEPT ![k.project][k.name] = Nothing]
      /\ k.project \in Git /\ k.name \in Name
  BY DEF Expire, Key
<1>3. TypeOK
  BY DEF IInv
<1>4. \A c \in Key : memory'[c] = IF c = k THEN Nothing ELSE memory[c]
  BY <1>2, <1>3 DEF TypeOK
<1>5. \A q \in Git, n \in Name :
          given'[q][n] = IF q = k.project /\ n = k.name THEN Nothing ELSE given[q][n]
  BY <1>2, <1>3 DEF TypeOK
<1>6. TypeOK'
  <2>1. MemoryOK'
    BY <1>1, <1>2, <1>3, <1>4 DEF MemoryOK, TypeOK
  <2>2. given' \in [Git -> [Name -> Value \cup {Nothing}]]
    BY <1>2, <1>3 DEF TypeOK
  <2>3. QED
    BY <1>1, <1>3, <2>1, <2>2, CommandTypes DEF TypeOK, Unjudged
<1>7. DoctorSaw'
  BY <1>1, DoctorSawStays DEF IInv, world
<1>8. RunKept'
  <2>1. ASSUME NEW q \in Git, NEW n \in Name PROVE Kept(q, n)'
    <3>1. file'[q] = file[q] /\ given'[q][n] \in {given[q][n], Nothing}
      BY <1>1, <1>5 DEF world
    <3>2. ASSUME NEW c \in Key, c.project = q, c.name = n, given'[q][n] # Nothing
          PROVE  memory'[c] = memory[c]
      BY <1>4, <1>5, <3>2
    <3>3. QED
      BY <1>3, <3>1, <3>2, KeptStays DEF IInv
  <2>2. QED
    BY <2>1 DEF RunKept
<1>9. QED
  BY <1>1, <1>6, <1>7, <1>8, Judged DEF IInv

\* What a run that has just succeeded gave its command.
GivesAll ==
    last.cmd = "run" /\ last.why = "ok" =>
        \A n \in Name : Allows(file[last.root], n) /\ OneField(file[last.root], n) =>
            given[last.root][n] # Nothing

LEMMA RunGives ==
    ASSUME IInv, NEW cwd \in DOMAIN Parent, Run(cwd)
    PROVE  GivesAll'
<1> DEFINE f == Context(cwd)
           p == Root(cwd)
           s == RunRequests(f, p)
           key(n) == [project |-> p, name |-> n, field |-> FieldFor(f, n)]
           gives == [n \in Name |-> IF Allows(f, n) /\ OneField(f, n)
                                    THEN memory'[key(n)] ELSE Nothing]
<1>1. TypeOK /\ f # Nothing
  BY DEF IInv, Run
<1>2. p \in Git /\ f = file[p] /\ f \in Files /\ Loads(f)
  BY <1>1, ContextIs
<1>3. AskedFor(s, p, f) /\ Len(s) = Len(f.items) /\ Len(s) \in Nat
  BY <1>2, AllReads, Entries
<1>4. ASSUME NEW n \in 0..(Len(s) - 1), NEW why \in WhyNot(s[n + 1]), Ends(RunOutcome(cwd, why))
      PROVE  last'.why # "ok"
  BY <1>4 DEF WhyNot, Ends, RunOutcome, Outcome
<1>5. ASSUME NEW x \in KeyFailures(f),
             Ends([RunOutcome(cwd, x.why) EXCEPT !.ref = x.ref, !.hints = x.hints])
      PROVE  last'.why # "ok"
  <2>1. x.why # "ok"
    <3>1. CASE f.keys = <<>> \/ ~agent
      BY <1>5, <3>1 DEF KeyFailures
    <3>2. CASE f.keys # <<>> /\ agent
      <4>1. PICK ref \in Range(f.keys), may \in {{}, {"call failed"}} :
                x \in [why : ({KeyRefusal(ref)} \cup may) \ {"ok"}, ref : {ref},
                       hints : Hints(ref)]
        BY <1>5, <3>2 DEF KeyFailures, Range
      <4>2. QED
        BY <4>1
    <3>3. QED
      BY <3>1, <3>2
  <2>2. last'.why = x.why
    BY <1>5 DEF Ends, RunOutcome, Outcome
  <2>3. QED
    BY <2>1, <2>2
<1>6. ASSUME Answerable(s, Len(s)), Sent(s, Len(s)), Ends(RunOutcome(cwd, "ok")),
             given' = [given EXCEPT ![p] = gives]
      PROVE  GivesAll'
  <2>1. last'.root = p /\ UNCHANGED file
    BY <1>6 DEF Ends, RunOutcome, Outcome, world
  <2>2. ASSUME NEW n \in Name, Allows(f, n), OneField(f, n) PROVE given'[p][n] # Nothing
    <3>1. PICK i \in 1..Len(s) : f.items[i].name = n /\ f.items[i].field = FieldFor(f, n)
      BY <1>2, <1>3, <2>2, FirstField
    <3>2. KeyOf(s[i]) = key(n)
      BY <1>2, <1>3, <3>1, Entries DEF RunRequests, Request, KeyOf
    <3>3. key(n) \in Key
      BY <1>2, FirstField DEF Key
    <3>4. memory'[key(n)] # Nothing
      <4> HIDE DEF s, key
      <4>1. Filled(s, Len(s))[KeyOf(s[i])] # Nothing
        BY <1>1, <1>2, <1>3, <1>6, FilledAll
      <4>2. QED
        BY <1>6, <3>2, <4>1 DEF Sent
    <3>5. given'[p][n] = memory'[key(n)]
      BY <1>1, <1>2, <1>6, <2>2 DEF TypeOK
    <3>6. QED
      BY <3>4, <3>5
  <2>3. QED
    BY <1>2, <2>1, <2>2 DEF GivesAll, Allows, ItemNames, OneField
<1>7. CASE last'.why # "ok"
  BY <1>7 DEF GivesAll
<1>8. QED
  BY <1>4, <1>5, <1>6, <1>7 DEF Run

LEMMA OthersGive ==
    ASSUME GivesAll, [Next]_vars, \A cwd \in DOMAIN Parent : ~Run(cwd)
    PROVE  GivesAll'
<1>1. CASE UNCHANGED vars
  BY <1>1 DEF vars, world, GivesAll, Allows, ItemNames, OneField
<1>2. CASE Next
  <2>1. ASSUME NEW cwd \in DOMAIN Parent, NEW n \in Name, Read(cwd, n)
        PROVE  last'.cmd = "read"
    BY <2>1 DEF Read, ReadOutcome, Ends, Outcome
  <2>2. ASSUME NEW cwd \in DOMAIN Parent, Lock(cwd) \/ Status(cwd) \/ Doctor(cwd)
        PROVE  last'.cmd # "run"
    <3>1. PICK c, why : c # "run" /\ Ends(Outcome(c, why))
      BY <2>2 DEF Lock, Status, Doctor
    <3>2. QED
      BY <3>1 DEF Ends, Outcome
  <2>3. ASSUME NEW cwd \in DOMAIN Parent, NEW c, NoProject(c, cwd)
        PROVE  last'.why # "ok"
    BY <2>3 DEF NoProject, Ends, Outcome
  <2>4. ASSUME NEW v \in Vault, TokenDelete(v) \/ \E t \in Token \cup {Empty} : TokenStore(v, t)
        PROVE  last'.cmd # "run"
    <3>1. PICK c, why : c # "run" /\ Change(c, why)
      BY <2>4 DEF TokenStore, TokenDelete
    <3>2. last'.cmd = c
      BY <3>1 DEF Change, Outcome
    <3>3. QED
      BY <3>1, <3>2
  <2>5. ASSUME \/ \E v \in Vault, i \in Item : Rearrange(v, i)
               \/ \E p \in Git, f \in Files : Edit(p, f)
               \/ \E x \in Variables, t \in Token \cup {Nothing} : Export(x, t)
               \/ Install \/ AgentComesOrGoes
        PROVE  last'.cmd # "run"
    BY <2>5 DEF Rearrange, Edit, Export, Install, AgentComesOrGoes, Change, Outcome
  <2>6. ASSUME DaemonExits \/ \E k \in Key : Expire(k)
        PROVE  last'.cmd # "run"
    <3>1. last' = Silence
      BY <2>6 DEF DaemonExits, Expire
    <3>2. QED
      BY <3>1 DEF Silence, Outcome
  <2>7. last'.cmd # "run" \/ last'.why # "ok"
    BY <1>2, <2>1, <2>2, <2>3, <2>4, <2>5, <2>6 DEF Next
  <2>8. QED
    BY <2>7 DEF GivesAll
<1>3. QED
  BY <1>1, <1>2

LEMMA NextKeeps == IInv /\ [Next]_vars => IInv'
<1> SUFFICES ASSUME IInv, [Next]_vars PROVE IInv'
  OBVIOUS
<1>1. ASSUME NEW cwd \in DOMAIN Parent,
             \/ \E n \in Name : Read(cwd, n)
             \/ Run(cwd) \/ Lock(cwd) \/ Status(cwd) \/ Doctor(cwd)
             \/ \E c \in {"read", "run", "lock", "status"} : NoProject(c, cwd)
      PROVE  IInv'
  BY <1>1, ReadKeeps, RunKeeps, LockKeeps, StatusKeeps, DoctorKeeps, NoProjectKeeps
<1>2. ASSUME NEW v \in Vault,
             \/ \E t \in Token \cup {Empty} : TokenStore(v, t)
             \/ TokenDelete(v)
             \/ \E i \in Item : Rearrange(v, i)
      PROVE  IInv'
  BY <1>2, TokenStoreKeeps, TokenDeleteKeeps, RearrangeKeeps
<1>3. ASSUME \/ \E p \in Git, f \in Files : Edit(p, f)
             \/ \E x \in Variables, t \in Token \cup {Nothing} : Export(x, t)
             \/ Install \/ AgentComesOrGoes \/ DaemonExits
             \/ \E k \in Key : Expire(k)
      PROVE  IInv'
  BY <1>3, EditKeeps, ExportKeeps, ToolsKeep, DaemonExitsKeeps, ExpireKeeps
<1>4. CASE UNCHANGED vars
  BY <1>4, PassesStays, RunKeptStays, MemoryStays, CommandTypes
     DEF vars, world, IInv, TypeOK, DoctorSaw, CleanDoctorRuns, WarmAfterRun
<1>5. QED
  BY <1>1, <1>2, <1>3, <1>4 DEF Next

LEMMA Invariant == Spec => []IInv
BY InitIInv, NextKeeps, PTL DEF Spec

LEMMA GivesInvariant == Spec => []GivesAll
<1>1. Init => GivesAll
  BY DEF Init, Silence, Outcome, GivesAll
<1>2. IInv /\ GivesAll /\ [Next]_vars => GivesAll'
  BY RunGives, OthersGive
<1>3. QED
  BY <1>1, <1>2, Invariant, PTL DEF Spec

-----------------------------------------------------------------------------
(***************************************************************************)
(* Did you mean: the hints of a failed run are a list that SuggestMatches  *)
(* may return for the vault's items, and such a list has what SuggestsBest *)
(* says, which speaks of edits and not of scores.  Of a title longer than  *)
(* 1000 characters this is false: the score of one with the query in it    *)
(* can be above that of one that is a few edits away.                      *)
(***************************************************************************)
ShortTitles == \A i \in Item : Len(i.title) <= 1000

Char == DOMAIN LowerOf

LowerChar == {LowerOf[c] : c \in Char}

LEMMA NameType ==
    ASSUME NEW ref \in Seq(Char), Slashes(ref) # {} PROVE NameOf(ref) \in Seq(Char)
<1> DEFINE T == {n \in 0..Len(ref) : Len(ref) - n \in Slashes(ref)}
<1>1. Len(ref) \in Nat /\ Slashes(ref) \subseteq 1..Len(ref)
  BY LenProperties DEF Slashes
<1>2. T # {} /\ T \in SUBSET Nat
  <2>1. PICK i \in Slashes(ref) : TRUE
    OBVIOUS
  <2>2. Len(ref) - i \in T
    BY <1>1
  <2>3. QED
    BY <1>1, <2>2
<1>3. PICK n \in T : \A m \in T : n <= m
  <2> HIDE DEF T
  <2>1. QED
    BY <1>2, LeastNat
<1>4. \A i \in Slashes(ref) : Len(ref) - n >= i
  <2>1. ASSUME NEW i \in Slashes(ref) PROVE Len(ref) - n >= i
    <3>1. Len(ref) - i \in T
      BY <1>1
    <3>2. n <= Len(ref) - i
      BY <1>3, <3>1
    <3>3. QED
      BY <1>1, <3>2
  <2>2. QED
    BY <2>1
<1>5. Max(Slashes(ref)) \in Slashes(ref)
  BY <1>3, <1>4 DEF Max
<1>6. QED
  <2> DEFINE k == Max(Slashes(ref))
  <2>1. k \in 0..Len(ref)
    BY <1>1, <1>5
  <2> HIDE DEF k
  <2>2. SubSeq(ref, k + 1, Len(ref)) \in Seq(Char)
    BY <2>1, SuffixIs
  <2>3. QED
    BY <2>2 DEF k, NameOf

FiniteVaults == \A v \in Vault : IsFiniteSet(held[v])

HintsListed ==
    last.hints # <<>> =>
        /\ NameOf(last.ref) \in Seq(Char)
        /\ VaultOf(last.ref) \in Vault
        /\ Listed(last.hints, Lower(NameOf(last.ref)), 3, held[VaultOf(last.ref)])

LEMMA ListedIsBest ==
    ASSUME ShortTitles, TypeOK, HintsListed
    PROVE  SuggestsBest
<1> DEFINE q == Lower(NameOf(last.ref))
           Title(i) == Lower(i.title)
           Near(i, n) == Title(i) \in Within(q, n, Range(Title(i)))
           half(i) == Longer(q, Title(i)) \div 2
           Fits(i) == Occurs(q, Title(i)) \/ Near(i, half(i))
           Better(i, j) == IF Occurs(q, Title(i))
                           THEN Occurs(q, Title(j)) => Len(Title(i)) < Len(Title(j))
                           ELSE ~Occurs(q, Title(j))
                                /\ \E n \in 0..half(j) : Near(i, n) /\ ~Near(j, n)
           s == last.hints
           H == held[VaultOf(last.ref)]
           score(i) == Score(q, Title(i))
<1>1. SUFFICES ASSUME s # <<>>
               PROVE  /\ Len(s) <= 3 /\ IsInjective(s)
                      /\ \A i \in DOMAIN s : s[i] \in H /\ Fits(s[i])
                      /\ \A i, j \in DOMAIN s : i < j => ~Better(s[j], s[i])
                      /\ \A c \in H \ Range(s) :
                            Fits(c) => Len(s) = 3 /\ \A i \in DOMAIN s : ~Better(c, s[i])
  BY DEF SuggestsBest
<1>2. /\ q \in Seq(LowerChar)
      /\ H \in SUBSET Item
      /\ Listed(s, q, 3, H)
  BY <1>1, LowerType DEF HintsListed, TypeOK, Char, LowerChar
<1>3. \A i \in Item : Title(i) \in Seq(LowerChar) /\ Len(Title(i)) <= 1000
  BY TitleAssumption, LowerType DEF ShortTitles, Char, LowerChar
<1> HIDE DEF q, Title
<1>4. ASSUME NEW i \in Item
      PROVE  /\ \A n \in Nat : Near(i, n) <=> Levenshtein(q, Title(i)) <= n
             /\ half(i) \in Nat
             /\ Fits(i) <=> IsCandidate(q, Title(i))
             /\ score(i) \in Int
  <2> DEFINE t == Title(i)
  <2>1. t \in Seq(LowerChar)
    BY <1>3
  <2>2. \A n \in Nat : Near(i, n) <=> Levenshtein(q, t) <= n
    <3> HIDE DEF t
    <3>1. \A n \in Nat : t \in Within(q, n, {t[j] : j \in DOMAIN t})
                            <=> Levenshtein(q, t) <= n
      BY <1>2, <2>1, LevenshteinIsDistance
    <3>2. QED
      BY <3>1 DEF t, Range
  <2>3. half(i) \in Nat
    <3>1. Len(q) \in Nat /\ Len(t) \in Nat
      BY <1>2, <2>1, LenProperties
    <3>2. Longer(q, t) \in Nat
      BY <3>1 DEF Longer
    <3>3. QED
      BY <3>2
  <2>4. Fits(i) <=> \/ Occurs(q, t)
                    \/ Levenshtein(q, t) <= Longer(q, t) \div 2
    <3> HIDE DEF Near
    <3>1. QED
      BY <2>2, <2>3
  <2>5. IsCandidate(q, t) <=> \/ Occurs(q, t)
                              \/ Levenshtein(q, t) <= Longer(q, t) \div 2
    BY <1>2, <2>1, CandidateIs
  <2>6. score(i) \in Int
    BY <1>2, <2>1, ScoreType
  <2>7. QED
    BY <2>2, <2>3, <2>4, <2>5, <2>6
<1>5. ASSUME NEW i \in Item, NEW j \in Item, Better(i, j) PROVE score(i) < score(j)
  <2> DEFINE t == Title(i)
             u == Title(j)
  <2>1. t \in Seq(LowerChar) /\ u \in Seq(LowerChar) /\ Len(t) <= 1000
    BY <1>3
  <2>2. ASSUME Occurs(q, t) PROVE Outranks(q, t, u)
    BY <1>5, <2>2 DEF Outranks
  <2>3. ASSUME ~Occurs(q, t) PROVE Outranks(q, t, u)
    <3>1. ~Occurs(q, u) /\ \E n \in 0..half(j) : Near(i, n) /\ ~Near(j, n)
      BY <1>5, <2>3
    <3>2. PICK n \in 0..half(j) : Near(i, n) /\ ~Near(j, n)
      BY <3>1
    <3>3. n \in Nat
      BY <1>4
    <3>4. Levenshtein(q, t) <= n /\ ~(Levenshtein(q, u) <= n)
      <4> HIDE DEF Near
      <4>1. QED
        BY <1>4, <3>2, <3>3
    <3>5. Levenshtein(q, t) \in Nat /\ Levenshtein(q, u) \in Nat
      BY <1>2, <2>1, LevenshteinType
    <3>6. Levenshtein(q, t) < Levenshtein(q, u)
      BY <3>3, <3>4, <3>5
    <3>7. QED
      BY <2>3, <3>1, <3>6 DEF Outranks
  <2>4. Outranks(q, t, u)
    BY <2>2, <2>3
  <2> HIDE DEF t, u
  <2>5. Score(q, t) < Score(q, u)
    BY <1>2, <2>1, <2>4, ScoresRank
  <2>6. QED
    BY <2>5 DEF t, u
<1>6. /\ Len(s) \in 0..3 /\ DOMAIN s = 1..Len(s)
      /\ \A i, j \in DOMAIN s : s[i] = s[j] => i = j
      /\ \A i \in DOMAIN s : s[i] \in H /\ IsCandidate(q, Title(s[i]))
      /\ \A i, j \in DOMAIN s : i < j => score(s[i]) <= score(s[j])
      /\ \A c \in H : IsCandidate(q, Title(c)) /\ (\A i \in DOMAIN s : s[i] # c) =>
            Len(s) = 3 /\ \A i \in DOMAIN s : score(s[i]) <= score(c)
  BY <1>2 DEF Listed, Title
<1> HIDE DEF Fits, Better, score, H, s
<1>7. \A i \in H : i \in Item
  BY <1>2
<1>8. ASSUME NEW i \in H, NEW j \in H, score(i) <= score(j) PROVE ~Better(j, i)
  <2>1. i \in Item /\ j \in Item
    BY <1>7
  <2>2. score(i) \in Int /\ score(j) \in Int
    BY <1>4, <2>1
  <2>3. ~(score(j) < score(i))
    BY <1>8, <2>2
  <2>4. QED
    BY <1>5, <2>1, <2>3
<1>9. Len(s) <= 3 /\ IsInjective(s)
  BY <1>6 DEF IsInjective
<1>10. \A i \in DOMAIN s : s[i] \in H /\ Fits(s[i])
  BY <1>4, <1>6, <1>7
<1>11. \A i, j \in DOMAIN s : i < j => ~Better(s[j], s[i])
  BY <1>6, <1>8
<1>12. ASSUME NEW c \in H \ Range(s), Fits(c)
       PROVE  Len(s) = 3 /\ \A i \in DOMAIN s : ~Better(c, s[i])
  <2>1. \A i \in DOMAIN s : s[i] # c
    BY DEF Range
  <2>2. IsCandidate(q, Title(c))
    BY <1>4, <1>7, <1>12
  <2>3. QED
    BY <1>6, <1>8, <2>1, <2>2
<1>13. QED
  BY <1>9, <1>10, <1>11, <1>12

\* The list of a failing run, whichever of its references it fails at.
LEMMA RunHints ==
    ASSUME TypeOK, FiniteVaults, NEW cwd \in DOMAIN Parent, Run(cwd)
    PROVE  HintsListed'
<1> DEFINE f == Context(cwd)
           s == RunRequests(f, Root(cwd))
<1>1. f \in Files /\ f # Nothing /\ f.keys \in Seq(Seq(Char))
  <2>1. f # Nothing
    BY DEF Run
  <2>2. f \in Files
    BY <2>1, ContextIs
  <2> HIDE DEF f
  <2>3. QED
    BY <2>1, <2>2, FilesAssumption DEF Char
<1>2. ASSUME NEW why, Ends(RunOutcome(cwd, why)) PROVE HintsListed'
  BY <1>2 DEF Ends, RunOutcome, Outcome, HintsListed
<1>3. ASSUME NEW x \in KeyFailures(f),
             Ends([RunOutcome(cwd, x.why) EXCEPT !.ref = x.ref, !.hints = x.hints])
      PROVE  HintsListed'
  <2>1. last'.ref = x.ref /\ last'.hints = x.hints /\ UNCHANGED held
    BY <1>3 DEF Ends, RunOutcome, Outcome, world
  <2>2. CASE x.hints = <<>>
    BY <2>1, <2>2 DEF HintsListed
  <2>3. CASE x.hints # <<>>
    <3>1. PICK ref \in Range(f.keys) : x.ref = ref /\ x.hints \in Hints(ref)
      <4>1. f.keys # <<>> /\ agent
        BY <1>3, <2>3 DEF KeyFailures
      <4>2. PICK ref \in Range(f.keys), may \in {{}, {"call failed"}} :
                x \in [why : ({KeyRefusal(ref)} \cup may) \ {"ok"}, ref : {ref},
                       hints : Hints(ref)]
        BY <1>3, <4>1 DEF KeyFailures, Range
      <4>3. QED
        BY <4>2
    <3>2. ref \in Seq(Char)
      <4> HIDE DEF f
      <4>1. QED
        BY <1>1, <3>1, LenProperties, ElementOfSeq DEF Range
    <3> DEFINE v == VaultOf(ref)
    <3>3. /\ Slashes(ref) # {} /\ v \in Vault
          /\ x.hints \in SuggestMatches(NameOf(ref), held[v], 3)
      BY <2>3, <3>1 DEF Hints
    <3>4. /\ IsFiniteSet(held[v])
          /\ \A i \in held[v] : i.title \in Seq(Char)
      BY <3>3, TitleAssumption DEF FiniteVaults, TypeOK, Char
    <3>5. NameOf(ref) \in Seq(Char)
      BY <3>2, <3>3, NameType
    <3>6. Listed(x.hints, Lower(NameOf(ref)), 3, held[v])
      <4> DEFINE query == NameOf(ref)
                 H == held[v]
                 h == x.hints
      <4> HIDE DEF query, H, h
      <4>1. QED
        BY <3>3, <3>4, <3>5, SuggestsListed DEF Char, query, H, h
    <3>7. QED
      BY <2>1, <3>1, <3>3, <3>5, <3>6 DEF HintsListed
  <2>4. QED
    BY <2>2, <2>3
<1>4. QED
  BY <1>2, <1>3 DEF Run

LEMMA OthersHint ==
    ASSUME HintsListed, [Next]_vars, \A cwd \in DOMAIN Parent : ~Run(cwd)
    PROVE  HintsListed'
<1>1. CASE UNCHANGED vars
  BY <1>1 DEF vars, world, HintsListed
<1>2. CASE Next
  <2>1. ASSUME NEW cwd \in DOMAIN Parent, NEW n \in Name, Read(cwd, n)
        PROVE  last'.hints = <<>>
    BY <2>1 DEF Read, ReadOutcome, Ends, Outcome
  <2>2. ASSUME \E c, why : Ends(Outcome(c, why)) \/ Change(c, why)
        PROVE  last'.hints = <<>>
    BY <2>2 DEF Ends, Change, Outcome
  <2>3. ASSUME NEW cwd \in DOMAIN Parent,
               \/ Lock(cwd) \/ Status(cwd) \/ Doctor(cwd)
               \/ \E c \in {"read", "run", "lock", "status"} : NoProject(c, cwd)
        PROVE  \E c, why : Ends(Outcome(c, why))
    BY <2>3 DEF Lock, Status, Doctor, NoProject
  <2>4. ASSUME NEW v \in Vault, TokenDelete(v) \/ \E t \in Token \cup {Empty} : TokenStore(v, t)
        PROVE  \E c, why : Change(c, why)
    BY <2>4 DEF TokenStore, TokenDelete
  <2>5. ASSUME \/ \E v \in Vault, i \in Item : Rearrange(v, i)
               \/ \E p \in Git, f \in Files : Edit(p, f)
               \/ \E x \in Variables, t \in Token \cup {Nothing} : Export(x, t)
               \/ Install \/ AgentComesOrGoes
        PROVE  \E c, why : Change(c, why)
    BY <2>5 DEF Rearrange, Edit, Export, Install, AgentComesOrGoes
  <2>6. ASSUME DaemonExits \/ \E k \in Key : Expire(k)
        PROVE  last'.hints = <<>>
    <3>1. last' = Silence
      BY <2>6 DEF DaemonExits, Expire
    <3>2. QED
      BY <3>1 DEF Silence, Outcome
  <2>7. last'.hints = <<>>
    BY <1>2, <2>1, <2>2, <2>3, <2>4, <2>5, <2>6 DEF Next
  <2>8. QED
    BY <2>7 DEF HintsListed
<1>3. QED
  BY <1>1, <1>2

\* Items come and go one by one.
LEMMA VaultsStayFinite ==
    ASSUME TypeOK, FiniteVaults, [Next]_vars
    PROVE  FiniteVaults'
<1>1. ASSUME NEW v \in Vault, NEW i \in Item, Rearrange(v, i) PROVE FiniteVaults'
  <2>1. held' = [held EXCEPT ![v] = IF i \in held[v] THEN held[v] \ {i} ELSE held[v] \cup {i}]
    BY <1>1 DEF Rearrange
  <2>2. IsFiniteSet(held[v] \ {i}) /\ IsFiniteSet(held[v] \cup {i})
    BY FS_AddElement, FS_RemoveElement DEF FiniteVaults
  <2>3. QED
    BY <2>1, <2>2 DEF FiniteVaults, TypeOK
<1>2. CASE UNCHANGED held
  BY <1>2 DEF FiniteVaults
<1>3. ASSUME NEW cwd \in DOMAIN Parent,
             \/ \E n \in Name : Read(cwd, n)
             \/ Run(cwd) \/ Lock(cwd) \/ Status(cwd) \/ Doctor(cwd)
             \/ \E c \in {"read", "run", "lock", "status"} : NoProject(c, cwd)
      PROVE  UNCHANGED held
  BY <1>3 DEF Read, Run, Lock, Status, Doctor, NoProject, Ends, world
<1>4. ASSUME \/ \E v \in Vault : TokenDelete(v) \/ \E t \in Token \cup {Empty} : TokenStore(v, t)
             \/ \E p \in Git, f \in Files : Edit(p, f)
             \/ \E x \in Variables, t \in Token \cup {Nothing} : Export(x, t)
             \/ Install \/ AgentComesOrGoes \/ DaemonExits
             \/ \E k \in Key : Expire(k)
      PROVE  UNCHANGED held
  BY <1>4 DEF TokenDelete, TokenStore, Edit, Export, Install, AgentComesOrGoes,
     DaemonExits, Expire, world
<1>5. CASE UNCHANGED vars
  BY <1>2, <1>5 DEF vars, world
<1>6. QED
  BY <1>1, <1>2, <1>3, <1>4, <1>5 DEF Next

LEMMA HintsInvariant == Spec => [](FiniteVaults /\ HintsListed)
<1>1. Init => FiniteVaults /\ HintsListed
  BY HeldAssumption DEF Init, Silence, Outcome, FiniteVaults, HintsListed
<1>2. TypeOK /\ FiniteVaults /\ HintsListed /\ [Next]_vars => (FiniteVaults /\ HintsListed)'
  BY RunHints, OthersHint, VaultsStayFinite
<1>3. IInv => TypeOK
  BY DEF IInv
<1>4. QED
  BY <1>1, <1>2, <1>3, Invariant, PTL DEF Spec

-----------------------------------------------------------------------------
(***************************************************************************)
(* What holds of every sequence of commands.                               *)
(***************************************************************************)
\* Every reachable state is well typed, and a daemon that does not run has no
\* secrets: of every tree, every configuration and every content of 1Password.
THEOREM TypeCorrect == Spec => []TypeOK
BY Invariant, PTL DEF IInv

\* What doctor finds nothing wrong with cannot fail a run in any way that
\* doctor looks at, however many commands of whatever projects come between.
THEOREM DoctorSaves == Spec => []CleanDoctorRuns
BY Invariant, PTL DEF IInv

\* What run gave its command, read prints, from the same entry of the cache,
\* for as long as the entry lives: both build one key from one configuration.
THEOREM ReadAgreesWithRun == Spec => []WarmAfterRun
BY Invariant, PTL DEF IInv

\* And run has given its command every item of the file that has one field, so
\* that the promise above is not an empty one.
THEOREM RunGivesAll == Spec => []GivesAll
BY GivesInvariant

\* The hints of a failed run are its vault's best matches, at most three, in
\* order: what the titles' distances say, for every vault, every reference and
\* every alphabet, if no title is longer than 1000 characters.
THEOREM HintsAreBest == ASSUME ShortTitles PROVE Spec => []SuggestsBest
<1>1. TypeOK /\ HintsListed => SuggestsBest
  BY ListedIsBest
<1>2. IInv => TypeOK
  BY DEF IInv
<1>3. QED
  BY <1>1, <1>2, Invariant, HintsInvariant, PTL
=============================================================================
