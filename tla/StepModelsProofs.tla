-------------------------- MODULE StepModelsProofs --------------------------
(***************************************************************************)
(* The catalog and the steps that can be given a model, for any workflow   *)
(* files, and the runtime file, for any models and selections.  Most of it *)
(* is about the operators: where the catalog and the resolver look at the  *)
(* same entries they look through the same layers, a workflow is in the    *)
(* category of the last node that has it, and of the steps with one key    *)
(* one is asked for.  The invariants add that the dialogs have asked for   *)
(* the steps before the open one, and that a target names a profile of the *)
(* model that was chosen, in the file and in what a window is to write.    *)
(***************************************************************************)
EXTENDS StepModels, Integers, WellFoundedInduction, SequenceTheorems, TLAPS

-----------------------------------------------------------------------------
(* Ends                                                                    *)

\* Every set of naturals that is not empty has a least element.
LEMMA LeastNatural ==
  ASSUME NEW T \in SUBSET Nat, T # {}
  PROVE  \E n \in T : \A m \in T : n <= m
<1> DEFINE Below == {ss \in Nat \X Nat : ss[1] < ss[2]}
<1>1. IsWellFoundedOn(Below, Nat)
  BY NatLessThanWellFounded DEF OpToRel
<1>2. PICK n \in T : \A m \in T : ~(<<m, n>> \in Below)
  BY <1>1, WFMin
<1>3. ASSUME NEW m \in T PROVE n <= m
  <2>1. m \in Nat /\ n \in Nat
    OBVIOUS
  <2>2. ~(m < n)
    BY <1>2, <2>1
  <2>3. QED
    BY <2>1, <2>2
<1>4. QED
  BY <1>3

\* A bounded one has a greatest element, which Max chooses.
LEMMA GreatestNatural ==
  ASSUME NEW T \in SUBSET Nat, T # {}, NEW b \in Nat, \A m \in T : m <= b
  PROVE  Max(T) \in T /\ \A m \in T : m <= Max(T)
<1> DEFINE U == {b - m : m \in T}
<1>1. U \in SUBSET Nat /\ U # {}
  OBVIOUS
<1> HIDE DEF U
<1>2. PICK u \in U : \A v \in U : u <= v
  BY <1>1, LeastNatural
<1>3. PICK n \in T : u = b - n
  BY DEF U
<1>4. ASSUME NEW m \in T PROVE n >= m
  <2>1. u <= b - m
    BY <1>2 DEF U
  <2>2. n \in Nat /\ m \in Nat
    OBVIOUS
  <2>3. QED
    BY <1>3, <2>1, <2>2
<1>5. Max(T) \in T /\ \A m \in T : Max(T) >= m
  BY <1>4 DEF Max
<1>6. QED
  BY <1>5

\* And Min chooses the least.
LEMMA LeastChosen ==
  ASSUME NEW T \in SUBSET Nat, T # {}
  PROVE  Min(T) \in T
<1>1. PICK n \in T : \A m \in T : n <= m
  BY LeastNatural
<1>2. QED
  BY <1>1 DEF Min

\* Some spots have an earliest one.
LEMMA EarliestIsThere ==
  ASSUME NEW S \in SUBSET (Nat \X Nat), S # {}
  PROVE  Earliest(S) \in S /\ \A t \in S : ~Sooner(t, Earliest(S))
<1> DEFINE T == {s[1] : s \in S}
<1>1. T \in SUBSET Nat /\ T # {}
  OBVIOUS
<1> HIDE DEF T
<1>2. PICK i \in T : \A k \in T : i <= k
  BY <1>1, LeastNatural
<1> DEFINE U == {s[2] : s \in {t \in S : t[1] = i}}
<1>3. U \in SUBSET Nat /\ U # {}
  BY DEF T
<1> HIDE DEF U
<1>4. PICK j \in U : \A k \in U : j <= k
  BY <1>3, LeastNatural
<1>5. PICK s \in S : s[1] = i /\ s[2] = j
  BY DEF U
<1>6. ASSUME NEW t \in S PROVE ~Sooner(t, s)
  <2>1. i <= t[1] /\ (t[1] = i => j <= t[2])
    BY <1>2, <1>4 DEF T, U
  <2>2. t[1] \in Nat /\ t[2] \in Nat /\ i \in Nat /\ j \in Nat
    BY <1>1, <1>3
  <2>3. QED
    BY <1>5, <2>1, <2>2 DEF Sooner
<1>7. QED
  BY <1>6 DEF Earliest

\* And a latest one, if there are finitely many.
LEMMA LatestIsThere ==
  ASSUME NEW S \in SUBSET (Nat \X Nat), S # {},
         NEW b \in Nat, \A s \in S : s[1] <= b,
         \A i \in Nat : \E c \in Nat : \A s \in S : s[1] = i => s[2] <= c
  PROVE  Latest(S) \in S
<1> DEFINE T == {s[1] : s \in S}
<1>1. T \in SUBSET Nat /\ T # {} /\ \A k \in T : k <= b
  OBVIOUS
<1> HIDE DEF T
<1>2. PICK i \in T : \A k \in T : k <= i
  BY <1>1, GreatestNatural
<1> DEFINE U == {s[2] : s \in {t \in S : t[1] = i}}
<1>3. PICK c \in Nat : \A k \in U : k <= c
  <2>1. i \in Nat
    BY <1>1
  <2>2. QED
    BY <2>1
<1>4. U \in SUBSET Nat /\ U # {}
  BY DEF T
<1> HIDE DEF U
<1>5. PICK j \in U : \A k \in U : k <= j
  BY <1>3, <1>4, GreatestNatural
<1>6. PICK s \in S : s[1] = i /\ s[2] = j
  BY DEF U
<1>7. ASSUME NEW t \in S PROVE ~Sooner(s, t)
  <2>1. t[1] <= i /\ (t[1] = i => t[2] <= j)
    BY <1>2, <1>5 DEF T, U
  <2>2. t[1] \in Nat /\ t[2] \in Nat /\ i \in Nat /\ j \in Nat
    BY <1>1, <1>4
  <2>3. QED
    BY <1>6, <2>1, <2>2 DEF Sooner
<1>8. QED
  BY <1>7 DEF Latest

-----------------------------------------------------------------------------
(* The catalog                                                             *)

\* A name is found in the first layer that has an entry for its id.
LEMMA ResolvedIsFound ==
  ASSUME NEW d, NEW rooted, NEW name, Resolve(d, rooted, name) # NoLayer
  PROVE  /\ Resolve(d, rooted, name) \in Layers
         /\ FoundAt(d.files[Resolve(d, rooted, name)], IdOf[name]) # {}
  BY DEF Resolve, Layers, NoLayer

\* Where an id has one entry, which is a file with an extension in small letters, both
\* lookups find it.
LEMMA LookupsMeet ==
  ASSUME NEW files \in Seq(WorkflowFiles), NEW id,
         NEW at, at = {i \in DOMAIN files : files[i].id = id},
         \A i \in at : files[i].kind = "file" /\ files[i].ext # "YAML",
         \A i, j \in at : i = j
  PROVE  ListedAt(files, id) = FoundAt(files, id)
<1> DEFINE At(ext) == {i \in DOMAIN files : files[i].id = id /\ files[i].ext = ext}
<1>1. \A i \in DOMAIN files : files[i].ext \in {"yaml", "yml", "YAML"}
  <2>1. \A i \in DOMAIN files : files[i] \in WorkflowFiles
    OBVIOUS
  <2>2. \A f \in WorkflowFiles : f.ext \in {"yaml", "yml", "YAML"}
    BY DEF WorkflowFiles, Extensions
  <2>3. QED
    BY <2>1, <2>2
<1>2. at = At("yaml") \cup At("yml")
  BY <1>1
<1>3. ListedAt(files, id) = at
  BY DEF ListedAt
<1>4. FoundAt(files, id) = IF At("yaml") # {} THEN At("yaml") ELSE At("yml")
  BY DEF FoundAt
<1> HIDE DEF At
<1>5. FoundAt(files, id) = at
  BY <1>2, <1>4
<1>6. QED
  BY <1>3, <1>5

\* The ids a layer offers, layer by layer.
LEMMA OfferedBy ==
  ASSUME NEW d, NEW rooted, NEW id \in Ids
  PROVE  /\ id \in Offered(d, rooted, "project") <=> ListedAt(d.files["project"], id) # {}
         /\ id \in Offered(d, rooted, "user") <=> ListedAt(d.files["user"], id) # {}
         /\ id \in Offered(d, rooted, "builtin") <=>
              d.enabled /\ rooted /\ ListedAt(d.files["builtin"], id) # {} /\ id \notin d.disabled
<1>1. ListedAt(<<>>, id) = {}
  BY DEF ListedAt
<1>2. QED
  BY <1>1 DEF Offered, FilesOf

\* The catalog and the resolver agree on every disk about the ordinary ids.
LEMMA CatalogAlwaysResolves ==
  ASSUME IsDisk(disk)
  PROVE  CatalogResolves
<1> SUFFICES ASSUME NEW id \in Ids, Ordinary(id)
             PROVE  LET found == Resolve(disk, Rooted, id) # NoLayer
                    IN  /\ id \in Listed(disk, Rooted) <=> found /\ Standalone(Called(disk, Rooted, id))
                        /\ id \in DOMAIN Effective(disk, Rooted) =>
                             /\ Effective(disk, Rooted)[id] = Resolve(disk, Rooted, id)
                             /\ EffectiveFile(disk, Rooted, id) = Called(disk, Rooted, id)
  BY DEF CatalogResolves
<1> DEFINE In == {l \in Layers : id \in Offered(disk, Rooted, l)}
<1>1. \A l \in Layers : ListedAt(disk.files[l], id) = FoundAt(disk.files[l], id)
  <2>1. ASSUME NEW l \in Layers PROVE ListedAt(disk.files[l], id) = FoundAt(disk.files[l], id)
    <3> DEFINE files == disk.files[l]
               at == {i \in DOMAIN files : files[i].id = id}
    <3>1. files \in Seq(WorkflowFiles)
      BY DEF IsDisk
    <3>2. (\A i \in at : files[i].kind = "file" /\ files[i].ext # "YAML") /\ \A i, j \in at : i = j
      BY DEF Ordinary
    <3> HIDE DEF files
    <3>3. QED
      BY <3>1, <3>2, LookupsMeet DEF files
  <2>2. QED
    BY <2>1
<1>2. IdOf[id] = id /\ id # NoId
  BY NamesAssumption DEF Ordinary
<1>3. Resolve(disk, Rooted, id) = FirstLayer(In) /\ (In # {} <=> FirstLayer(In) # NoLayer)
  BY <1>1, <1>2, OfferedBy DEF Resolve, FirstLayer, Layers, NoLayer
<1>4. id \in DOMAIN Effective(disk, Rooted) <=> In # {}
  BY DEF Effective
<1>5. id \in DOMAIN Effective(disk, Rooted) => Effective(disk, Rooted)[id] = FirstLayer(In)
  BY DEF Effective
<1> HIDE DEF In
<1>6. ASSUME id \in DOMAIN Effective(disk, Rooted)
      PROVE  /\ Effective(disk, Rooted)[id] = Resolve(disk, Rooted, id)
             /\ EffectiveFile(disk, Rooted, id) = Called(disk, Rooted, id)
  <2>1. Resolve(disk, Rooted, id) # NoLayer
    BY <1>3, <1>4, <1>6
  <2>2. Resolve(disk, Rooted, id) \in Layers
    BY <2>1, ResolvedIsFound
  <2>3. QED
    BY <1>1, <1>2, <1>3, <1>5, <1>6, <2>2 DEF EffectiveFile, Called
<1>7. QED
  BY <1>3, <1>4, <1>6 DEF Listed

\* The nodes of the categories are a list.
LEMMA NodesAreListed ==
  ASSUME NEW d, IsDisk(d), NEW rooted
  PROVE  \E n \in Nat : DOMAIN Nodes(d, rooted) = 1..n
<1> DEFINE Node == [path: Seq(STRING), workflows: SUBSET Ids]
           own == Overlay(d.own).nodes
           shipped == Shipped(d, rooted).nodes
           below == [i \in DOMAIN shipped |-> [shipped[i] EXCEPT !.path = <<"builtin">> \o @]]
<1>1. own \in Seq(Node) /\ shipped \in Seq(Node)
  <2>1. NoOverlay.nodes \in Seq(Node)
    BY DEF NoOverlay
  <2>2. d.own.nodes \in Seq(Node) /\ d.shipped.nodes \in Seq(Node)
    BY DEF IsDisk, CategoryFiles
  <2>3. QED
    BY <2>1, <2>2 DEF Shipped, Overlay
<1>2. Nodes(d, rooted) = IF own = <<>> THEN shipped ELSE own \o below
  BY DEF Nodes
<1> HIDE DEF own, shipped
<1>3. CASE own = <<>>
  BY <1>1, <1>2, <1>3
<1>4. CASE own # <<>>
  <2> DEFINE AnyNode == Node \cup {below[i] : i \in 1..Len(shipped)}
  <2>1. Len(own) \in Nat /\ Len(shipped) \in Nat /\ DOMAIN shipped = 1..Len(shipped)
    BY <1>1
  <2>2. /\ \A i \in 1..Len(own) : own[i] \in AnyNode
        /\ \A i \in 1..Len(shipped) : below[i] \in AnyNode
    <3> HIDE DEF below, Node
    <3>1. \A i \in 1..Len(own) : own[i] \in Node
      BY <1>1
    <3>2. QED
      BY <3>1
  <2>3. own = [i \in 1..Len(own) |-> own[i]] /\ below = [i \in 1..Len(shipped) |-> below[i]]
    BY <1>1, <2>1
  <2> HIDE DEF AnyNode, below
  <2>4. own \in Seq(AnyNode)
    BY <2>1, <2>2, <2>3
  <2>5. below \in Seq(AnyNode)
    BY <2>1, <2>2, <2>3
  <2>6. own \o below \in Seq(AnyNode)
    BY <2>4, <2>5
  <2>7. QED
    BY <1>2, <1>4, <2>6
<1>5. QED
  BY <1>3, <1>4

\* The category an entry names is one that lists it.
LEMMA CategoriesAlwaysAgree ==
  ASSUME IsDisk(disk)
  PROVE  CategoriesAgree
<1> SUFFICES ASSUME NEW id \in Listed(disk, Rooted), ShowOthers(disk, Rooted)
             PROVE  <<CategoryOf(disk, Rooted, id), id>> \in Categories(disk, Rooted)
  BY DEF CategoriesAgree
<1> DEFINE nodes == Nodes(disk, Rooted)
           at == {i \in DOMAIN nodes : id \in nodes[i].workflows}
<1>1. \A pair \in Tree(disk, Rooted) :
        \E i \in DOMAIN nodes : pair[1] = nodes[i].path /\ pair[2] \in nodes[i].workflows
  BY DEF Tree
<1>2. \A i \in at : <<nodes[i].path, id>> \in Tree(disk, Rooted)
  BY DEF Tree
<1>3. CASE at = {}
  <2>1. CategoryOf(disk, Rooted, id) = Others
    BY <1>3 DEF CategoryOf
  <2>2. id \in Uncategorized(disk, Rooted)
    BY <1>1, <1>3 DEF Uncategorized
  <2>3. QED
    BY <2>1, <2>2 DEF Categories
<1>4. CASE at # {}
  <2>1. PICK n \in Nat : DOMAIN nodes = 1..n
    BY NodesAreListed
  <2>2. at \in SUBSET Nat /\ \A i \in at : i <= n
    BY <2>1
  <2>3. CategoryOf(disk, Rooted, id) = nodes[Max(at)].path
    BY <1>4 DEF CategoryOf
  <2> HIDE DEF at, nodes
  <2>4. Max(at) \in at
    BY <1>4, <2>2, GreatestNatural
  <2>5. QED
    BY <1>2, <2>3, <2>4 DEF Categories
<1>5. QED
  BY <1>3, <1>4

-----------------------------------------------------------------------------
(* The steps of a workflow                                                 *)

\* The file a spot is in, and the step that is there.
FileAt(d, rooted, file, s) ==
  IF s[2] = 0 THEN file ELSE Called(d, rooted, file.steps[s[1]].call)
StepFound(d, rooted, file, s) ==
  IF s[2] = 0 THEN file.steps[s[1]] ELSE FileAt(d, rooted, file, s).steps[s[2]]

\* What is found on a disk is a workflow file.
LEMMA CalledIsAFile ==
  ASSUME NEW d, IsDisk(d), NEW rooted, NEW name, Resolve(d, rooted, name) # NoLayer
  PROVE  Called(d, rooted, name) \in WorkflowFiles
<1> DEFINE files == d.files[Resolve(d, rooted, name)]
           at == FoundAt(files, IdOf[name])
<1>1. files \in Seq(WorkflowFiles) /\ at # {}
  BY ResolvedIsFound DEF IsDisk
<1>2. at \subseteq DOMAIN files
  BY DEF FoundAt
<1>3. Called(d, rooted, name) = files[Min(at)]
  BY DEF Called
<1> HIDE DEF files, at
<1>4. DOMAIN files \subseteq Nat /\ \A i \in DOMAIN files : files[i] \in WorkflowFiles
  BY <1>1
<1>5. Min(at) \in at
  BY <1>1, <1>2, <1>4, LeastChosen
<1>6. QED
  BY <1>2, <1>3, <1>4, <1>5

\* The steps of a file are a list of steps.
LEMMA StepsAreListed ==
  ASSUME NEW file \in WorkflowFiles
  PROVE  /\ Len(file.steps) \in Nat /\ DOMAIN file.steps = 1..Len(file.steps)
         /\ \A i \in DOMAIN file.steps : file.steps[i] \in Steps
<1>1. file.steps \in Seq(Steps)
  BY DEF WorkflowFiles
<1>2. QED
  BY <1>1

\* The key of a step is one of those the runtime file may have.
LEMMA StepHasAKey ==
  ASSUME NEW file \in WorkflowFiles, NEW step \in Steps
  PROVE  Key(file, step) \in Keys
<1>1. file.name \in FileNames /\ step.name \in StepNames
  BY DEF WorkflowFiles, Steps
<1>2. QED
  BY <1>1 DEF Key, Keys

\* A spot is that of a step, in the root or in a workflow that is called there.
LEMMA SpotFits ==
  ASSUME NEW d, IsDisk(d), NEW rooted, NEW file \in WorkflowFiles, NEW s \in Spots(d, rooted, file)
  PROVE  /\ s \in Nat \X Nat /\ s[1] \in DOMAIN file.steps
         /\ s[2] # 0 => Expands(d, rooted, file, s[1])
         /\ FileAt(d, rooted, file, s) \in WorkflowFiles
         /\ StepFound(d, rooted, file, s) \in Range(FileAt(d, rooted, file, s).steps)
         /\ StepFound(d, rooted, file, s) \in Steps /\ NotSystem(StepFound(d, rooted, file, s))
         /\ s[2] # 0 => s[2] <= Len(FileAt(d, rooted, file, s).steps)
         /\ StepAt(d, rooted, file, s).key = Key(FileAt(d, rooted, file, s), StepFound(d, rooted, file, s))
         /\ StepAt(d, rooted, file, s).unresolved <=> HasTarget(StepFound(d, rooted, file, s))
<1> DEFINE f == FileAt(d, rooted, file, s)
           t == StepFound(d, rooted, file, s)
           a == StepAt(d, rooted, file, s)
           Fits == /\ s \in Nat \X Nat /\ s[1] \in DOMAIN file.steps
                   /\ s[2] # 0 => Expands(d, rooted, file, s[1])
                   /\ f \in WorkflowFiles /\ t \in Range(f.steps)
                   /\ t \in Steps /\ NotSystem(t)
                   /\ s[2] # 0 => s[2] <= Len(f.steps)
                   /\ \E nested \in BOOLEAN : a = Selectable(f, t, nested)
<1>1. ASSUME \E i \in DOMAIN file.steps : s = <<i, 0>> /\ NotSystem(file.steps[i]) PROVE Fits
  <2>1. PICK i \in DOMAIN file.steps : s = <<i, 0>> /\ NotSystem(file.steps[i])
    BY <1>1
  <2>2. i \in Nat /\ file.steps[i] \in Steps
    BY StepsAreListed
  <2>3. f = file /\ t = file.steps[i] /\ a = Selectable(f, t, FALSE)
    BY <2>1 DEF FileAt, StepFound, StepAt
  <2> HIDE DEF f, t, a
  <2>4. s \in Nat \X Nat /\ s[1] = i /\ s[2] = 0
    BY <2>1, <2>2
  <2>5. t \in Range(f.steps) /\ NotSystem(t)
    BY <2>1, <2>3 DEF Range
  <2>6. Fits
    BY <2>2, <2>3, <2>4, <2>5
  <2>7. QED
    BY <2>6 DEF f, t, a
<1>2. ASSUME \E i \in DOMAIN file.steps : Expands(d, rooted, file, i) /\
               \E j \in DOMAIN Called(d, rooted, file.steps[i].call).steps :
                 s = <<i, j>> /\ NotSystem(Called(d, rooted, file.steps[i].call).steps[j])
      PROVE  Fits
  <2>1. PICK i \in DOMAIN file.steps : Expands(d, rooted, file, i) /\
             \E j \in DOMAIN Called(d, rooted, file.steps[i].call).steps :
               s = <<i, j>> /\ NotSystem(Called(d, rooted, file.steps[i].call).steps[j])
    BY <1>2
  <2> DEFINE called == Called(d, rooted, file.steps[i].call)
  <2>2. PICK j \in DOMAIN called.steps : s = <<i, j>> /\ NotSystem(called.steps[j])
    BY <2>1
  <2>3. called \in WorkflowFiles
    BY <2>1, CalledIsAFile DEF Expands
  <2> HIDE DEF called
  <2>4. i \in Nat /\ j \in Nat /\ j # 0 /\ j <= Len(called.steps) /\ called.steps[j] \in Steps
    BY <2>3, StepsAreListed
  <2>5. s \in Nat \X Nat /\ s[1] = i /\ s[2] = j
    BY <2>2, <2>4
  <2>6. f = called /\ t = called.steps[j]
    BY <2>4, <2>5 DEF FileAt, StepFound, called
  <2>7. a = Selectable(f, t, TRUE)
    BY <2>4, <2>5, <2>6 DEF StepAt, called
  <2> HIDE DEF f, t, a
  <2>8. t \in Range(f.steps) /\ NotSystem(t)
    BY <2>2, <2>6 DEF Range
  <2>9. Fits
    BY <2>1, <2>3, <2>4, <2>5, <2>6, <2>7, <2>8
  <2>10. QED
    BY <2>9 DEF f, t, a
<1> HIDE DEF f, t, a, Fits
<1>3. Fits
  BY <1>1, <1>2 DEF Spots
<1>4. PICK nested \in BOOLEAN : a = Selectable(f, t, nested)
  BY <1>3 DEF Fits
<1>5. a.key = Key(f, t)
  BY <1>4 DEF Selectable
<1>6. a.unresolved = HasTarget(t)
  BY <1>4 DEF Selectable
<1>7. QED
  BY <1>3, <1>5, <1>6 DEF Fits, f, t, a

\* The spots of a key have an earliest and a latest one.
LEMMA SpotsOfAKey ==
  ASSUME NEW d, IsDisk(d), NEW rooted, NEW file \in WorkflowFiles, NEW key,
         SpotsOf(d, rooted, file, key) # {}
  PROVE  /\ Earliest(SpotsOf(d, rooted, file, key)) \in SpotsOf(d, rooted, file, key)
         /\ Latest(SpotsOf(d, rooted, file, key)) \in SpotsOf(d, rooted, file, key)
<1> DEFINE S == SpotsOf(d, rooted, file, key)
           b == Len(file.steps)
<1>1. S \subseteq Spots(d, rooted, file)
  BY DEF SpotsOf
<1> HIDE DEF S
<1>2. S \in SUBSET (Nat \X Nat) /\ \A s \in S : s[1] \in DOMAIN file.steps
  BY <1>1, SpotFits
<1>3. b \in Nat /\ \A s \in S : s[1] <= b
  BY <1>2, StepsAreListed
<1>4. ASSUME NEW i \in Nat PROVE \E c \in Nat : \A s \in S : s[1] = i => s[2] <= c
  <2> DEFINE called == Called(d, rooted, file.steps[i].call)
  <2>1. CASE \E s \in S : s[1] = i /\ s[2] # 0
    <3>1. \A s \in S : s[1] = i /\ s[2] # 0 => called \in WorkflowFiles /\ s[2] <= Len(called.steps)
      BY <1>1, SpotFits DEF FileAt
    <3>2. Len(called.steps) \in Nat
      BY <2>1, <3>1, StepsAreListed
    <3>3. \A s \in S : s[1] = i => s[2] <= Len(called.steps)
      BY <3>1, <3>2
    <3>4. QED
      BY <3>2, <3>3
  <2>2. CASE ~\E s \in S : s[1] = i /\ s[2] # 0
    <3>1. \A s \in S : s[1] = i => s[2] <= 0
      BY <2>2
    <3>2. QED
      BY <3>1
  <2>3. QED
    BY <2>1, <2>2
<1>5. S # {}
  BY DEF S
<1>6. Earliest(S) \in S
  BY <1>2, <1>5, EarliestIsThere
<1>7. Latest(S) \in S
  BY <1>2, <1>3, <1>4, <1>5, LatestIsThere
<1>8. QED
  BY <1>6, <1>7 DEF S

\* The steps that are asked for: one of each key, at its first spot and as its last one is.
LEMMA SelectableAre ==
  ASSUME NEW d, IsDisk(d), NEW rooted, NEW file \in WorkflowFiles
  PROVE  LET steps == SelectableSteps(d, rooted, file)
         IN  /\ DOMAIN steps \subseteq Spots(d, rooted, file)
             /\ \A s \in DOMAIN steps : \E u \in Spots(d, rooted, file) :
                  steps[s] = StepAt(d, rooted, file, u)
             /\ \A u \in Spots(d, rooted, file) : \E s \in DOMAIN steps :
                  steps[s].key = StepAt(d, rooted, file, u).key
             /\ \A s, t \in DOMAIN steps : steps[s].key = steps[t].key => s = t
<1> DEFINE spots == Spots(d, rooted, file)
           At(s) == StepAt(d, rooted, file, s)
           SameKey(s) == SpotsOf(d, rooted, file, At(s).key)
           firsts == {t \in spots : t = Earliest(SameKey(t))}
           steps == [s \in firsts |-> At(Latest(SameKey(s)))]
<1>1. SelectableSteps(d, rooted, file) = steps
  BY DEF SelectableSteps
<1>2. ASSUME NEW u \in spots
      PROVE  /\ Earliest(SameKey(u)) \in spots /\ At(Earliest(SameKey(u))).key = At(u).key
             /\ Latest(SameKey(u)) \in spots /\ At(Latest(SameKey(u))).key = At(u).key
  <2>1. SameKey(u) # {}
    BY DEF SpotsOf
  <2>2. Earliest(SameKey(u)) \in SameKey(u) /\ Latest(SameKey(u)) \in SameKey(u)
    BY <2>1, SpotsOfAKey
  <2>3. QED
    BY <2>2 DEF SpotsOf
<1>3. \A u, v \in spots : At(u).key = At(v).key => Earliest(SameKey(u)) = Earliest(SameKey(v))
  OBVIOUS
<1>4. \A u \in spots : Earliest(SameKey(u)) \in firsts
  <2>1. ASSUME NEW u \in spots PROVE Earliest(SameKey(u)) = Earliest(SameKey(Earliest(SameKey(u))))
    BY <1>2, <1>3
  <2>2. QED
    BY <1>2, <2>1
<1> HIDE DEF spots, At, SameKey
<1>5. \A s \in firsts : s \in spots /\ steps[s] = At(Latest(SameKey(s))) /\ steps[s].key = At(s).key
  BY <1>2
<1>6. \A u \in spots : \E s \in firsts : steps[s].key = At(u).key
  BY <1>2, <1>4, <1>5
<1>7. \A s, t \in firsts : steps[s].key = steps[t].key => s = t
  <2>1. ASSUME NEW s \in firsts, NEW t \in firsts, steps[s].key = steps[t].key PROVE s = t
    <3>1. At(s).key = At(t).key /\ s \in spots /\ t \in spots
      BY <1>5, <2>1
    <3>2. Earliest(SameKey(s)) = Earliest(SameKey(t))
      BY <1>3, <3>1
    <3>3. QED
      BY <3>2
  <2>2. QED
    BY <2>1
<1>8. \A s \in firsts : \E u \in spots : steps[s] = At(u)
  BY <1>2, <1>5
<1>9. DOMAIN steps = firsts /\ firsts \subseteq spots
  OBVIOUS
<1> HIDE DEF steps, firsts
<1>10. QED
  BY <1>1, <1>6, <1>7, <1>8, <1>9 DEF spots, At

\* The root and the workflows it calls have the step of every spot, and are found on the disk.
LEMMA SpotsAreOfCalled ==
  ASSUME IsDisk(disk), NEW file \in WorkflowFiles
  PROVE  /\ \A f \in Runs(file) : f \in WorkflowFiles
         /\ \A u \in Spots(disk, Rooted, file) : FileAt(disk, Rooted, file, u) \in Runs(file)
<1>1. \A f \in CalledFiles(file) : f \in WorkflowFiles
  BY CalledIsAFile DEF CalledFiles
<1>2. ASSUME NEW u \in Spots(disk, Rooted, file)
      PROVE  FileAt(disk, Rooted, file, u) \in Runs(file)
  <2>1. CASE u[2] = 0
    BY <2>1 DEF FileAt, Runs
  <2>2. CASE u[2] # 0
    <3>1. u[1] \in DOMAIN file.steps /\ Expands(disk, Rooted, file, u[1])
      BY <2>2, SpotFits
    <3>2. file.steps[u[1]] \in Range(file.steps)
      BY <3>1 DEF Range
    <3>3. QED
      BY <2>2, <3>1, <3>2 DEF Expands, FirstCall, FileAt, CalledFiles, Runs
  <2>3. QED
    BY <2>1, <2>2
<1>3. QED
  BY <1>1, <1>2 DEF Runs

\* Every step of them that can have a model has a spot.
LEMMA StepsHaveSpots ==
  ASSUME NEW file \in WorkflowFiles, NEW f \in Runs(file), f \in WorkflowFiles,
         NEW t \in Range(f.steps), NotSystem(t), ~HasTarget(t)
  PROVE  \E u \in Spots(disk, Rooted, file) :
           FileAt(disk, Rooted, file, u) = f /\ StepFound(disk, Rooted, file, u) = t
<1>1. PICK j \in DOMAIN f.steps : t = f.steps[j]
  BY DEF Range
<1>2. j \in Nat /\ j # 0
  BY StepsAreListed
<1>3. CASE f = file
  <2>1. ~Expands(disk, Rooted, file, j)
    BY <1>1, <1>3 DEF Expands, FirstCall
  <2>2. <<j, 0>> \in Spots(disk, Rooted, file)
    BY <1>1, <1>3, <2>1 DEF Spots
  <2>3. QED
    BY <1>1, <1>3, <2>2 DEF FileAt, StepFound
<1>4. CASE f # file
  <2>1. PICK c \in Range(file.steps) :
          HasTarget(c) /\ Resolve(disk, Rooted, c.call) # NoLayer /\ f = Called(disk, Rooted, c.call)
    BY <1>4 DEF Runs, CalledFiles
  <2> DEFINE calls == {i \in DOMAIN file.steps : HasTarget(file.steps[i]) /\ file.steps[i].call = c.call}
  <2>2. calls \in SUBSET Nat /\ calls # {}
    <3>1. DOMAIN file.steps \subseteq Nat
      BY StepsAreListed
    <3>2. QED
      BY <2>1, <3>1 DEF Range
  <2> HIDE DEF calls
  <2>3. PICK i \in calls : \A k \in calls : i <= k
    BY <2>2, LeastNatural
  <2>4. i \in DOMAIN file.steps /\ HasTarget(file.steps[i]) /\ file.steps[i].call = c.call
    BY <2>3 DEF calls
  <2>5. FirstCall(file, i)
    <3>1. ASSUME NEW k \in 1..(i - 1), HasTarget(file.steps[k]), file.steps[k].call = c.call
          PROVE  FALSE
      <4>1. k \in DOMAIN file.steps /\ ~(i <= k)
        BY <2>4, StepsAreListed
      <4>2. k \in calls
        BY <3>1, <4>1 DEF calls
      <4>3. QED
        BY <2>3, <4>1, <4>2
    <3>2. QED
      BY <2>4, <3>1 DEF FirstCall
  <2>6. Expands(disk, Rooted, file, i) /\ f = Called(disk, Rooted, file.steps[i].call)
    BY <2>1, <2>4, <2>5 DEF Expands
  <2>7. <<i, j>> \in Spots(disk, Rooted, file)
    BY <1>1, <2>4, <2>6 DEF Spots
  <2>8. FileAt(disk, Rooted, file, <<i, j>>) = f /\ StepFound(disk, Rooted, file, <<i, j>>) = t
    BY <1>1, <1>2, <2>6 DEF FileAt, StepFound
  <2>9. QED
    BY <2>7, <2>8
<1>5. QED
  BY <1>3, <1>4

\* The keys that the dialogs go through.
AskedFor(steps) == {steps[s].key : s \in {t \in DOMAIN steps : ~steps[t].unresolved}}

\* They are due, and are all that is, but for keys that a call has too.
LEMMA DueIsAskedFor ==
  ASSUME IsDisk(disk), NEW file \in WorkflowFiles,
         NEW steps, steps = SelectableSteps(disk, Rooted, file)
  PROVE  /\ AskedFor(steps) \subseteq StepsDue(file).asks
         /\ StepsDue(file).asks \ StepsDue(file).calls \subseteq AskedFor(steps)
<1> DEFINE spots == Spots(disk, Rooted, file)
           At(u) == StepAt(disk, Rooted, file, u)
           In(u) == FileAt(disk, Rooted, file, u)
           Found(u) == StepFound(disk, Rooted, file, u)
<1>1. /\ StepsDue(file).asks = UNION {ModelSteps(f) : f \in Runs(file)}
      /\ StepsDue(file).calls = UNION {CallSteps(f) : f \in Runs(file)}
  BY DEF StepsDue
<1>2. \A f \in Runs(file) : f \in WorkflowFiles
  BY SpotsAreOfCalled
<1>3. \A u \in spots : In(u) \in Runs(file)
  BY SpotsAreOfCalled
<1>4. \A u \in spots : /\ Found(u) \in Range(In(u).steps) /\ NotSystem(Found(u))
                       /\ At(u).key = Key(In(u), Found(u))
                       /\ At(u).unresolved <=> HasTarget(Found(u))
  BY SpotFits
<1>5. /\ \A s \in DOMAIN steps : \E u \in spots : steps[s] = At(u)
      /\ \A u \in spots : \E s \in DOMAIN steps : steps[s].key = At(u).key
  BY SelectableAre
<1>6. \A f \in Runs(file) : \A t \in Range(f.steps) : NotSystem(t) /\ ~HasTarget(t) =>
        \E u \in spots : In(u) = f /\ Found(u) = t
  BY <1>2, StepsHaveSpots
<1> HIDE DEF spots, At, In, Found
<1>7. ASSUME NEW s \in DOMAIN steps, ~steps[s].unresolved
      PROVE  \E f \in Runs(file) : steps[s].key \in ModelSteps(f)
  <2>1. PICK u \in spots : steps[s] = At(u)
    BY <1>5
  <2>2. Key(In(u), Found(u)) \in ModelSteps(In(u))
    BY <1>4, <1>7, <2>1 DEF ModelSteps
  <2>3. QED
    BY <1>3, <1>4, <2>1, <2>2
<1>8. ASSUME NEW f \in Runs(file), NEW key \in ModelSteps(f), \A g \in Runs(file) : key \notin CallSteps(g)
      PROVE  \E s \in DOMAIN steps : ~steps[s].unresolved /\ steps[s].key = key
  <2>1. PICK t \in Range(f.steps) : NotSystem(t) /\ ~HasTarget(t) /\ key = Key(f, t)
    BY DEF ModelSteps
  <2>2. PICK u \in spots : In(u) = f /\ Found(u) = t
    BY <1>6, <2>1
  <2>3. PICK s \in DOMAIN steps : steps[s].key = At(u).key
    BY <1>5
  <2>4. steps[s].key = key
    BY <1>4, <2>1, <2>2, <2>3
  <2>5. PICK v \in spots : steps[s] = At(v)
    BY <1>5
  <2>6. ASSUME steps[s].unresolved PROVE FALSE
    <3>1. HasTarget(Found(v)) /\ Key(In(v), Found(v)) = key
      BY <1>4, <2>4, <2>5, <2>6
    <3>2. key \in CallSteps(In(v))
      BY <1>4, <3>1 DEF CallSteps
    <3>3. QED
      BY <1>3, <1>8, <3>2
  <2>7. QED
    BY <2>4, <2>6
<1>9. AskedFor(steps) \subseteq UNION {ModelSteps(f) : f \in Runs(file)}
  BY <1>7 DEF AskedFor
<1>10. ASSUME NEW key \in UNION {ModelSteps(f) : f \in Runs(file)},
              key \notin UNION {CallSteps(f) : f \in Runs(file)}
       PROVE  key \in AskedFor(steps)
  <2>1. PICK f \in Runs(file) : key \in ModelSteps(f)
    OBVIOUS
  <2>2. \A g \in Runs(file) : key \notin CallSteps(g)
    BY <1>10
  <2>3. QED
    BY <1>8, <2>1, <2>2 DEF AskedFor
<1>11. QED
  BY <1>1, <1>9, <1>10

-----------------------------------------------------------------------------
(* The runtime file                                                        *)

\* The last of the picks that have something in common.
LEMMA LastPick ==
  ASSUME NEW picks \in Seq(Selection), NEW I \in SUBSET DOMAIN picks, I # {}
  PROVE  Max(I) \in I /\ picks[Max(I)] \in Selection
<1>1. I \in SUBSET Nat /\ Len(picks) \in Nat /\ \A i \in I : i <= Len(picks)
  OBVIOUS
<1>2. Max(I) \in I
  BY <1>1, GreatestNatural
<1>3. QED
  BY <1>2

\* What picks come to: each step the model of a pick for it, and that model's profile.
LEMMA PicksAre ==
  ASSUME NEW picks \in Seq(Selection)
  PROVE  /\ DOMAIN Picked(picks) = {picks[i].key : i \in DOMAIN picks}
         /\ DOMAIN Picked(picks) \subseteq Keys
         /\ \A key \in DOMAIN Picked(picks) :
              Picked(picks)[key] \in Models /\ ProfileName[Picked(picks)[key]] \in DOMAIN PickedProfiles(picks)
         /\ DOMAIN PickedProfiles(picks) \subseteq Profiles
         /\ \A name \in DOMAIN PickedProfiles(picks) :
              PickedProfiles(picks)[name] \in Models /\ ProfileName[PickedProfiles(picks)[name]] = name
         /\ \A i \in DOMAIN picks : ProfileName[picks[i].model] \in DOMAIN PickedProfiles(picks)
<1>1. \A i \in DOMAIN picks : picks[i].key \in Keys /\ picks[i].model \in Models
  <2>1. \A i \in DOMAIN picks : picks[i] \in Selection
    OBVIOUS
  <2>2. QED
    BY <2>1 DEF Selection
<1>2. ASSUME NEW key \in DOMAIN Picked(picks)
      PROVE  key \in Keys /\ \E i \in DOMAIN picks : Picked(picks)[key] = picks[i].model
  <2> DEFINE I == {i \in DOMAIN picks : picks[i].key = key}
  <2>1. key \in Keys /\ I # {} /\ Picked(picks)[key] = picks[Max(I)].model
    BY <1>1 DEF Picked
  <2> HIDE DEF I
  <2>2. I \in SUBSET DOMAIN picks
    BY DEF I
  <2>3. Max(I) \in I
    BY <2>1, <2>2, LastPick
  <2>4. QED
    BY <2>1, <2>2, <2>3
<1>3. ASSUME NEW name \in DOMAIN PickedProfiles(picks)
      PROVE  /\ name \in Profiles
             /\ PickedProfiles(picks)[name] \in Models /\ ProfileName[PickedProfiles(picks)[name]] = name
  <2> DEFINE I == {i \in DOMAIN picks : ProfileName[picks[i].model] = name}
  <2>1. name \in Profiles /\ I # {} /\ PickedProfiles(picks)[name] = picks[Max(I)].model
    BY <1>1, ProfileNameAssumption DEF PickedProfiles
  <2>2. \A i \in I : ProfileName[picks[i].model] = name
    OBVIOUS
  <2>3. I \in SUBSET DOMAIN picks
    OBVIOUS
  <2> HIDE DEF I
  <2>4. Max(I) \in I
    BY <2>1, <2>3, LastPick
  <2>5. QED
    BY <1>1, <2>1, <2>2, <2>3, <2>4
<1>4. \A i \in DOMAIN picks : ProfileName[picks[i].model] \in DOMAIN PickedProfiles(picks)
  BY DEF PickedProfiles
<1>5. DOMAIN Picked(picks) = {picks[i].key : i \in DOMAIN picks}
  BY DEF Picked
<1>6. \A key \in DOMAIN Picked(picks) :
        Picked(picks)[key] \in Models /\ ProfileName[Picked(picks)[key]] \in DOMAIN PickedProfiles(picks)
  BY <1>1, <1>2, <1>4
<1>7. QED
  BY <1>2, <1>3, <1>4, <1>5, <1>6

\* The fields of the file that is written.
LEMMA ApplyIs ==
  ASSUME NEW file, IsRuntime(file), NEW picks
  PROVE  /\ DOMAIN Apply(file, picks) = DOMAIN file
         /\ Apply(file, picks).valid = file.valid
         /\ Apply(file, picks).profiles = Over(PickedProfiles(picks), file.profiles)
         /\ Apply(file, picks).steps = Over(PickedSteps(picks), file.steps)
         /\ Apply(file, picks).default \in {file.default, ProfileName[picks[1].model]}
<1>1. DOMAIN file = {"valid", "profiles", "steps", "default"}
  BY DEF IsRuntime
<1> DEFINE p == Over(PickedProfiles(picks), file.profiles)
           s == Over(PickedSteps(picks), file.steps)
           d == IF file.default = NoProfile THEN ProfileName[picks[1].model] ELSE file.default
<1>2. Apply(file, picks) = [file EXCEPT !.profiles = p, !.steps = s, !.default = d]
  BY DEF Apply
<1>3. d \in {file.default, ProfileName[picks[1].model]}
  OBVIOUS
<1> HIDE DEF p, s, d
<1>4. QED
  BY <1>1, <1>2, <1>3 DEF p, s

\* It names no profile that it does not have.
LEMMA ApplyKeepsRuntime ==
  ASSUME NEW file, IsRuntime(file), NEW picks \in Seq(Selection), picks # <<>>
  PROVE  IsRuntime(Apply(file, picks))
<1> DEFINE after == Apply(file, picks)
<1>1. /\ DOMAIN after = DOMAIN file /\ after.valid = file.valid
      /\ after.profiles = Over(PickedProfiles(picks), file.profiles)
      /\ after.steps = Over(PickedSteps(picks), file.steps)
      /\ after.default \in {file.default, ProfileName[picks[1].model]}
  BY ApplyIs
<1> HIDE DEF after
<1>2. /\ DOMAIN after.profiles = DOMAIN PickedProfiles(picks) \cup DOMAIN file.profiles
      /\ \A n \in DOMAIN after.profiles :
           after.profiles[n] \in {PickedProfiles(picks)[n], file.profiles[n]}
           /\ (n \notin DOMAIN file.profiles => after.profiles[n] = PickedProfiles(picks)[n])
           /\ (n \notin DOMAIN PickedProfiles(picks) => after.profiles[n] = file.profiles[n])
  BY <1>1 DEF Over
<1>3. /\ DOMAIN after.steps = DOMAIN PickedSteps(picks) \cup DOMAIN file.steps
      /\ \A k \in DOMAIN PickedSteps(picks) : after.steps[k] = PickedSteps(picks)[k]
      /\ \A k \in DOMAIN file.steps : k \notin DOMAIN PickedSteps(picks) => after.steps[k] = file.steps[k]
  BY <1>1 DEF Over
<1>4. /\ DOMAIN PickedSteps(picks) = DOMAIN Picked(picks)
      /\ \A k \in DOMAIN Picked(picks) : PickedSteps(picks)[k] = ProfileName[Picked(picks)[k]]
  BY DEF PickedSteps
<1>5. /\ \A n \in DOMAIN file.profiles : file.profiles[n] \in Models \cup {Manual} /\ n \in Profiles
      /\ \A k \in DOMAIN file.steps : k \in Keys /\ file.steps[k] \in DOMAIN file.profiles
      /\ file.default \in DOMAIN file.profiles \cup {NoProfile}
  BY DEF IsRuntime, Range
<1>6. \A n \in DOMAIN after.profiles : n \in Profiles /\ after.profiles[n] \in Models \cup {Manual}
  <2>1. ASSUME NEW n \in DOMAIN after.profiles
        PROVE  n \in Profiles /\ after.profiles[n] \in Models \cup {Manual}
    <3>1. CASE n \in DOMAIN PickedProfiles(picks)
      <4>1. after.profiles[n] = PickedProfiles(picks)[n]
        BY <1>1, <3>1 DEF Over
      <4>2. QED
        BY <3>1, <4>1, PicksAre
    <3>2. CASE n \notin DOMAIN PickedProfiles(picks)
      BY <1>2, <1>5, <3>2
    <3>3. QED
      BY <3>1, <3>2
  <2>2. QED
    BY <2>1
<1>7. \A k \in DOMAIN after.steps : k \in Keys /\ after.steps[k] \in DOMAIN after.profiles
  <2>1. ASSUME NEW k \in DOMAIN after.steps
        PROVE  k \in Keys /\ after.steps[k] \in DOMAIN after.profiles
    <3>1. CASE k \in DOMAIN Picked(picks)
      <4>1. after.steps[k] = ProfileName[Picked(picks)[k]]
        BY <1>3, <1>4, <3>1
      <4>2. QED
        BY <1>2, <3>1, <4>1, PicksAre
    <3>2. CASE k \notin DOMAIN Picked(picks)
      BY <1>2, <1>3, <1>4, <1>5, <3>2
    <3>3. QED
      BY <3>1, <3>2
  <2>2. QED
    BY <2>1
<1>8. after.default \in DOMAIN after.profiles \cup {NoProfile}
  <2>1. 1 \in DOMAIN picks
    OBVIOUS
  <2>2. ProfileName[picks[1].model] \in DOMAIN PickedProfiles(picks)
    BY <2>1, PicksAre
  <2>3. QED
    BY <1>1, <1>2, <1>5, <2>2
<1>9. IsRuntime(after)
  <2>1. Range(after.profiles) \subseteq Models \cup {Manual} /\ DOMAIN after.profiles \subseteq Profiles
    BY <1>6 DEF Range
  <2>2. Range(after.steps) \subseteq DOMAIN after.profiles /\ DOMAIN after.steps \subseteq Keys
    BY <1>7 DEF Range
  <2>3. DOMAIN after = {"valid", "profiles", "steps", "default"} /\ after.valid \in BOOLEAN
    BY <1>1 DEF IsRuntime
  <2>4. QED
    BY <1>8, <2>1, <2>2, <2>3 DEF IsRuntime
<1>10. QED
  BY <1>9 DEF after


-----------------------------------------------------------------------------
(* Types                                                                   *)

\* The catalog lists ids only.
LEMMA ListedAreIds ==
  ASSUME NEW d, NEW rooted
  PROVE  Listed(d, rooted) \subseteq Ids
  BY DEF Listed, Effective, Offered

\* A disk whose files in the project are others is a disk.
LEMMA ProjectFilesMayChange ==
  ASSUME NEW d, IsDisk(d), NEW files \in Seq(WorkflowFiles)
  PROVE  IsDisk([d EXCEPT !.files["project"] = files])
<1> DEFINE all == [d.files EXCEPT !["project"] = files]
           after == [d EXCEPT !.files = all]
<1>1. [d EXCEPT !.files["project"] = files] = after
  BY DEF IsDisk
<1>2. /\ DOMAIN d = {"files", "enabled", "disabled", "own", "shipped"} /\ DOMAIN d.files = Layers
      /\ \A l \in Layers : d.files[l] \in Seq(WorkflowFiles)
      /\ d.enabled \in BOOLEAN /\ d.disabled \subseteq Ids
      /\ d.own \in CategoryFiles /\ d.shipped \in CategoryFiles
  BY DEF IsDisk
<1> HIDE DEF IsDisk
<1>3. DOMAIN all = Layers /\ \A l \in Layers : all[l] = files \/ all[l] = d.files[l]
  BY <1>2 DEF Layers
<1> HIDE DEF all
<1>4. \A l \in Layers : all[l] \in Seq(WorkflowFiles)
  BY <1>2, <1>3
<1>5. /\ DOMAIN after = DOMAIN d /\ after.files = all
      /\ after.enabled = d.enabled /\ after.disabled = d.disabled
      /\ after.own = d.own /\ after.shipped = d.shipped
  BY <1>2
<1> HIDE DEF after
<1>6. IsDisk(after)
  BY <1>2, <1>3, <1>4, <1>5 DEF IsDisk
<1>7. QED
  BY <1>1, <1>6

\* No file and an empty one are runtime files.
LEMMA BlankIsARuntime == IsRuntime(Blank)
<1>1. DOMAIN << >> = {} /\ Range(<<>>) = {}
  BY DEF Range
<1>2. QED
  BY <1>1 DEF IsRuntime, Blank

\* The part of TypeOK about the windows that merge.
MergingOK(m) ==
  /\ DOMAIN m = Windows
  /\ \A w \in Windows :
       /\ DOMAIN m[w] = DOMAIN NotMerging
       /\ m[w].pc \in {"idle", "merging", "truncated"}
       /\ IsRuntime(m[w].doc) /\ m[w].picks \in Seq(Selection)

\* One window changes what it is doing.
LEMMA MergingMayChange ==
  ASSUME MergingOK(merging), NEW w \in Windows, NEW now,
         DOMAIN now = {"pc", "doc", "picks"}, now.pc \in {"idle", "merging", "truncated"},
         IsRuntime(now.doc), now.picks \in Seq(Selection)
  PROVE  MergingOK([merging EXCEPT ![w] = now])
<1> DEFINE m == [merging EXCEPT ![w] = now]
<1>1. DOMAIN m = Windows /\ m[w] = now /\ \A v \in Windows : v # w => m[v] = merging[v]
  BY DEF MergingOK
<1> HIDE DEF m
<1>2. DOMAIN NotMerging = {"pc", "doc", "picks"}
  BY DEF NotMerging
<1>3. MergingOK(m)
  BY <1>1, <1>2 DEF MergingOK
<1>4. QED
  BY <1>3 DEF m

\* To read the file keeps the types.
LEMMA ReadKeepsTypes ==
  ASSUME TypeOK, NEW w \in Windows, NEW picks \in Seq(Selection), picks # <<>>, ReadRuntime(w, picks)
  PROVE  edits' \in 0..MaxEdits /\ MergingOK(merging') /\ overlapped' \in BOOLEAN
<1>1. edits' \in 0..MaxEdits
  BY MaxEditsAssumption DEF TypeOK, ReadRuntime
<1>2. MergingOK(merging)
  BY DEF TypeOK, MergingOK
<1>3. overlapped' \in BOOLEAN
  BY DEF TypeOK, ReadRuntime
<1>4. MergingOK(merging')
  <2> DEFINE doc == Apply(runtime, picks)
             now == [pc |-> "merging", doc |-> doc, picks |-> picks]
  <2>1. IsRuntime(doc)
    BY ApplyKeepsRuntime DEF TypeOK
  <2>2. merging' = [merging EXCEPT ![w] = now] \/ merging' = merging
    BY DEF ReadRuntime
  <2> HIDE DEF doc
  <2>3. /\ DOMAIN now = {"pc", "doc", "picks"} /\ now.pc = "merging"
        /\ now.doc = doc /\ now.picks = picks
    OBVIOUS
  <2> HIDE DEF now
  <2>4. MergingOK([merging EXCEPT ![w] = now])
    BY <1>2, <2>1, <2>3, MergingMayChange
  <2>5. QED
    BY <1>2, <2>2, <2>4
<1>5. QED
  BY <1>1, <1>3, <1>4

\* So does opening it for writing.
LEMMA TruncateKeepsTypes ==
  ASSUME TypeOK, NEW w \in Windows, TruncateRuntime(w)
  PROVE  IsRuntime(runtime') /\ MergingOK(merging')
<1>1. IsRuntime(runtime')
  BY BlankIsARuntime DEF TruncateRuntime
<1>2. MergingOK(merging)
  BY DEF TypeOK, MergingOK
<1> DEFINE now == [merging[w] EXCEPT !.pc = "truncated"]
<1>3. merging' = [merging EXCEPT ![w] = now]
  BY <1>2 DEF TruncateRuntime, MergingOK
<1>4. /\ DOMAIN now = {"pc", "doc", "picks"} /\ now.pc = "truncated"
      /\ now.doc = merging[w].doc /\ now.picks = merging[w].picks
  BY <1>2 DEF MergingOK, NotMerging
<1> HIDE DEF now
<1>5. IsRuntime(now.doc) /\ now.picks \in Seq(Selection)
  BY <1>2, <1>4 DEF MergingOK
<1>6. MergingOK(merging')
  BY <1>2, <1>3, <1>4, <1>5, MergingMayChange
<1>7. QED
  BY <1>1, <1>6

\* And writing it.
LEMMA WriteKeepsTypes ==
  ASSUME TypeOK, NEW w \in Windows, WriteRuntime(w)
  PROVE  IsRuntime(runtime') /\ MergingOK(merging') /\ DOMAIN chosen' \subseteq Keys
<1>1. MergingOK(merging)
  BY DEF TypeOK, MergingOK
<1>2. IsRuntime(merging[w].doc) /\ merging[w].picks \in Seq(Selection)
  BY <1>1 DEF MergingOK
<1>3. IsRuntime(runtime')
  <2> DEFINE doc == merging[w].doc
             bad == [doc EXCEPT !.valid = FALSE]
  <2>1. runtime' = doc \/ runtime' = bad
    BY DEF WriteRuntime
  <2>2. IsRuntime(doc)
    BY <1>2
  <2> HIDE DEF doc
  <2>3. /\ DOMAIN bad = DOMAIN doc /\ bad.valid = FALSE /\ bad.profiles = doc.profiles
        /\ bad.steps = doc.steps /\ bad.default = doc.default
    BY <2>2 DEF IsRuntime
  <2> HIDE DEF bad
  <2>4. IsRuntime(bad)
    BY <2>2, <2>3 DEF IsRuntime
  <2>5. QED
    BY <2>1, <2>2, <2>4
<1>4. MergingOK(merging')
  <2>1. /\ DOMAIN NotMerging = {"pc", "doc", "picks"} /\ NotMerging.pc = "idle"
        /\ NotMerging.doc = Blank /\ NotMerging.picks = <<>>
    BY DEF NotMerging
  <2>2. <<>> \in Seq(Selection)
    OBVIOUS
  <2>3. MergingOK([merging EXCEPT ![w] = NotMerging])
    BY <1>1, <2>1, <2>2, BlankIsARuntime, MergingMayChange
  <2>4. QED
    BY <2>3 DEF WriteRuntime
<1>5. DOMAIN chosen' \subseteq Keys
  <2>1. DOMAIN chosen' = DOMAIN Picked(merging[w].picks) \cup DOMAIN chosen
    BY DEF WriteRuntime, Over
  <2>2. DOMAIN Picked(merging[w].picks) \subseteq Keys
    BY <1>2, PicksAre
  <2>3. QED
    BY <2>1, <2>2 DEF TypeOK
<1>6. QED
  BY <1>3, <1>4, <1>5

\* The part of TypeOK about the dialog.
DialogOK(d) ==
  /\ DOMAIN d = DOMAIN Closed /\ d.pc \in {"closed", "workflow", "model", "confirm"}
  /\ d.listed \subseteq Ids
  /\ DOMAIN d.steps \subseteq Nat \X Nat
  /\ \A s \in DOMAIN d.steps : d.steps[s].key \in Keys
  /\ d.pc = "model" => d.at \in DOMAIN d.steps
  /\ d.asked \in Seq(Keys) /\ d.picks \in Seq(Selection)

\* A closed dialog has its types.
LEMMA ClosedIsADialog == DialogOK(Closed)
<1>1. <<>> \in Seq(Selection) /\ <<>> \in Seq(Keys) /\ DOMAIN << >> = {}
  OBVIOUS
<1>2. QED
  BY <1>1 DEF DialogOK, Closed

\* So has one that lists workflows.
LEMMA ListingIsADialog ==
  ASSUME NEW ids \in SUBSET Ids
  PROVE  DialogOK([Closed EXCEPT !.pc = "workflow", !.listed = ids])
<1> DEFINE d == [Closed EXCEPT !.pc = "workflow", !.listed = ids]
<1>1. /\ DOMAIN d = DOMAIN Closed /\ d.pc = "workflow" /\ d.listed = ids
      /\ d.steps = <<>> /\ d.asked = <<>> /\ d.picks = <<>>
  BY DEF Closed
<1>2. <<>> \in Seq(Selection) /\ <<>> \in Seq(Keys) /\ DOMAIN << >> = {}
  OBVIOUS
<1> HIDE DEF d
<1>3. DialogOK(d)
  BY <1>1, <1>2 DEF DialogOK
<1>4. QED
  BY <1>3 DEF d

\* The next step to ask for is the earliest one that is left.
LEMMA NextIsEarliest ==
  ASSUME NEW steps, DOMAIN steps \subseteq Nat \X Nat, NEW spot \in Nat \X Nat,
         NEW next, next = NextAsked(steps, spot)
  PROVE  LET left == {s \in DOMAIN steps : Sooner(spot, s) /\ ~steps[s].unresolved}
         IN  /\ next = NoSpot <=> left = {}
             /\ next # NoSpot => next \in left /\ \A s \in left : ~Sooner(s, next)
<1> DEFINE left == {s \in DOMAIN steps : Sooner(spot, s) /\ ~steps[s].unresolved}
<1>1. next = IF left = {} THEN NoSpot ELSE Earliest(left)
  BY DEF NextAsked
<1>2. left \in SUBSET (Nat \X Nat) /\ \A s \in left : Sooner(spot, s)
  OBVIOUS
<1>3. NoSpot \notin left
  <2>1. ~Sooner(spot, NoSpot)
    BY DEF Sooner, NoSpot
  <2>2. QED
    BY <2>1
<1> HIDE DEF left
<1>4. left # {} => Earliest(left) \in left /\ \A s \in left : ~Sooner(s, Earliest(left))
  BY <1>2, EarliestIsThere
<1>5. (next = NoSpot <=> left = {}) /\ (next # NoSpot => next \in left /\ \A s \in left : ~Sooner(s, next))
  BY <1>1, <1>3, <1>4
<1>6. QED
  BY <1>5 DEF left

\* Asking for one of its steps, or for the confirmation, a dialog keeps its types.
LEMMA AskingIsADialog ==
  ASSUME NEW d, DialogOK(d), NEW spot \in DOMAIN d.steps \cup {NoSpot}
  PROVE  /\ DialogOK(Asking(d, spot))
         /\ Asking(d, spot).pc = (IF spot = NoSpot THEN "confirm" ELSE "model")
         /\ Asking(d, spot).at = spot /\ Asking(d, spot).steps = d.steps /\ Asking(d, spot).asked = d.asked
<1> DEFINE after == Asking(d, spot)
<1>1. DOMAIN d = {"pc", "listed", "steps", "at", "asked", "picks"}
  BY DEF DialogOK, Closed
<1>2. /\ DOMAIN after = DOMAIN d /\ after.pc = (IF spot = NoSpot THEN "confirm" ELSE "model")
      /\ after.at = spot /\ after.listed = d.listed /\ after.steps = d.steps
      /\ after.asked = d.asked /\ after.picks = d.picks
  BY <1>1 DEF Asking
<1> HIDE DEF after
<1>3. after.pc \in {"closed", "workflow", "model", "confirm"} /\ (after.pc = "model" => spot # NoSpot)
  BY <1>2
<1>4. DialogOK(after)
  BY <1>2, <1>3 DEF DialogOK
<1>5. QED
  BY <1>2, <1>4 DEF after

\* The steps of a workflow that was resolved can be asked for.
LEMMA CollectedIsADialog ==
  ASSUME NEW d, IsDisk(d), NEW rooted, NEW file \in WorkflowFiles,
         NEW steps, steps = SelectableSteps(d, rooted, file)
  PROVE  /\ DialogOK([Closed EXCEPT !.steps = steps])
         /\ [Closed EXCEPT !.steps = steps].steps = steps /\ [Closed EXCEPT !.steps = steps].asked = <<>>
         /\ DOMAIN steps \subseteq Nat \X Nat /\ \A s \in DOMAIN steps : s[1] # 0
<1>1. DOMAIN steps \subseteq Nat \X Nat
  BY SelectableAre, SpotFits
<1>2. \A s \in DOMAIN steps : s[1] # 0
  <2>1. \A s \in DOMAIN steps : s[1] \in DOMAIN file.steps
    BY SelectableAre, SpotFits
  <2>2. QED
    BY <2>1, StepsAreListed
<1>3. \A s \in DOMAIN steps : steps[s].key \in Keys
  <2>1. ASSUME NEW s \in DOMAIN steps PROVE steps[s].key \in Keys
    <3>1. PICK u \in Spots(d, rooted, file) : steps[s] = StepAt(d, rooted, file, u)
      BY SelectableAre
    <3>2. /\ FileAt(d, rooted, file, u) \in WorkflowFiles /\ StepFound(d, rooted, file, u) \in Steps
          /\ steps[s].key = Key(FileAt(d, rooted, file, u), StepFound(d, rooted, file, u))
      BY <3>1, SpotFits
    <3>3. QED
      BY <3>2, StepHasAKey
  <2>2. QED
    BY <2>1
<1> DEFINE before == [Closed EXCEPT !.steps = steps]
<1>4. /\ DOMAIN before = DOMAIN Closed /\ before.pc = "closed" /\ before.listed = {}
      /\ before.steps = steps /\ before.asked = <<>> /\ before.picks = <<>>
  BY DEF Closed
<1> HIDE DEF before
<1>5. DialogOK(before)
  <2>1. <<>> \in Seq(Selection) /\ <<>> \in Seq(Keys)
    OBVIOUS
  <2>2. QED
    BY <1>1, <1>3, <1>4, <2>1 DEF DialogOK
<1>6. QED
  BY <1>1, <1>2, <1>4, <1>5 DEF before

\* What is due are keys.
LEMMA DueAreKeys ==
  ASSUME IsDisk(disk), NEW file \in WorkflowFiles
  PROVE  /\ DOMAIN StepsDue(file) = DOMAIN NothingDue
         /\ StepsDue(file).asks \subseteq Keys /\ StepsDue(file).calls \subseteq Keys
<1>1. \A f \in Runs(file) : \A t \in Range(f.steps) : Key(f, t) \in Keys
  <2>1. \A f \in Runs(file) : f \in WorkflowFiles
    BY SpotsAreOfCalled
  <2>2. ASSUME NEW f \in WorkflowFiles, NEW t \in Range(f.steps) PROVE t \in Steps
    BY StepsAreListed DEF Range
  <2>3. QED
    BY <2>1, <2>2, StepHasAKey
<1>2. UNION {ModelSteps(f) : f \in Runs(file)} \subseteq Keys
  BY <1>1 DEF ModelSteps
<1>3. UNION {CallSteps(f) : f \in Runs(file)} \subseteq Keys
  BY <1>1 DEF CallSteps
<1>4. QED
  BY <1>2, <1>3 DEF StepsDue, NothingDue

\* A dialog with the answer for its step.
LEMMA PickedIsADialog ==
  ASSUME NEW d, DialogOK(d), d.pc = "model", NEW choice \in Models \cup {Inherit},
         NEW key, key = d.steps[d.at].key
  PROVE  /\ DialogOK(Answered(d, choice)) /\ Answered(d, choice).steps = d.steps
         /\ Answered(d, choice).asked = Append(d.asked, key)
<1> DEFINE picked == Answered(d, choice)
           picks == IF choice = Inherit THEN d.picks ELSE Append(d.picks, [key |-> key, model |-> choice])
           asked == Append(d.asked, key)
<1>1. key \in Keys
  BY DEF DialogOK
<1>2. picks \in Seq(Selection)
  <2>1. choice # Inherit => [key |-> key, model |-> choice] \in Selection
    BY <1>1 DEF Selection
  <2>2. d.picks \in Seq(Selection)
    BY DEF DialogOK
  <2>3. QED
    BY <2>1, <2>2
<1>3. asked \in Seq(Keys)
  <2>1. d.asked \in Seq(Keys)
    BY DEF DialogOK
  <2>2. QED
    BY <1>1, <2>1
<1>4. picked = [d EXCEPT !.asked = asked, !.picks = picks]
  BY DEF Answered
<1>5. DOMAIN d = {"pc", "listed", "steps", "at", "asked", "picks"}
  BY DEF DialogOK, Closed
<1> HIDE DEF picked, picks, asked
<1>6. /\ DOMAIN picked = DOMAIN d /\ picked.pc = d.pc /\ picked.listed = d.listed
      /\ picked.steps = d.steps /\ picked.at = d.at /\ picked.asked = asked /\ picked.picks = picks
  BY <1>4, <1>5
<1>7. DialogOK(picked)
  BY <1>2, <1>3, <1>6 DEF DialogOK
<1>8. QED
  BY <1>6, <1>7 DEF picked, asked

\* The types hold at first.
LEMMA TypesAtFirst ==
  ASSUME Init
  PROVE  TypeOK
<1>1. IsDisk(disk) /\ IsRuntime(runtime)
  BY DisksAssumption, RuntimesAssumption DEF Init
<1>2. DialogOK(dialog)
  BY ClosedIsADialog DEF Init
<1>3. DOMAIN chosen \subseteq Keys
  BY <1>1 DEF Init, IsRuntime
<1>4. edits \in 0..MaxEdits
  BY MaxEditsAssumption DEF Init
<1>5. MergingOK(merging)
  <2>1. /\ DOMAIN NotMerging = {"pc", "doc", "picks"} /\ NotMerging.pc = "idle"
        /\ NotMerging.doc = Blank /\ NotMerging.picks = <<>> /\ <<>> \in Seq(Selection)
    BY DEF NotMerging
  <2>2. QED
    BY <2>1, BlankIsARuntime DEF Init, MergingOK
<1>6. DOMAIN due = DOMAIN NothingDue /\ due.asks \subseteq Keys /\ due.calls \subseteq Keys
  BY DEF Init, NothingDue
<1>7. QED
  BY <1>1, <1>2, <1>3, <1>4, <1>5, <1>6 DEF Init, TypeOK, DialogOK, MergingOK

\* One step per action; each changes a few of the variables.
LEMMA TypesAreKept ==
  ASSUME TypeOK, [Next]_vars
  PROVE  TypeOK'
<1> USE DEF TypeOK, history
<1>1. Root \in {"found", "missing", "unasked"} /\ RootAfterListing \in {"unasked", "found", "missing"}
  BY DEF Root, RootAfterListing
<1>2. DialogOK(Closed) /\ DialogOK(dialog) /\ MergingOK(merging)
  BY ClosedIsADialog DEF DialogOK, MergingOK
<1>3. DOMAIN NothingDue = {"asks", "calls"} /\ NothingDue.asks = {} /\ NothingDue.calls = {}
  BY DEF NothingDue
<1>4. CASE OpenModels
  <2>1. DialogOK(dialog')
    <3>1. DialogOK([Closed EXCEPT !.pc = "workflow", !.listed = Listed(disk, Rooted)])
      BY ListedAreIds, ListingIsADialog
    <3>2. QED
      BY <1>4, <3>1, ClosedIsADialog DEF OpenModels
  <2>2. QED
    BY <1>1, <1>4, <2>1 DEF OpenModels, DialogOK
<1>5. CASE \E name \in Names : CollectSteps(name)
  <2>1. PICK name \in Names : CollectSteps(name)
    BY <1>5
  <2> DEFINE file == Called(disk, Rooted, name)
             steps == SelectableSteps(disk, Rooted, file)
             before == [Closed EXCEPT !.steps = steps]
             next == NextAsked(steps, NoSpot)
  <2>2. /\ DialogOK(dialog')
        /\ DOMAIN due' = DOMAIN NothingDue /\ due'.asks \subseteq Keys /\ due'.calls \subseteq Keys
    <3>1. CASE dialog' = Closed /\ due' = NothingDue
      BY <1>2, <1>3, <3>1
    <3>2. CASE Resolve(disk, Rooted, name) # NoLayer /\ dialog' = Asking(before, next) /\ due' = StepsDue(file)
      <4>1. file \in WorkflowFiles
        BY <3>2, CalledIsAFile
      <4> HIDE DEF file
      <4>2. DialogOK(before) /\ before.steps = steps /\ DOMAIN steps \subseteq Nat \X Nat
        BY <4>1, CollectedIsADialog
      <4>3. next \in DOMAIN steps \cup {NoSpot}
        <5>1. NoSpot \in Nat \X Nat
          BY DEF NoSpot
        <5>2. QED
          BY <4>2, <5>1, NextIsEarliest
      <4> HIDE DEF before, next, steps
      <4>4. DialogOK(Asking(before, next))
        BY <4>2, <4>3, AskingIsADialog
      <4>5. /\ DOMAIN StepsDue(file) = DOMAIN NothingDue
            /\ StepsDue(file).asks \subseteq Keys /\ StepsDue(file).calls \subseteq Keys
        BY <4>1, DueAreKeys
      <4>6. QED
        BY <3>2, <4>4, <4>5
    <3>3. QED
      BY <2>1, <3>1, <3>2 DEF CollectSteps
  <2>3. root' \in {"unasked", "found", "missing"}
    BY <1>1, <2>1 DEF CollectSteps
  <2>4. QED
    BY <2>1, <2>2, <2>3 DEF CollectSteps, DialogOK
<1>6. CASE \E choice \in Models \cup {Inherit} : PickModel(choice)
  <2>1. PICK choice \in Models \cup {Inherit} : PickModel(choice)
    BY <1>6
  <2> DEFINE picked == Answered(dialog, choice)
             next == NextAsked(dialog.steps, dialog.at)
  <2>2. dialog' = Asking(picked, next) /\ dialog.pc = "model"
    BY <2>1 DEF PickModel
  <2>3. DialogOK(picked) /\ picked.steps = dialog.steps
    BY <1>2, <2>2, PickedIsADialog
  <2>4. next \in DOMAIN dialog.steps \cup {NoSpot}
    <3>1. DOMAIN dialog.steps \subseteq Nat \X Nat /\ dialog.at \in Nat \X Nat
      BY <2>2
    <3>2. QED
      BY <3>1, NextIsEarliest
  <2> HIDE DEF picked, next
  <2>5. DialogOK(dialog')
    BY <2>2, <2>3, <2>4, AskingIsADialog
  <2>6. QED
    BY <2>1, <2>5 DEF PickModel, DialogOK
<1>7. CASE CancelModels
  BY <1>2, <1>3, <1>7 DEF CancelModels, DialogOK
<1>8. CASE ConfirmModels
  <2>1. edits' \in 0..MaxEdits /\ MergingOK(merging') /\ overlapped' \in BOOLEAN
    <3>1. CASE dialog.picks # <<>>
      <4>1. "here" \in Windows /\ dialog.picks \in Seq(Selection)
        BY DEF Windows
      <4>2. ReadRuntime("here", dialog.picks)
        BY <1>8, <3>1 DEF ConfirmModels
      <4>3. QED
        BY <3>1, <4>1, <4>2, ReadKeepsTypes
    <3>2. CASE dialog.picks = <<>>
      BY <1>2, <1>8, <3>2 DEF ConfirmModels
    <3>3. QED
      BY <3>1, <3>2
  <2>2. QED
    BY <1>2, <1>3, <1>8, <2>1 DEF ConfirmModels, DialogOK, MergingOK
<1>9. CASE \E pick \in OtherSelections : OtherWindowConfirms(pick)
  <2>1. PICK pick \in OtherSelections : OtherWindowConfirms(pick)
    BY <1>9
  <2>2. "other" \in Windows /\ <<pick>> \in Seq(Selection) /\ <<pick>> # <<>>
    BY OtherSelectionsAssumption DEF Windows
  <2>3. ReadRuntime("other", <<pick>>)
    BY <2>1 DEF OtherWindowConfirms
  <2>4. edits' \in 0..MaxEdits /\ MergingOK(merging') /\ overlapped' \in BOOLEAN
    BY <2>2, <2>3, ReadKeepsTypes
  <2>5. QED
    BY <2>1, <2>4 DEF OtherWindowConfirms, MergingOK
<1>10. CASE \E w \in Windows : TruncateRuntime(w)
  <2>1. PICK w \in Windows : TruncateRuntime(w)
    BY <1>10
  <2>2. IsRuntime(runtime') /\ MergingOK(merging')
    BY <2>1, TruncateKeepsTypes
  <2>3. QED
    BY <2>1, <2>2 DEF TruncateRuntime, MergingOK
<1>11. CASE \E w \in Windows : WriteRuntime(w)
  <2>1. PICK w \in Windows : WriteRuntime(w)
    BY <1>11
  <2>2. IsRuntime(runtime') /\ MergingOK(merging') /\ DOMAIN chosen' \subseteq Keys
    BY <2>1, WriteKeepsTypes
  <2>3. QED
    BY <2>1, <2>2 DEF WriteRuntime, MergingOK
<1>12. CASE OpenEnqueue
  <2>1. listed' \subseteq Ids
    BY <1>12, ListedAreIds DEF OpenEnqueue
  <2>2. QED
    BY <1>1, <1>12, <2>1 DEF OpenEnqueue
<1>13. ASSUME NEW id \in Ids, Enqueue(id)
       PROVE  root' \in {"unasked", "found", "missing"} /\ queued' \subseteq Ids
  BY <1>1, <1>13 DEF Enqueue
<1>14. CASE \E id \in Ids : EnqueuePicked(id)
  BY <1>13, <1>14 DEF EnqueuePicked, Enqueue
<1>15. CASE CancelEnqueue
  BY <1>15 DEF CancelEnqueue
<1>16. CASE \E id \in Ids : EnqueueDirective(id)
  BY <1>13, <1>16 DEF EnqueueDirective, Enqueue
<1>17. ASSUME Edit
       PROVE  edits' \in 0..MaxEdits
  BY <1>17, MaxEditsAssumption DEF Edit
<1>18. disk.files["project"] \in Seq(WorkflowFiles)
  BY DEF IsDisk, Layers
<1>19. CASE \E file \in NewFiles : WriteFile(file)
  <2>1. PICK file \in NewFiles : WriteFile(file)
    BY <1>19
  <2> DEFINE files == disk.files["project"]
             at == {i \in DOMAIN files : files[i].id = file.id /\ files[i].ext = file.ext}
  <2>2. PICK new \in IF at = {} THEN {<<file>> \o files, Append(files, file)}
                     ELSE {[files EXCEPT ![i] = file] : i \in at} :
          disk' = [disk EXCEPT !.files["project"] = new]
    BY <2>1 DEF WriteFile
  <2>3. file \in WorkflowFiles
    BY NewFilesAssumption
  <2>4. at \subseteq DOMAIN files /\ files \in Seq(WorkflowFiles)
    BY <1>18
  <2> HIDE DEF at, files
  <2>5. new \in Seq(WorkflowFiles)
    <3> HIDE DEF WorkflowFiles
    <3>1. new \in {<<file>> \o files, Append(files, file)} \/ new \in {[files EXCEPT ![i] = file] : i \in at}
      OBVIOUS
    <3>2. <<file>> \o files \in Seq(WorkflowFiles) /\ Append(files, file) \in Seq(WorkflowFiles)
      BY <2>3, <2>4
    <3>3. \A i \in at : [files EXCEPT ![i] = file] \in Seq(WorkflowFiles)
      BY <2>3, <2>4, ExceptSeq
    <3>4. QED
      BY <3>1, <3>2, <3>3
  <2>6. IsDisk(disk')
    BY <2>2, <2>5, ProjectFilesMayChange
  <2>7. QED
    BY <1>17, <2>1, <2>6 DEF WriteFile, Edit
<1>20. CASE \E i \in DOMAIN disk.files["project"] : RemoveFile(i)
  <2>1. PICK i \in DOMAIN disk.files["project"] : RemoveFile(i)
    BY <1>20
  <2> DEFINE files == disk.files["project"]
             new == RemoveAt(files, i)
  <2>2. disk' = [disk EXCEPT !.files["project"] = new]
    BY <2>1 DEF RemoveFile
  <2>3. files \in Seq(WorkflowFiles) /\ i \in 1..Len(files)
    BY <1>18
  <2> HIDE DEF files
  <2>4. new \in Seq(WorkflowFiles)
    <3>1. /\ SubSeq(files, 1, i - 1) \in Seq(WorkflowFiles)
          /\ SubSeq(files, i + 1, Len(files)) \in Seq(WorkflowFiles)
      BY <2>3, SubSeqProperties
    <3>2. QED
      BY <3>1, ConcatProperties DEF RemoveAt
  <2> HIDE DEF new
  <2>5. IsDisk(disk')
    BY <2>2, <2>4, ProjectFilesMayChange
  <2>6. QED
    BY <1>17, <2>1, <2>5 DEF RemoveFile, Edit
<1>21. CASE \E id \in Ids : ToggleBuiltin(id)
  <2>1. PICK id \in Ids : ToggleBuiltin(id)
    BY <1>21
  <2> DEFINE now == IF id \in disk.disabled THEN disk.disabled \ {id} ELSE disk.disabled \cup {id}
  <2>2. disk' = [disk EXCEPT !.disabled = now] /\ now \subseteq Ids
    BY <2>1 DEF ToggleBuiltin, IsDisk
  <2> HIDE DEF now
  <2>3. IsDisk(disk')
    BY <2>2 DEF IsDisk
  <2>4. QED
    BY <1>17, <2>1, <2>3 DEF ToggleBuiltin, Edit
<1>22. CASE InstallTakt
  BY <1>17, <1>22 DEF InstallTakt, Edit
<1>23. CASE UNCHANGED vars
  BY <1>23 DEF vars
<1>24. QED
  BY <1>4, <1>5, <1>6, <1>7, <1>8, <1>9, <1>10, <1>11, <1>12, <1>14, <1>15, <1>16, <1>19, <1>20,
     <1>21, <1>22, <1>23 DEF Next

-----------------------------------------------------------------------------
(* The dialogs                                                             *)

\* Spots are in a total order.
LEMMA SoonerIsAnOrder ==
  ASSUME NEW s \in Nat \X Nat, NEW t \in Nat \X Nat
  PROVE  /\ Sooner(s, t) \/ s = t \/ Sooner(t, s)
         /\ ~(Sooner(s, t) /\ Sooner(t, s)) /\ ~Sooner(s, s)
         /\ \A u \in Nat \X Nat : Sooner(s, t) /\ Sooner(t, u) => Sooner(s, u)
<1>1. s[1] \in Nat /\ s[2] \in Nat /\ t[1] \in Nat /\ t[2] \in Nat /\ s = <<s[1], s[2]>> /\ t = <<t[1], t[2]>>
  OBVIOUS
<1>2. Sooner(s, t) \/ s = t \/ Sooner(t, s)
  BY <1>1 DEF Sooner
<1>3. ~(Sooner(s, t) /\ Sooner(t, s)) /\ ~Sooner(s, s)
  BY <1>1 DEF Sooner
<1>4. \A u \in Nat \X Nat : Sooner(s, t) /\ Sooner(t, u) => Sooner(s, u)
  <2>1. ASSUME NEW u \in Nat \X Nat, Sooner(s, t), Sooner(t, u) PROVE Sooner(s, u)
    <3>1. u[1] \in Nat /\ u[2] \in Nat
      OBVIOUS
    <3>2. QED
      BY <1>1, <2>1, <3>1 DEF Sooner
  <2>2. QED
    BY <2>1
<1>5. QED
  BY <1>2, <1>3, <1>4

\* One more key that was not there.
LEMMA AnotherKey ==
  ASSUME NEW keys \in Seq(Keys), IsInjective(keys), NEW key \in Keys, key \notin ToSet(keys)
  PROVE  IsInjective(Append(keys, key)) /\ ToSet(Append(keys, key)) = ToSet(keys) \cup {key}
<1> DEFINE longer == Append(keys, key)
           n == Len(keys)
<1>1. /\ n \in Nat /\ DOMAIN keys = 1..n /\ DOMAIN longer = 1..(n + 1)
      /\ longer[n + 1] = key /\ \A i \in 1..n : longer[i] = keys[i]
  OBVIOUS
<1> HIDE DEF longer, n
<1>2. \A i \in 1..(n + 1) : i = n + 1 \/ i \in 1..n
  BY <1>1
<1>3. \A i \in 1..n : keys[i] # key
  BY <1>1 DEF ToSet
<1>4. IsInjective(longer)
  <2>1. \A i, j \in 1..n : keys[i] = keys[j] => i = j
    BY <1>1 DEF IsInjective
  <2>2. QED
    BY <1>1, <1>2, <1>3, <2>1 DEF IsInjective
<1>5. ToSet(longer) = ToSet(keys) \cup {key}
  <2>1. ToSet(longer) = {longer[i] : i \in 1..(n + 1)} /\ ToSet(keys) = {keys[i] : i \in 1..n}
    BY <1>1 DEF ToSet
  <2>2. \A k \in ToSet(longer) : k \in ToSet(keys) \cup {key}
    BY <1>1, <1>2, <2>1
  <2>3. \A k \in ToSet(keys) \cup {key} : k \in ToSet(longer)
    <3>1. \A i \in 1..n : i \in 1..(n + 1)
      BY <1>1
    <3>2. n + 1 \in 1..(n + 1)
      BY <1>1
    <3>3. QED
      BY <1>1, <2>1, <3>1, <3>2
  <2>4. QED
    BY <2>2, <2>3
<1>6. QED
  BY <1>4, <1>5 DEF longer

\* The steps that are asked for, and those of them before the one that is asked for now.
Askable(steps) == {s \in DOMAIN steps : ~steps[s].unresolved}
Passed(d) == {s \in Askable(d.steps) : d.pc = "confirm" \/ Sooner(s, d.at)}
KeysAt(steps, S) == {steps[s].key : s \in S}

\* The steps of the dialogs have keys of their own and are what is due.
StepsAreDue(steps, e) ==
  /\ \A s, t \in DOMAIN steps : steps[s].key = steps[t].key => s = t
  /\ AskedFor(steps) \subseteq e.asks /\ e.asks \ e.calls \subseteq AskedFor(steps)

\* What has been asked for is what comes before the step that is asked for now.
AskedInOrder(d, e) ==
  IF d.pc \in {"model", "confirm"}
    THEN /\ StepsAreDue(d.steps, e)
         /\ d.pc = "model" => d.at \in Askable(d.steps)
         /\ IsInjective(d.asked) /\ ToSet(d.asked) = KeysAt(d.steps, Passed(d))
    ELSE d.asked = <<>>

\* Going on to the next step, the dialog has asked for those up to the last one.
LEMMA AskingGoesOn ==
  ASSUME NEW d, DialogOK(d), NEW e, StepsAreDue(d.steps, e), NEW spot \in Nat \X Nat,
         NEW done, \A s : s \in done <=> s \in Askable(d.steps) /\ ~Sooner(spot, s),
         IsInjective(d.asked), ToSet(d.asked) = KeysAt(d.steps, done)
  PROVE  AskedInOrder(Asking(d, NextAsked(d.steps, spot)), e)
<1> DEFINE next == NextAsked(d.steps, spot)
           after == Asking(d, next)
           left == {s \in DOMAIN d.steps : Sooner(spot, s) /\ ~d.steps[s].unresolved}
<1>1. DOMAIN d.steps \subseteq Nat \X Nat
  BY DEF DialogOK
<1>2. (next = NoSpot <=> left = {}) /\ (next # NoSpot => next \in left /\ \A s \in left : ~Sooner(s, next))
  BY <1>1, NextIsEarliest
<1>3. \A s : s \in left <=> s \in Askable(d.steps) /\ s \notin done
  BY DEF Askable
<1>4. left \subseteq DOMAIN d.steps /\ (\A s \in left : Sooner(spot, s))
  OBVIOUS
<1> HIDE DEF left, next
<1>5. /\ after.pc = (IF next = NoSpot THEN "confirm" ELSE "model")
      /\ after.at = next /\ after.steps = d.steps /\ after.asked = d.asked
  BY <1>2, <1>4, AskingIsADialog
<1> HIDE DEF after
<1>6. Passed(after) = done
  <2>1. CASE next = NoSpot
    <3>1. Passed(after) = Askable(d.steps)
      BY <1>5, <2>1 DEF Passed
    <3>2. \A s : s \in done <=> s \in Askable(d.steps)
      BY <1>2, <1>3, <2>1
    <3>3. QED
      BY <3>1, <3>2
  <2>2. CASE next # NoSpot
    <3>1. \A s : s \in Passed(after) <=> s \in Askable(d.steps) /\ Sooner(s, next)
      BY <1>5, <2>2 DEF Passed
    <3>2. next \in Nat \X Nat /\ Sooner(spot, next)
      BY <1>1, <1>2, <1>4, <2>2
    <3>3. \A s \in Askable(d.steps) : s \in Nat \X Nat
      BY <1>1 DEF Askable
    <3>4. \A s \in done : Sooner(s, next)
      <4>1. ASSUME NEW s \in done PROVE Sooner(s, next)
        <5>1. s \in Nat \X Nat /\ ~Sooner(spot, s)
          BY <3>3
        <5>2. s = spot \/ Sooner(s, spot)
          BY <5>1, SoonerIsAnOrder
        <5>3. QED
          BY <3>2, <5>1, <5>2, SoonerIsAnOrder
      <4>2. QED
        BY <4>1
    <3>5. \A s \in Askable(d.steps) : s \notin done => ~Sooner(s, next)
      BY <1>2, <1>3, <2>2
    <3>6. QED
      BY <3>1, <3>4, <3>5
  <2>3. QED
    BY <2>1, <2>2
<1>7. after.pc = "model" => after.at \in Askable(d.steps)
  BY <1>2, <1>3, <1>5
<1>8. AskedInOrder(after, e)
  BY <1>5, <1>6, <1>7 DEF AskedInOrder
<1>9. QED
  BY <1>8 DEF after, next

\* An answer for the step that is asked for.
LEMMA AnswerGoesOn ==
  ASSUME NEW d, DialogOK(d), d.pc = "model", NEW e, AskedInOrder(d, e), NEW choice \in Models \cup {Inherit}
  PROVE  AskedInOrder(Asking(Answered(d, choice), NextAsked(d.steps, d.at)), e)
<1> DEFINE key == d.steps[d.at].key
           now == Answered(d, choice)
           done == Passed(d) \cup {d.at}
<1>1. DialogOK(now) /\ now.steps = d.steps /\ now.asked = Append(d.asked, key)
  BY PickedIsADialog
<1>2. /\ StepsAreDue(d.steps, e) /\ d.at \in Askable(d.steps)
      /\ IsInjective(d.asked) /\ ToSet(d.asked) = KeysAt(d.steps, Passed(d))
  BY DEF AskedInOrder
<1>3. \A s \in Askable(d.steps) : s \in DOMAIN d.steps /\ s \in Nat \X Nat
  BY DEF Askable, DialogOK
<1>4. \A s : s \in Passed(d) <=> s \in Askable(d.steps) /\ Sooner(s, d.at)
  BY DEF Passed
<1>5. \A s : s \in done <=> s \in Askable(d.steps) /\ ~Sooner(d.at, s)
  BY <1>2, <1>3, <1>4, SoonerIsAnOrder
<1>6. d.at \notin Passed(d) /\ Passed(d) \subseteq DOMAIN d.steps /\ d.at \in DOMAIN d.steps
  BY <1>2, <1>3, <1>4, SoonerIsAnOrder
<1>7. key \notin ToSet(d.asked)
  BY <1>2, <1>6 DEF StepsAreDue, KeysAt
<1>8. KeysAt(d.steps, done) = KeysAt(d.steps, Passed(d)) \cup {key}
  BY DEF KeysAt
<1>9. key \in Keys /\ d.asked \in Seq(Keys)
  BY <1>6 DEF DialogOK
<1> HIDE DEF key, now, done
<1>10. IsInjective(now.asked) /\ ToSet(now.asked) = KeysAt(d.steps, done)
  BY <1>1, <1>2, <1>7, <1>8, <1>9, AnotherKey
<1>11. d.at \in Nat \X Nat
  BY <1>2, <1>3
<1>12. AskedInOrder(Asking(now, NextAsked(now.steps, d.at)), e)
  BY <1>1, <1>2, <1>5, <1>10, <1>11, AskingGoesOn
<1>13. QED
  BY <1>1, <1>12 DEF now

\* The first step.
LEMMA CollectedGoesOn ==
  ASSUME IsDisk(disk), NEW file \in WorkflowFiles,
         NEW steps, steps = SelectableSteps(disk, Rooted, file)
  PROVE  AskedInOrder(Asking([Closed EXCEPT !.steps = steps], NextAsked(steps, NoSpot)), StepsDue(file))
<1> DEFINE d == [Closed EXCEPT !.steps = steps]
           e == StepsDue(file)
<1>1. /\ DialogOK(d) /\ d.steps = steps /\ d.asked = <<>>
      /\ DOMAIN steps \subseteq Nat \X Nat /\ \A s \in DOMAIN steps : s[1] # 0
  BY CollectedIsADialog
<1>2. StepsAreDue(steps, e)
  BY DueIsAskedFor, SelectableAre DEF StepsAreDue
<1>3. NoSpot \in Nat \X Nat /\ \A s \in DOMAIN steps : Sooner(NoSpot, s)
  BY <1>1 DEF Sooner, NoSpot
<1>4. IsInjective(<<>>) /\ ToSet(<<>>) = {} /\ KeysAt(steps, {}) = {}
  BY DEF IsInjective, ToSet, KeysAt
<1>5. \A s : s \in {} <=> s \in Askable(steps) /\ ~Sooner(NoSpot, s)
  BY <1>3 DEF Askable
<1> HIDE DEF d, e
<1>6. AskedInOrder(Asking(d, NextAsked(d.steps, NoSpot)), e)
  BY <1>1, <1>2, <1>3, <1>4, <1>5, AskingGoesOn
<1>7. QED
  BY <1>1, <1>6 DEF d, e

\* The dialogs go on in order, step by step.
LEMMA AskedStaysInOrder ==
  ASSUME TypeOK, AskedInOrder(dialog, due), [Next]_vars
  PROVE  AskedInOrder(dialog', due')
<1>1. \A e : AskedInOrder(Closed, e)
  BY DEF AskedInOrder, Closed
<1>2. CASE OpenModels
  <2>1. \A ids, e : AskedInOrder([Closed EXCEPT !.pc = "workflow", !.listed = ids], e)
    BY DEF AskedInOrder, Closed
  <2>2. QED
    BY <1>1, <1>2, <2>1 DEF OpenModels
<1>3. CASE \E name \in Names : CollectSteps(name)
  <2>1. PICK name \in Names : CollectSteps(name)
    BY <1>3
  <2> DEFINE file == Called(disk, Rooted, name)
             steps == SelectableSteps(disk, Rooted, file)
             after == Asking([Closed EXCEPT !.steps = steps], NextAsked(steps, NoSpot))
  <2>2. \/ dialog' = Closed
        \/ Resolve(disk, Rooted, name) # NoLayer /\ dialog' = after /\ due' = StepsDue(file)
    BY <2>1 DEF CollectSteps
  <2>3. ASSUME Resolve(disk, Rooted, name) # NoLayer
        PROVE  AskedInOrder(after, StepsDue(file))
    <3>1. file \in WorkflowFiles /\ IsDisk(disk)
      BY <2>3, CalledIsAFile DEF TypeOK
    <3> HIDE DEF file
    <3>2. QED
      BY <3>1, CollectedGoesOn
  <2> HIDE DEF file, steps, after
  <2>4. QED
    BY <1>1, <2>2, <2>3
<1>4. CASE \E choice \in Models \cup {Inherit} : PickModel(choice)
  <2>1. PICK choice \in Models \cup {Inherit} : PickModel(choice)
    BY <1>4
  <2>2. DialogOK(dialog)
    BY DEF TypeOK, DialogOK
  <2>3. QED
    BY <2>1, <2>2, AnswerGoesOn DEF PickModel, history
<1>5. CASE CancelModels \/ ConfirmModels
  BY <1>1, <1>5 DEF CancelModels, ConfirmModels
<1>6. CASE UNCHANGED <<dialog, due>>
  BY <1>6
<1>7. QED
  BY <1>2, <1>3, <1>4, <1>5, <1>6
     DEF Next, vars, history, OtherWindowConfirms, TruncateRuntime, WriteRuntime, OpenEnqueue, EnqueuePicked,
         Enqueue, CancelEnqueue, EnqueueDirective, WriteFile, RemoveFile, ToggleBuiltin, InstallTakt, Edit

-----------------------------------------------------------------------------
(* Choices                                                                 *)

\* The target of a step that was chosen for is a profile by hand, with what was chosen, or
\* one of the bridge, which stands for a model of that profile, as the chosen one is.
TargetsHold(file, choices) ==
  \A key \in DOMAIN choices :
    /\ key \in DOMAIN file.steps
    /\ LET name == file.steps[key]
           model == file.profiles[name]
       IN  IF name \in BridgeNames
             THEN /\ choices[key] \in Models /\ ProfileName[choices[key]] = name
                  /\ model \in Models /\ ProfileName[model] = name
             ELSE model = choices[key]

\* While the windows merge one at a time, the file holds the choices, or is about to.
ChosenBy(picks) == Over(Picked(picks), chosen)
ChoicesHold ==
  ~overlapped =>
    /\ \A v, w \in Windows : merging[v].pc # "idle" /\ merging[w].pc # "idle" => v = w
    /\ (\A w \in Windows : merging[w].pc # "truncated") => TargetsHold(runtime, chosen)
    /\ \A w \in Windows :
         /\ merging[w].pc # "idle" => TargetsHold(merging[w].doc, ChosenBy(merging[w].picks))
         /\ merging[w].pc = "truncated" => runtime = Blank

\* A bridge's profile that is written again still stands for a model that it is named for.
LEMMA ApplyKeepsTargets ==
  ASSUME NEW file, IsRuntime(file), NEW choices, TargetsHold(file, choices), NEW picks \in Seq(Selection)
  PROVE  TargetsHold(Apply(file, picks), Over(Picked(picks), choices))
<1> DEFINE after == Apply(file, picks)
           then == Over(Picked(picks), choices)
           new == PickedProfiles(picks)
<1>1. after.profiles = Over(new, file.profiles) /\ after.steps = Over(PickedSteps(picks), file.steps)
  BY ApplyIs
<1>2. /\ \A n \in DOMAIN new : after.profiles[n] = new[n]
      /\ \A n \in DOMAIN file.profiles : n \notin DOMAIN new => after.profiles[n] = file.profiles[n]
  BY <1>1 DEF Over
<1>3. /\ DOMAIN after.steps = DOMAIN Picked(picks) \cup DOMAIN file.steps
      /\ \A k \in DOMAIN Picked(picks) : after.steps[k] = ProfileName[Picked(picks)[k]]
      /\ \A k \in DOMAIN file.steps : k \notin DOMAIN Picked(picks) => after.steps[k] = file.steps[k]
  BY <1>1 DEF Over, PickedSteps
<1>4. /\ DOMAIN then = DOMAIN Picked(picks) \cup DOMAIN choices
      /\ \A k \in DOMAIN Picked(picks) : then[k] = Picked(picks)[k]
      /\ \A k \in DOMAIN choices : k \notin DOMAIN Picked(picks) => then[k] = choices[k]
  BY DEF Over
<1>5. /\ \A n \in DOMAIN new : new[n] \in Models /\ ProfileName[new[n]] = n
      /\ \A k \in DOMAIN Picked(picks) :
           Picked(picks)[k] \in Models /\ ProfileName[Picked(picks)[k]] \in DOMAIN new
  BY PicksAre
<1>6. \A m \in Models : ProfileName[m] \in BridgeNames
  BY ProfileNameAssumption DEF BridgeNames, Range
<1>7. \A k \in DOMAIN file.steps : file.steps[k] \in DOMAIN file.profiles
  BY DEF IsRuntime, Range
<1> HIDE DEF after, then, new
<1>8. ASSUME NEW key \in DOMAIN then
      PROVE  /\ key \in DOMAIN after.steps
             /\ IF after.steps[key] \in BridgeNames
                  THEN /\ then[key] \in Models /\ ProfileName[then[key]] = after.steps[key]
                       /\ after.profiles[after.steps[key]] \in Models
                       /\ ProfileName[after.profiles[after.steps[key]]] = after.steps[key]
                  ELSE after.profiles[after.steps[key]] = then[key]
  <2>1. CASE key \in DOMAIN Picked(picks)
    BY <1>2, <1>3, <1>4, <1>5, <1>6, <2>1
  <2>2. CASE key \notin DOMAIN Picked(picks)
    <3> DEFINE name == file.steps[key]
    <3>1. /\ key \in DOMAIN choices /\ then[key] = choices[key]
          /\ key \in DOMAIN file.steps /\ key \in DOMAIN after.steps /\ after.steps[key] = name
          /\ name \in DOMAIN file.profiles
      BY <1>3, <1>4, <1>7, <2>2 DEF TargetsHold
    <3>2. IF name \in BridgeNames
            THEN /\ choices[key] \in Models /\ ProfileName[choices[key]] = name
                 /\ file.profiles[name] \in Models /\ ProfileName[file.profiles[name]] = name
            ELSE file.profiles[name] = choices[key]
      BY <3>1 DEF TargetsHold
    <3> HIDE DEF name
    <3>3. CASE name \in DOMAIN new
      BY <1>2, <1>5, <1>6, <3>1, <3>2, <3>3
    <3>4. CASE name \notin DOMAIN new
      BY <1>2, <3>1, <3>2, <3>4
    <3>5. QED
      BY <3>3, <3>4
  <2>3. QED
    BY <2>1, <2>2
<1>9. TargetsHold(after, then)
  BY <1>8 DEF TargetsHold
<1>10. QED
  BY <1>9 DEF after, then

\* At first the targets of the file are what was chosen.
LEMMA ChoicesHoldAtFirst ==
  ASSUME Init
  PROVE  ChoicesHold
<1>1. TargetsHold(runtime, chosen)
  BY DEF Init, TargetsHold, ModelOf, IsChoice
<1>2. \A w \in Windows : merging[w].pc = "idle"
  BY DEF Init, NotMerging
<1>3. QED
  BY <1>1, <1>2 DEF ChoicesHold

\* A window that reads the file merges into it what was chosen before.
LEMMA ReadKeepsChoices ==
  ASSUME TypeOK, ChoicesHold, NEW w \in Windows, NEW picks \in Seq(Selection), ReadRuntime(w, picks),
         UNCHANGED <<runtime, chosen>>
  PROVE  ChoicesHold'
<1>1. CASE ~runtime.valid
  BY <1>1 DEF ReadRuntime, ChoicesHold, ChosenBy
<1>2. CASE runtime.valid
  <2> DEFINE doc == Apply(runtime, picks)
             now == [pc |-> "merging", doc |-> doc, picks |-> picks]
  <2>1. /\ merging' = [merging EXCEPT ![w] = now]
        /\ overlapped' = (overlapped \/ \E v \in Windows \ {w} : merging[v].pc # "idle")
        /\ merging[w].pc = "idle"
    BY <1>2 DEF ReadRuntime
  <2>2. SUFFICES ASSUME ~overlapped'
                 PROVE  /\ \A v, u \in Windows : merging'[v].pc # "idle" /\ merging'[u].pc # "idle" => v = u
                        /\ TargetsHold(runtime', chosen')
                        /\ \A v \in Windows :
                             /\ merging'[v].pc # "idle" =>
                                  TargetsHold(merging'[v].doc, Over(Picked(merging'[v].picks), chosen'))
                             /\ merging'[v].pc = "truncated" => runtime' = Blank
    BY DEF ChoicesHold, ChosenBy
  <2>3. ~overlapped /\ \A v \in Windows : merging[v].pc = "idle"
    BY <2>1, <2>2
  <2>4. TargetsHold(runtime, chosen)
    BY <2>3 DEF ChoicesHold
  <2>5. TargetsHold(doc, Over(Picked(picks), chosen))
    BY <2>4, ApplyKeepsTargets DEF TypeOK
  <2>6. now.pc = "merging" /\ now.doc = doc /\ now.picks = picks
    OBVIOUS
  <2>7. merging'[w] = now /\ \A v \in Windows : v # w => merging'[v] = merging[v]
    BY <2>1 DEF TypeOK
  <2> HIDE DEF doc, now
  <2>8. \A v \in Windows : v # w => merging'[v].pc = "idle"
    BY <2>3, <2>7
  <2>9. QED
    BY <2>4, <2>5, <2>6, <2>7, <2>8
<1>3. QED
  BY <1>1, <1>2 DEF TypeOK, IsRuntime

\* One that opens it for writing is the only one.
LEMMA TruncateKeepsChoices ==
  ASSUME TypeOK, ChoicesHold, NEW w \in Windows, TruncateRuntime(w)
  PROVE  ChoicesHold'
<1> DEFINE now == [merging[w] EXCEPT !.pc = "truncated"]
<1>1. merging' = [merging EXCEPT ![w] = now] /\ merging[w].pc = "merging"
  BY DEF TruncateRuntime, TypeOK
<1>2. now.pc = "truncated" /\ now.doc = merging[w].doc /\ now.picks = merging[w].picks
  BY DEF TypeOK, NotMerging
<1>3. merging'[w] = now /\ \A v \in Windows : v # w => merging'[v] = merging[v]
  BY <1>1 DEF TypeOK
<1>4. runtime' = Blank /\ chosen' = chosen /\ overlapped' = overlapped
  BY DEF TruncateRuntime, history
<1> HIDE DEF now
<1>5. ASSUME ~overlapped
      PROVE  /\ TargetsHold(merging[w].doc, ChosenBy(merging[w].picks))
             /\ \A v \in Windows : v # w => merging[v].pc = "idle"
  BY <1>1, <1>5 DEF ChoicesHold
<1>6. QED
  BY <1>2, <1>3, <1>4, <1>5 DEF ChoicesHold, ChosenBy

\* And it writes what holds the choices.
LEMMA WriteKeepsChoices ==
  ASSUME TypeOK, ChoicesHold, NEW w \in Windows, WriteRuntime(w)
  PROVE  ChoicesHold'
<1>1. merging'[w] = NotMerging /\ \A v \in Windows : v # w => merging'[v] = merging[v]
  BY DEF WriteRuntime, TypeOK
<1>2. chosen' = ChosenBy(merging[w].picks) /\ overlapped' = overlapped /\ merging[w].pc = "truncated"
  BY DEF WriteRuntime, ChosenBy
<1>3. ASSUME ~overlapped
      PROVE  /\ TargetsHold(merging[w].doc, ChosenBy(merging[w].picks)) /\ runtime = Blank
             /\ \A v \in Windows : v # w => merging[v].pc = "idle"
  BY <1>2, <1>3 DEF ChoicesHold
<1>4. ASSUME ~overlapped PROVE runtime' = merging[w].doc
  BY <1>3, <1>4 DEF WriteRuntime
<1>5. NotMerging.pc = "idle"
  BY DEF NotMerging
<1>6. QED
  BY <1>1, <1>2, <1>3, <1>4, <1>5 DEF ChoicesHold

\* Only reads and writes of the file concern the choices.
LEMMA ChoicesStay ==
  ASSUME TypeOK, ChoicesHold, [Next]_vars
  PROVE  ChoicesHold'
<1>1. CASE ConfirmModels
  <2>1. CASE dialog.picks # <<>>
    <3>1. "here" \in Windows /\ dialog.picks \in Seq(Selection)
      BY DEF Windows, TypeOK
    <3>2. ReadRuntime("here", dialog.picks) /\ UNCHANGED <<runtime, chosen>>
      BY <1>1, <2>1 DEF ConfirmModels
    <3>3. QED
      BY <3>1, <3>2, ReadKeepsChoices
  <2>2. CASE dialog.picks = <<>>
    BY <1>1, <2>2 DEF ConfirmModels, ChoicesHold, ChosenBy
  <2>3. QED
    BY <2>1, <2>2
<1>2. CASE \E pick \in OtherSelections : OtherWindowConfirms(pick)
  <2>1. PICK pick \in OtherSelections : OtherWindowConfirms(pick)
    BY <1>2
  <2>2. "other" \in Windows /\ <<pick>> \in Seq(Selection)
    BY OtherSelectionsAssumption DEF Windows
  <2>3. ReadRuntime("other", <<pick>>) /\ UNCHANGED <<runtime, chosen>>
    BY <2>1 DEF OtherWindowConfirms
  <2>4. QED
    BY <2>2, <2>3, ReadKeepsChoices
<1>3. CASE \E w \in Windows : TruncateRuntime(w)
  BY <1>3, TruncateKeepsChoices
<1>4. CASE \E w \in Windows : WriteRuntime(w)
  BY <1>4, WriteKeepsChoices
<1>5. CASE UNCHANGED <<runtime, merging, chosen, overlapped>>
  BY <1>5 DEF ChoicesHold, ChosenBy
<1>6. QED
  BY <1>1, <1>2, <1>3, <1>4, <1>5
     DEF Next, vars, history, OpenModels, CollectSteps, PickModel, CancelModels, OpenEnqueue, EnqueuePicked,
         Enqueue, CancelEnqueue, EnqueueDirective, WriteFile, RemoveFile, ToggleBuiltin, InstallTakt, Edit

-----------------------------------------------------------------------------
(* Theorems                                                                *)

\* The state keeps its types.
THEOREM TypesAlwaysOK == Spec => []TypeOK
<1>1. Init => TypeOK
  BY TypesAtFirst
<1>2. TypeOK /\ [Next]_vars => TypeOK'
  BY TypesAreKept
<1>3. QED
  BY <1>1, <1>2, PTL DEF Spec

\* An id that has one entry in a layer, which is a file with an extension in small letters, is
\* in the catalog just if resolveWorkflowFilePath finds a file for it that can be run on its
\* own, and it is the same file.
THEOREM CatalogAlwaysAgreesWithResolver == Spec => []CatalogResolves
<1>1. TypeOK => CatalogResolves
  BY CatalogAlwaysResolves DEF TypeOK
<1>2. QED
  BY <1>1, TypesAlwaysOK, PTL

\* The category an entry of the catalog names, by collectWorkflowCategoryPaths, is one of
\* those filterCategoryTree shows it in, whenever the others are shown.
THEOREM CategoriesAlwaysShowTheirEntries == Spec => []CategoriesAgree
<1>1. TypeOK => CategoriesAgree
  BY CategoriesAlwaysAgree DEF TypeOK
<1>2. QED
  BY <1>1, TypesAlwaysOK, PTL

\* Whatever the files, the dialogs of /takt:models ask once for each step that can have a model,
\* of the workflow and of those it calls; and before the confirmation they have asked for all of
\* them, but those that share their key with a call.
THEOREM EveryStepIsAlwaysAsked == Spec => []EveryStepIsAsked
<1>1. Init => AskedInOrder(dialog, due)
  BY DEF Init, AskedInOrder, Closed
<1>2. TypeOK /\ AskedInOrder(dialog, due) /\ [Next]_vars => AskedInOrder(dialog, due)'
  BY AskedStaysInOrder
<1>3. AskedInOrder(dialog, due) => EveryStepIsAsked
  <2>1. SUFFICES ASSUME AskedInOrder(dialog, due)
                 PROVE  EveryStepIsAsked
    OBVIOUS
  <2>2. CASE dialog.pc \in {"model", "confirm"}
    <3>1. KeysAt(dialog.steps, Passed(dialog)) \subseteq AskedFor(dialog.steps)
      BY DEF KeysAt, Passed, Askable, AskedFor
    <3>2. dialog.pc = "confirm" => KeysAt(dialog.steps, Passed(dialog)) = AskedFor(dialog.steps)
      BY DEF KeysAt, Passed, Askable, AskedFor
    <3>3. QED
      BY <2>1, <2>2, <3>1, <3>2 DEF AskedInOrder, StepsAreDue, EveryStepIsAsked
  <2>3. CASE dialog.pc \notin {"model", "confirm"}
    BY <2>1, <2>3 DEF AskedInOrder, EveryStepIsAsked, IsInjective, ToSet
  <2>4. QED
    BY <2>2, <2>3
<1>4. QED
  BY <1>1, <1>2, <1>3, TypesAlwaysOK, PTL DEF Spec

\* As long as the windows have not been merging at the same time, TAKT gives every step the
\* model last chosen for it, or one whose profile has the same name; whatever the models, their
\* profiles and the file by hand.
THEOREM ChoicesAlwaysTakeEffect == Spec => []ChoicesTakeEffect
<1>1. Init => ChoicesHold
  BY ChoicesHoldAtFirst
<1>2. TypeOK /\ ChoicesHold /\ [Next]_vars => ChoicesHold'
  BY ChoicesStay
<1>3. ChoicesHold => ChoicesTakeEffect
  BY DEF ChoicesHold, TargetsHold, ChoicesTakeEffect, ModelOf
<1>4. QED
  BY <1>1, <1>2, <1>3, TypesAlwaysOK, PTL DEF Spec
=============================================================================
