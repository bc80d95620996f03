-------------------------- MODULE WorkflowCatalog --------------------------
(***************************************************************************)
(* Which workflows of TAKT a project has, and which of their steps can be  *)
(* given a model (lib/takt-workflow-catalog.ts, lib/takt-workflow-steps.ts)*)
(* as functions of what is on the disk:                                    *)
(*   disk.files[l]   the directory of layer l: its workflow files, in the  *)
(*                   order in which readdir has them                       *)
(*   disk.enabled    builtin workflows are enabled                         *)
(*   disk.disabled   builtins disabled one by one                          *)
(*   disk.own, disk.shipped   the operator's and TAKT's category overlays: *)
(*     whether the file is valid, its nodes in preorder (path and          *)
(*     workflows), and show_others_category                                *)
(* rooted says that TAKT's installation was located.  A file has an id and *)
(* an extension, the name it declares, its steps and whether it is a       *)
(* mapping, and callable stands for callable or internal.  Texts and       *)
(* descriptions are not modelled.  The file system tells cases apart.      *)
(***************************************************************************)
EXTENDS Naturals, Sequences, SequencesExt, FiniteSetsExt

CONSTANTS
  Ids,         \* workflow ids: names of files without their extension
  IdOf,        \* sanitizeWorkflowName: the id each name stands for, if any
  StepNames    \* names of steps

Layers == {"project", "user", "builtin"}
NoLayer == "none"
NoId == "no id"
NoTarget == "no target"
Others == <<"Others">>

\* What the operator or a call may name a workflow by.
Names == DOMAIN IdOf

ASSUME NamesAssumption ==
  /\ Ids \subseteq Names /\ NoTarget \notin Names /\ NoId \notin Ids
  /\ \A name \in Names : IdOf[name] \in Ids \cup {NoId}

\* What is on a disk.  "YAML" stands for an extension that is not in small letters; a link
\* leads to a file, and a directory has the name of one.  A file may declare a name that is
\* no id.
Extensions == {"yaml", "yml", "YAML"}
Kinds == {"file", "link", "directory"}
FileNames == Ids \cup {"renamed"}
Steps ==
  [name: StepNames, kind: {"agent", "system"}]
  \cup [name: StepNames, kind: {"workflow_call"}, call: Names \cup {NoTarget}]
WorkflowFiles ==
  [id: Ids, ext: Extensions, kind: Kinds,
   name: FileNames, mapping: BOOLEAN, callable: BOOLEAN, steps: Seq(Steps)]
CategoryFiles ==
  [valid: BOOLEAN, nodes: Seq([path: Seq(STRING), workflows: SUBSET Ids]), others: {"unset", "yes", "no"}]

IsDisk(disk) ==
  /\ DOMAIN disk = {"files", "enabled", "disabled", "own", "shipped"} /\ DOMAIN disk.files = Layers
  /\ \A l \in Layers : disk.files[l] \in Seq(WorkflowFiles)
  /\ disk.enabled \in BOOLEAN /\ disk.disabled \subseteq Ids
  /\ disk.own \in CategoryFiles /\ disk.shipped \in CategoryFiles

\* The entries of one table over those of another.
Over(new, old) ==
  [k \in DOMAIN new \cup DOMAIN old |-> IF k \in DOMAIN new THEN new[k] ELSE old[k]]

\* A directory is no file that can be read.
IsMapping(file) == file.mapping /\ file.kind # "directory"
Standalone(file) == IsMapping(file) /\ ~file.callable

-----------------------------------------------------------------------------
(* Two ways to a file *)

\* listWorkflowFiles: the entries that are files, whatever the case of their extension.
ListedAt(files, id) == {i \in DOMAIN files : files[i].id = id /\ files[i].kind = "file"}

\* findWorkflowFileInDir: what has the name, be it a link or a directory; .yaml before .yml.
FoundAt(files, id) ==
  LET At(ext) == {i \in DOMAIN files : files[i].id = id /\ files[i].ext = ext}
  IN  IF At("yaml") # {} THEN At("yaml") ELSE At("yml")

\* The files of a layer: TAKT's own count only when they are enabled and located.
FilesOf(disk, rooted, l) ==
  IF l = "builtin" /\ ~(disk.enabled /\ rooted) THEN <<>> ELSE disk.files[l]

\* The ids a layer offers.
Offered(disk, rooted, l) ==
  {id \in Ids : ListedAt(FilesOf(disk, rooted, l), id) # {}} \ (IF l = "builtin" THEN disk.disabled ELSE {})

\* MUTANT: the layers are searched from the other end.
FirstLayerBackwards(offers) ==
  IF "builtin" \in offers THEN "builtin"
  ELSE IF "user" \in offers THEN "user"
  ELSE IF "project" \in offers THEN "project" ELSE NoLayer

\* Project before user before builtin.
FirstLayer(offers) ==
  IF "project" \in offers THEN "project"
  ELSE IF "user" \in offers THEN "user"
  ELSE IF "builtin" \in offers THEN "builtin" ELSE NoLayer

\* Neither the project nor the user has the name: TAKT's installation is asked for.
ReachesBuiltins(disk, name) ==
  /\ disk.enabled /\ IdOf[name] # NoId
  /\ FoundAt(disk.files["project"], IdOf[name]) = {} /\ FoundAt(disk.files["user"], IdOf[name]) = {}

\* resolveWorkflowFilePath: the layer a name is found in.
Resolve(disk, rooted, name) ==
  LET id == IdOf[name]
  IN  IF id = NoId THEN NoLayer
      ELSE IF FoundAt(disk.files["project"], id) # {} THEN "project"
      ELSE IF FoundAt(disk.files["user"], id) # {} THEN "user"
      ELSE IF disk.enabled /\ rooted /\ FoundAt(disk.files["builtin"], id) # {} /\ id \notin disk.disabled
        THEN "builtin" ELSE NoLayer

\* The file a name is resolved to.
Called(disk, rooted, name) ==
  LET files == disk.files[Resolve(disk, rooted, name)]
  IN  files[Min(FoundAt(files, IdOf[name]))]

-----------------------------------------------------------------------------
(* The catalog *)

\* collectEffectiveLayer, layer after layer: the first to offer an id keeps it.
Effective(disk, rooted) ==
  [id \in UNION {Offered(disk, rooted, l) : l \in Layers} |->
    FirstLayer({l \in Layers : id \in Offered(disk, rooted, l)})]

\* The file it keeps: the first of the layer.
EffectiveFile(disk, rooted, id) ==
  LET files == disk.files[Effective(disk, rooted)[id]]
  IN  files[Min(ListedAt(files, id))]

\* The ids the catalog lists.  A file that cannot be read hides the id in later layers.
Listed(disk, rooted) ==
  {id \in DOMAIN Effective(disk, rooted) : Standalone(EffectiveFile(disk, rooted, id))}

\* What pushes to errors.
Failed(disk, rooted) ==
  \/ disk.enabled /\ ~rooted
  \/ \E id \in DOMAIN Effective(disk, rooted) : ~IsMapping(EffectiveFile(disk, rooted, id))
  \/ ~disk.own.valid
  \/ disk.enabled /\ rooted /\ ~disk.shipped.valid

\* catalog.ready, without which assertWorkflowCatalogReady throws.
Ready(disk, rooted) == ~Failed(disk, rooted) /\ Listed(disk, rooted) # {}

\* loadCategoryOverlayIfPresent: a file that cannot be used counts as absent.
NoOverlay == [valid |-> TRUE, nodes |-> <<>>, others |-> "unset"]
Overlay(file) == IF file.valid THEN file ELSE NoOverlay

\* TAKT's categories, unless the builtins are disabled or not located.
Shipped(disk, rooted) ==
  IF disk.enabled /\ rooted THEN Overlay(disk.shipped) ELSE NoOverlay

\* loadCategoryConfig: TAKT's categories go below the operator's, if there are any.
Nodes(disk, rooted) ==
  LET own == Overlay(disk.own).nodes
      shipped == Shipped(disk, rooted).nodes
  IN  IF own = <<>> THEN shipped
      ELSE own \o [i \in DOMAIN shipped |-> [shipped[i] EXCEPT !.path = <<"builtin">> \o @]]

\* filterCategoryTree, as the pairs of a path and a workflow it keeps.
Tree(disk, rooted) ==
  LET nodes == Nodes(disk, rooted)
  IN  UNION {{nodes[i].path} \X (nodes[i].workflows \cap Listed(disk, rooted)) : i \in DOMAIN nodes}

ShowOthers(disk, rooted) ==
  LET own == Overlay(disk.own).others
      shipped == Shipped(disk, rooted).others
  IN  IF own # "unset" THEN own = "yes" ELSE shipped # "no"

Uncategorized(disk, rooted) == Listed(disk, rooted) \ {pair[2] : pair \in Tree(disk, rooted)}

\* The categories of the answer, with those nothing else lists at the end.
Categories(disk, rooted) ==
  Tree(disk, rooted) \cup
  (IF ShowOthers(disk, rooted) THEN {<<Others, id>> : id \in Uncategorized(disk, rooted)} ELSE {})

\* MUTANT: ids that TAKT's own categories list have none.
CategoryOfOwn(disk, rooted, id) ==
  LET nodes == Overlay(disk.own).nodes
      at == {i \in DOMAIN nodes : id \in nodes[i].workflows}
  IN  IF at = {} THEN Others ELSE nodes[Max(at)].path

\* collectWorkflowCategoryPaths: the last node that lists an id wins; ids that are in none
\* get the category of the others, whether it is shown or not.
CategoryOf(disk, rooted, id) ==
  LET nodes == Nodes(disk, rooted)
      at == {i \in DOMAIN nodes : id \in nodes[i].workflows}
  IN  IF at = {} THEN Others
      ELSE nodes[Max(at)].path

-----------------------------------------------------------------------------
(* The steps of a workflow, one level of calls deep *)

Key(file, step) == <<file.name, step.name>>

\* A call that names a workflow.
HasTarget(step) == step.kind = "workflow_call" /\ step.call # NoTarget

\* A step as the selection sees it; unresolved marks a call that is not expanded, unless it
\* names no workflow.
Selectable(file, step, nested) ==
  [key |-> Key(file, step), nested |-> nested, unresolved |-> HasTarget(step)]

NotSystem(step) == step.kind # "system"

\* MUTANT: calls stay as they are.
ExpandsNever(disk, rooted, file, i) == FALSE

\* The i-th step of the root is the first call by its name, of a workflow that can be found.
FirstCall(file, i) ==
  /\ HasTarget(file.steps[i])
  /\ \A j \in 1..(i - 1) : HasTarget(file.steps[j]) => file.steps[j].call # file.steps[i].call
Expands(disk, rooted, file, i) ==
  FirstCall(file, i) /\ Resolve(disk, rooted, file.steps[i].call) # NoLayer

\* parseWorkflowFile throws for the root or a called file that is not a mapping.
Unreadable(disk, rooted, file) ==
  ~IsMapping(file) \/ \E i \in DOMAIN file.steps :
     Expands(disk, rooted, file, i) /\ ~IsMapping(Called(disk, rooted, file.steps[i].call))

\* The names that are looked for on behalf of a root, up to the first called file that throws.
LookedFor(disk, rooted, file) ==
  {file.steps[i].call : i \in {k \in DOMAIN file.steps :
    /\ FirstCall(file, k) /\ IsMapping(file)
    /\ \A j \in 1..(k - 1) :
         Expands(disk, rooted, file, j) => IsMapping(Called(disk, rooted, file.steps[j].call))}}

\* Where steps are found: at <<i, 0>> the i-th step of the root, at <<i, j>> the j-th step
\* of the workflow that it calls.
Spots(disk, rooted, file) ==
  {<<i, 0>> : i \in {k \in DOMAIN file.steps :
                       NotSystem(file.steps[k]) /\ ~Expands(disk, rooted, file, k)}}
  \cup UNION {{<<i, j>> : j \in LET steps == Called(disk, rooted, file.steps[i].call).steps
                                IN  {k \in DOMAIN steps : NotSystem(steps[k])}} :
                i \in {k \in DOMAIN file.steps : Expands(disk, rooted, file, k)}}

\* Calls of the called workflow are not expanded again.
StepAt(disk, rooted, file, spot) ==
  IF spot[2] = 0 THEN Selectable(file, file.steps[spot[1]], FALSE)
  ELSE LET called == Called(disk, rooted, file.steps[spot[1]].call)
       IN  Selectable(called, called.steps[spot[2]], TRUE)

\* The order in which the steps are collected.
Sooner(s, t) == s[1] < t[1] \/ (s[1] = t[1] /\ s[2] < t[2])
Earliest(spots) == CHOOSE s \in spots : \A t \in spots : ~Sooner(t, s)
Latest(spots) == CHOOSE s \in spots : \A t \in spots : ~Sooner(s, t)

SpotsOf(disk, rooted, file, key) ==
  {s \in Spots(disk, rooted, file) : StepAt(disk, rooted, file, s).key = key}

\* collectSelectableSteps, for a root that was found and files that can be read: the steps
\* by where they were found.  Of the steps with one key new Map(...) keeps the last, in the
\* place of the first.
SelectableSteps(disk, rooted, file) ==
  LET SameKey(s) == SpotsOf(disk, rooted, file, StepAt(disk, rooted, file, s).key)
  IN  [s \in {t \in Spots(disk, rooted, file) : t = Earliest(SameKey(t))} |->
        StepAt(disk, rooted, file, Latest(SameKey(s)))]
=============================================================================
