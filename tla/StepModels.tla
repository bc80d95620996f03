---------------------------- MODULE StepModels ----------------------------
(***************************************************************************)
(* What Pi does with the workflows of a project (extensions/index.ts):     *)
(* /takt:models gives the steps of one a Pi model each and merges them     *)
(* into .takt/runtime.yaml (lib/takt-runtime-yaml.ts), and an enqueue      *)
(* takes a workflow from the catalog, or from its own text, and asks the   *)
(* catalog again before it writes.  The dialogs wait for the operator, one *)
(* at a time; meanwhile files change.  Another Pi window is another        *)
(* process: its reads and writes of the runtime file come between those of *)
(* this one, and a file is empty from when it is opened for writing until  *)
(* it is written.                                                          *)
(*                                                                         *)
(* runtime is the file: profiles by name, the profile of each step, and    *)
(* the default.  A profile the bridge makes has the model it stands for;   *)
(* Manual stands for what the operator wrote by hand.                      *)
(***************************************************************************)
EXTENDS WorkflowCatalog, Functions

CONSTANTS
  Models,          \* references of Pi models
  Profiles,        \* names of profiles
  ProfileName,     \* bridgeProfileName: the profile of each model
  StartDisks,      \* what is on the disk at first
  StartRuntimes,   \* and in the runtime file
  NewFiles,        \* files that appear in the project's own layer
  OtherSelections, \* what the operator selects in the other window
  MaxEdits         \* bound of the model: changes on the disk and merges

ASSUME ProfileNameAssumption == ProfileName \in [Models -> Profiles]
ASSUME MaxEditsAssumption == MaxEdits \in Nat
ASSUME DisksAssumption == \A d \in StartDisks : IsDisk(d)
ASSUME NewFilesAssumption == NewFiles \subseteq WorkflowFiles

VARIABLES
  disk,      \* see WorkflowCatalog
  installed, \* TAKT is installed
  root,      \* cachedTaktRootPromises: what the first search for it found
  edits,     \* changes and merges so far
  runtime,   \* .takt/runtime.yaml
  merging,   \* applyStepModelSelections: what each window is doing with it
  dialog,    \* selectStepModels: the dialog that is open, and what was picked
  listed,    \* enqueueTask: the catalog its dialog shows, {} if none is open
  queued,    \* ids of the workflows that tasks were queued with
  chosen,    \* for the properties: the model last chosen for a step
  overlapped, \* for the properties: both windows have been merging at a time
  due        \* for the properties: steps of the workflow whose dialogs are open

history == <<chosen, overlapped, due>>
vars == <<disk, installed, root, edits, runtime, merging, dialog, listed, queued, history>>

-----------------------------------------------------------------------------

Manual == "manual"
Inherit == "inherit"
NoProfile == "no profile"
Keys == FileNames \X StepNames

\* Every step names a profile of the file, and so does the default.
IsRuntime(file) ==
  /\ DOMAIN file = {"valid", "profiles", "steps", "default"} /\ file.valid \in BOOLEAN
  /\ DOMAIN file.profiles \subseteq Profiles /\ Range(file.profiles) \subseteq Models \cup {Manual}
  /\ DOMAIN file.steps \subseteq Keys /\ Range(file.steps) \subseteq DOMAIN file.profiles
  /\ file.default \in DOMAIN file.profiles \cup {NoProfile}

ASSUME RuntimesAssumption == \A r \in StartRuntimes : IsRuntime(r)

\* No file, or an empty one.
Blank == [valid |-> TRUE, profiles |-> <<>>, steps |-> <<>>, default |-> NoProfile]

Selection == [key: Keys, model: Models]
ASSUME OtherSelectionsAssumption == OtherSelections \subseteq Selection

\* A window that merges has read the file, and has the text it is going to write.
Windows == {"here", "other"}
NotMerging == [pc |-> "idle", doc |-> Blank, picks |-> <<>>]

\* Before the first step, and after the last one.
NoSpot == <<0, 0>>
Closed ==
  [pc |-> "closed", listed |-> {}, steps |-> <<>>, at |-> NoSpot, asked |-> <<>>, picks |-> <<>>]
NothingDue == [asks |-> {}, calls |-> {}]

TypeOK ==
  /\ IsDisk(disk)
  /\ installed \in BOOLEAN /\ root \in {"unasked", "found", "missing"}
  /\ edits \in 0..MaxEdits
  /\ IsRuntime(runtime)
  /\ DOMAIN merging = Windows
  /\ \A w \in Windows :
       /\ DOMAIN merging[w] = DOMAIN NotMerging
       /\ merging[w].pc \in {"idle", "merging", "truncated"}
       /\ IsRuntime(merging[w].doc) /\ merging[w].picks \in Seq(Selection)
  /\ DOMAIN dialog = DOMAIN Closed /\ dialog.pc \in {"closed", "workflow", "model", "confirm"}
  /\ dialog.listed \subseteq Ids
  /\ DOMAIN dialog.steps \subseteq Nat \X Nat
  /\ \A s \in DOMAIN dialog.steps : dialog.steps[s].key \in Keys
  /\ dialog.pc = "model" => dialog.at \in DOMAIN dialog.steps
  /\ dialog.asked \in Seq(Keys) /\ dialog.picks \in Seq(Selection)
  /\ listed \subseteq Ids /\ queued \subseteq Ids
  /\ DOMAIN chosen \subseteq Keys /\ overlapped \in BOOLEAN
  /\ DOMAIN due = DOMAIN NothingDue /\ due.asks \subseteq Keys /\ due.calls \subseteq Keys

\* The installation as a search finds it now; the first answer is kept for good.
Root == IF root # "unasked" THEN root ELSE IF installed THEN "found" ELSE "missing"
Rooted == Root = "found"

RootAfterListing == IF disk.enabled THEN Root ELSE root

\* What picks come to: the model of each step, and the profiles of the models.
Picked(picks) ==
  [key \in {picks[i].key : i \in DOMAIN picks} |->
    picks[Max({i \in DOMAIN picks : picks[i].key = key})].model]
PickedProfiles(picks) ==
  [name \in {ProfileName[picks[i].model] : i \in DOMAIN picks} |->
    picks[Max({i \in DOMAIN picks : ProfileName[picks[i].model] = name})].model]
PickedSteps(picks) == [key \in DOMAIN Picked(picks) |-> ProfileName[Picked(picks)[key]]]

\* MUTANT: the file is written anew, and keeps only its other targets.
ApplyAfresh(file, picks) ==
  [file EXCEPT !.profiles = PickedProfiles(picks), !.steps = Over(PickedSteps(picks), @)]

\* MUTANT: a step that has a target keeps it.
ApplyUnlessSet(file, picks) ==
  [file EXCEPT !.profiles = Over(PickedProfiles(picks), @), !.steps = Over(@, PickedSteps(picks))]

\* applyStepModelSelections: one after the other, profiles and targets replace those of the
\* same name, and a file without a default takes the first.
Apply(file, picks) ==
  [file EXCEPT !.profiles = Over(PickedProfiles(picks), @),
               !.steps = Over(PickedSteps(picks), @),
               !.default = IF @ = NoProfile THEN ProfileName[picks[1].model] ELSE @]

\* The step to be asked for after a spot, in their order; calls are passed over.
NextAsked(steps, spot) ==
  LET asked == {s \in DOMAIN steps : Sooner(spot, s) /\ ~steps[s].unresolved}
  IN  IF asked = {} THEN NoSpot ELSE Earliest(asked)

\* While this window reads and writes the runtime file it does nothing else.
Responsive == merging["here"].pc = "idle"

-----------------------------------------------------------------------------
(* /takt:models *)

\* Without a workflow in its argument the command lists those of the catalog.
OpenModels ==
  /\ Responsive
  /\ dialog.pc = "closed" /\ listed = {}
  /\ root' = RootAfterListing
  /\ dialog' = IF Listed(disk, Rooted) = {} THEN Closed
               ELSE [Closed EXCEPT !.pc = "workflow", !.listed = Listed(disk, Rooted)]
  /\ UNCHANGED <<disk, installed, edits, runtime, merging, listed, queued, history>>

\* The dialog for the step at a spot, or for the confirmation after the last one.
Asking(d, spot) ==
  [d EXCEPT !.at = spot, !.pc = IF spot = NoSpot THEN "confirm" ELSE "model"]

\* What a workflow runs: its own file and, one level deep, those it calls.
CalledFiles(file) ==
  {Called(disk, Rooted, s.call) :
    s \in {t \in Range(file.steps) : HasTarget(t) /\ Resolve(disk, Rooted, t.call) # NoLayer}}
Runs(file) == CalledFiles(file) \cup {file}

\* The steps of a file that can have a model, and those that name another workflow.
ModelSteps(file) == {Key(file, s) : s \in {t \in Range(file.steps) : NotSystem(t) /\ ~HasTarget(t)}}
CallSteps(file) == {Key(file, s) : s \in {t \in Range(file.steps) : HasTarget(t)}}
StepsDue(file) ==
  [asks |-> UNION {ModelSteps(f) : f \in Runs(file)}, calls |-> UNION {CallSteps(f) : f \in Runs(file)}]

\* Collects the steps of the workflow with a name, which the operator picked, or gave.
\* Without the file, or steps, the command ends.
CollectSteps(name) ==
  LET found == Resolve(disk, Rooted, name) # NoLayer
      file == Called(disk, Rooted, name)
      steps == SelectableSteps(disk, Rooted, file)
      lookedFor == {name} \cup (IF found THEN LookedFor(disk, Rooted, file) ELSE {})
  IN  /\ Responsive
      /\ \/ dialog.pc = "workflow" /\ name \in dialog.listed
         \/ dialog.pc = "closed" /\ listed = {}
      /\ root' = IF \E n \in lookedFor : ReachesBuiltins(disk, n) THEN Root ELSE root
      /\ \/ /\ ~found \/ (found /\ (Unreadable(disk, Rooted, file) \/ DOMAIN steps = {}))
            /\ dialog' = Closed /\ due' = NothingDue
         \/ /\ found /\ ~Unreadable(disk, Rooted, file) /\ DOMAIN steps # {}
            /\ dialog' = Asking([Closed EXCEPT !.steps = steps], NextAsked(steps, NoSpot))
            /\ due' = StepsDue(file)
      /\ UNCHANGED <<disk, installed, edits, runtime, merging, listed, queued, chosen, overlapped>>

\* A model, or the inherited default, for one step.
Answered(d, choice) ==
  LET key == d.steps[d.at].key
  IN  [d EXCEPT !.asked = Append(@, key),
                !.picks = IF choice = Inherit THEN @ ELSE Append(@, [key |-> key, model |-> choice])]
PickModel(choice) ==
  /\ Responsive
  /\ dialog.pc = "model"
  /\ dialog' = Asking(Answered(dialog, choice), NextAsked(dialog.steps, dialog.at))
  /\ UNCHANGED <<disk, installed, root, edits, runtime, merging, listed, queued, history>>

\* Any of the dialogs is cancelled.
CancelModels ==
  /\ Responsive
  /\ dialog.pc # "closed"
  /\ dialog' = Closed /\ due' = NothingDue
  /\ UNCHANGED <<disk, installed, root, edits, runtime, merging, listed, queued, chosen, overlapped>>

\* The first half of applyStepModelSelections: the file is read, and the selections merged
\* with what it holds, unless it is not a file of version 1.
ReadRuntime(w, picks) ==
  /\ merging[w].pc = "idle"
  /\ edits < MaxEdits
  /\ edits' = edits + 1
  /\ IF runtime.valid
       THEN /\ merging' = [merging EXCEPT ![w] =
                 [pc |-> "merging", doc |-> Apply(runtime, picks), picks |-> picks]]
            /\ overlapped' = (overlapped \/ \E v \in Windows \ {w} : merging[v].pc # "idle")
       ELSE UNCHANGED <<merging, overlapped>>

\* Confirmed: what was picked, if anything, is merged.
ConfirmModels ==
  /\ Responsive
  /\ dialog.pc = "confirm"
  /\ IF dialog.picks # <<>>
       THEN ReadRuntime("here", dialog.picks)
       ELSE UNCHANGED <<edits, merging, overlapped>>
  /\ dialog' = Closed /\ due' = NothingDue
  /\ UNCHANGED <<disk, installed, root, runtime, listed, queued, chosen>>

\* Another Pi window confirms the model of one step.
OtherWindowConfirms(pick) ==
  /\ ReadRuntime("other", <<pick>>)
  /\ UNCHANGED <<disk, installed, root, runtime, dialog, listed, queued, chosen, due>>

\* writeFileSync opens the file, which empties it,
TruncateRuntime(w) ==
  /\ merging[w].pc = "merging"
  /\ merging' = [merging EXCEPT ![w].pc = "truncated"]
  /\ runtime' = Blank
  /\ UNCHANGED <<disk, installed, root, edits, dialog, listed, queued, history>>

\* and writes the text.  Over the text of another window it may leave the end of that one
\* behind it: no file of version 1.
WriteRuntime(w) ==
  /\ merging[w].pc = "truncated"
  /\ merging' = [merging EXCEPT ![w] = NotMerging]
  /\ \/ runtime' = merging[w].doc
     \/ runtime # Blank /\ runtime' = [merging[w].doc EXCEPT !.valid = FALSE]
  /\ chosen' = Over(Picked(merging[w].picks), chosen)
  /\ UNCHANGED <<disk, installed, root, edits, dialog, listed, queued, overlapped, due>>

-----------------------------------------------------------------------------
(* Enqueues *)

\* selectWorkflowForProject: a catalog with errors ends the enqueue.
OpenEnqueue ==
  /\ Responsive
  /\ listed = {} /\ dialog.pc = "closed"
  /\ root' = RootAfterListing
  /\ listed' = IF Ready(disk, Rooted) THEN Listed(disk, Rooted) ELSE {}
  /\ UNCHANGED <<disk, installed, edits, runtime, merging, dialog, queued, history>>

\* enqueueTaskInProject: the catalog now must be ready and have the workflow.
Accepts(id) == Ready(disk, Rooted) /\ id \in Listed(disk, Rooted)

Enqueue(id) ==
  /\ Responsive
  /\ root' = RootAfterListing
  /\ queued' = IF Accepts(id) THEN queued \cup {id} ELSE queued
  /\ UNCHANGED <<disk, installed, edits, runtime, merging, dialog, history>>

\* From the dialog, or its cancellation.
EnqueuePicked(id) ==
  /\ id \in listed
  /\ Enqueue(id)
  /\ listed' = {}

CancelEnqueue ==
  /\ Responsive
  /\ listed # {}
  /\ listed' = {}
  /\ UNCHANGED <<disk, installed, root, edits, runtime, merging, dialog, queued, history>>

\* From a workflow directive in the task itself.
EnqueueDirective(id) ==
  /\ listed = {}
  /\ Enqueue(id)
  /\ UNCHANGED listed

-----------------------------------------------------------------------------
(* Meanwhile *)

Edit ==
  /\ edits < MaxEdits
  /\ edits' = edits + 1
  /\ UNCHANGED <<root, runtime, merging, dialog, listed, queued, history>>

\* A file of the project comes, or takes the place of the one with its name.
WriteFile(file) ==
  LET files == disk.files["project"]
      at == {i \in DOMAIN files : files[i].id = file.id /\ files[i].ext = file.ext}
  IN  /\ Edit
      /\ \E new \in IF at = {} THEN {<<file>> \o files, Append(files, file)}
                    ELSE {[files EXCEPT ![i] = file] : i \in at} :
           disk' = [disk EXCEPT !.files["project"] = new]
      /\ UNCHANGED installed

RemoveFile(i) ==
  /\ Edit
  /\ disk' = [disk EXCEPT !.files["project"] = RemoveAt(@, i)]
  /\ UNCHANGED installed

\* A builtin is disabled or enabled again.
ToggleBuiltin(id) ==
  /\ Edit
  /\ disk' = [disk EXCEPT !.disabled = IF id \in @ THEN @ \ {id} ELSE @ \cup {id}]
  /\ UNCHANGED installed

InstallTakt ==
  /\ Edit
  /\ ~installed
  /\ installed' = TRUE
  /\ UNCHANGED disk

-----------------------------------------------------------------------------

\* The model TAKT gives a step: its target's, or the default.
ModelOf(file, key) ==
  IF key \in DOMAIN file.steps THEN file.profiles[file.steps[key]]
  ELSE IF file.default # NoProfile THEN file.profiles[file.default] ELSE "global"

\* A target is a choice unless the operator has changed a profile of the bridge by hand.
BridgeNames == Range(ProfileName)
IsChoice(file, key) ==
  LET name == file.steps[key]
      model == file.profiles[name]
  IN  name \in BridgeNames => model \in Models /\ ProfileName[model] = name

Init ==
  /\ disk \in StartDisks
  /\ runtime \in StartRuntimes
  /\ merging = [w \in Windows |-> NotMerging]
  /\ installed \in BOOLEAN
  /\ root = "unasked"
  /\ edits = 0
  /\ dialog = Closed
  /\ listed = {}
  /\ queued = {}
  /\ chosen = [k \in {key \in DOMAIN runtime.steps : IsChoice(runtime, key)} |-> ModelOf(runtime, k)]
  /\ overlapped = FALSE
  /\ due = NothingDue

Next ==
  \/ OpenModels
  \/ \E name \in Names : CollectSteps(name)
  \/ \E choice \in Models \cup {Inherit} : PickModel(choice)
  \/ CancelModels
  \/ ConfirmModels
  \/ OpenEnqueue
  \/ \E id \in Ids : EnqueuePicked(id)
  \/ CancelEnqueue
  \/ \E id \in Ids : EnqueueDirective(id)
  \/ \E pick \in OtherSelections : OtherWindowConfirms(pick)
  \/ \E w \in Windows : TruncateRuntime(w)
  \/ \E w \in Windows : WriteRuntime(w)
  \/ \E file \in NewFiles : WriteFile(file)
  \/ \E i \in DOMAIN disk.files["project"] : RemoveFile(i)
  \/ \E id \in Ids : ToggleBuiltin(id)
  \/ InstallTakt

Spec == Init /\ [][Next]_vars

-----------------------------------------------------------------------------
(* Properties *)

\* What the catalog and the resolver look at alike: an id has one entry in a layer, which is
\* a file with an extension in small letters.
Ordinary(id) ==
  /\ IdOf[id] = id
  /\ \A l \in Layers :
       LET at == {i \in DOMAIN disk.files[l] : disk.files[l][i].id = id}
       IN  /\ \A i \in at : disk.files[l][i].kind = "file" /\ disk.files[l][i].ext # "YAML"
           /\ \A i, j \in at : i = j

\* The catalog and the resolver are two programs for one precedence: an ordinary id is in the
\* catalog just if the resolver finds a file for it that can be run on its own, and it is the
\* same file.
CatalogResolves ==
  \A id \in {n \in Ids : Ordinary(n)} :
    LET found == Resolve(disk, Rooted, id) # NoLayer
    IN  /\ id \in Listed(disk, Rooted) <=> found /\ Standalone(Called(disk, Rooted, id))
        /\ id \in DOMAIN Effective(disk, Rooted) =>
             /\ Effective(disk, Rooted)[id] = Resolve(disk, Rooted, id)
             /\ EffectiveFile(disk, Rooted, id) = Called(disk, Rooted, id)

\* An entry of the catalog is found in the category it names, if the others are shown.
CategoriesAgree ==
  \A id \in Listed(disk, Rooted) :
    ShowOthers(disk, Rooted) => <<CategoryOf(disk, Rooted, id), id>> \in Categories(disk, Rooted)

\* The dialogs of /takt:models ask for steps of the workflow and of those it calls that can
\* have a model, for each once, and before the confirmation they have asked for every one;
\* but one that shares its key with a call, which the steps may have in its place.
EveryStepIsAsked ==
  /\ IsInjective(dialog.asked)
  /\ ToSet(dialog.asked) \subseteq due.asks
  /\ dialog.pc = "confirm" => due.asks \ due.calls \subseteq ToSet(dialog.asked)

\* However selections of two windows and entries by hand follow each other, TAKT gives a step
\* the model last chosen for it, or one that has the same profile; unless the windows have been
\* merging at the same time.
ChoicesTakeEffect ==
  ~overlapped /\ (\A w \in Windows : merging[w].pc # "truncated") =>
    \A key \in DOMAIN chosen :
      \/ ModelOf(runtime, key) = chosen[key]
      \/ /\ ModelOf(runtime, key) \in Models /\ chosen[key] \in Models
         /\ ProfileName[ModelOf(runtime, key)] = ProfileName[chosen[key]]
=============================================================================
