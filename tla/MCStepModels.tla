---------------------------- MODULE MCStepModels ----------------------------
(***************************************************************************)
(* Two workflows that call each other, with a helper, a file that cannot   *)
(* be read, and names that only one of the two lookups finds, over the     *)
(* three layers; no runtime file, one with a target, and one of another    *)
(* version; and two models whose profiles have one name.                   *)
(***************************************************************************)
EXTENDS StepModels, TLC

Agent(n) == [name |-> n, kind |-> "agent"]
Sys(n) == [name |-> n, kind |-> "system"]
CallOf(n, name) == [name |-> n, kind |-> "workflow_call", call |-> name]
File(id, name, steps) ==
  [id |-> id, ext |-> "yaml", kind |-> "file", name |-> name,
   mapping |-> TRUE, callable |-> FALSE, steps |-> steps]

\* Its call of a workflow in a directory is spelled in two ways, and one names no workflow.
MainFile ==
  File("main", "main", <<CallOf("plan", NoTarget), CallOf("work", "dir/sub"), CallOf("fix", "dir\\sub")>>)
SubFile == File("dir/sub", "dir/sub", <<Agent("plan"), Sys("fix")>>)
Helper == [SubFile EXCEPT !.callable = TRUE, !.ext = "yml"]
\* A call with the key of a step of the main workflow.
Copy == File("dir/sub", "main", <<Agent("work"), CallOf("plan", "main")>>)
Broken == [File("dir/sub", "dir/sub", <<>>) EXCEPT !.mapping = FALSE]

Files ==
  {[MainFile EXCEPT !.ext = "YAML", !.steps = <<CallOf("plan", "..")>>], Copy,
   [Broken EXCEPT !.ext = "yml"], [Broken EXCEPT !.kind = "directory"]}

Overlays ==
  [valid |-> TRUE, nodes |-> <<[path |-> <<"a">>, workflows |-> {"main"}],
                              [path |-> <<"a", "b">>, workflows |-> {"main", "dir/sub"}]>>, others |-> "unset"]
Own == [valid |-> TRUE, nodes |-> <<[path |-> <<"mine">>, workflows |-> {"dir/sub"}]>>, others |-> "no"]

Disk(user, enabled, disabled, own) ==
  [files |-> [project |-> <<>>, user |-> user, builtin |-> <<MainFile, SubFile>>],
   enabled |-> enabled, disabled |-> disabled, own |-> own, shipped |-> Overlays]
Disks ==
  {Disk(<<>>, TRUE, {}, NoOverlay), Disk(<<Helper>>, TRUE, {"main"}, Own),
   Disk(<<Helper, [MainFile EXCEPT !.kind = "link"]>>, TRUE, {}, [Own EXCEPT !.others = "unset"]),
   Disk(<<MainFile>>, FALSE, {}, [Own EXCEPT !.valid = FALSE])}

ByHand == [valid |-> TRUE, profiles |-> [mine |-> Manual],
           steps |-> (<<"dir/sub", "plan">> :> "mine"), default |-> NoProfile]
Runtimes == {Blank, ByHand, [ByHand EXCEPT !.valid = FALSE]}

WorkflowNames == [n \in {"main", "dir/sub", "dir\\sub", ".."} |->
  IF n = "dir\\sub" THEN "dir/sub" ELSE IF n = ".." THEN NoId ELSE n]
ModelProfiles == [m \in {"a.b", "a-b", "c"} |-> IF m = "c" THEN "bridge-c" ELSE "bridge-a-b"]
Elsewhere ==
  {[key |-> <<"dir/sub", "plan">>, model |-> "a-b"], [key |-> <<"main", "plan">>, model |-> "c"]}
=============================================================================
