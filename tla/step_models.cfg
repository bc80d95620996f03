SPECIFICATION Spec
CONSTANTS
  Ids = {"main", "dir/sub"}
  IdOf <- WorkflowNames
  StepNames = {"plan", "work", "fix"}
  Models = {"a.b", "a-b", "c"}
  Profiles = {"mine", "bridge-a-b", "bridge-c"}
  ProfileName <- ModelProfiles
  StartDisks <- Disks
  StartRuntimes <- Runtimes
  NewFiles <- Files
  OtherSelections <- Elsewhere
  MaxEdits = 2
CHECK_DEADLOCK FALSE
INVARIANTS
  TypeOK
  
  CategoriesAgree
  EveryStepIsAsked
  ChoicesTakeEffect
