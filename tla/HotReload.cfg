CONSTANTS
  NumFiles = 2
  Contents = {c1}
  Invalid = Invalid
  Absent = Absent
  EntityContents = {e1}
  InvalidEntities = InvalidEntities
  NoEntities = NoEntities
  AdminEntities = {m1}
  Added = {}
  Admins = {a1}
  Boot = Boot
  Timer = Timer
  Places = {"watched"}
  IoFaults = TRUE
  EditsDuringBoot = FALSE
SPECIFICATION Spec
CHECK_DEADLOCK FALSE
SYMMETRY Symmetry
INVARIANTS NoSilentLoss NoSilentEntityLoss
PROPERTIES ImplementsPolicyStore ReloadAnswersItsLoad InstallsWhatItRead
