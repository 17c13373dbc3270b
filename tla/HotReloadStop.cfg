CONSTANTS
  NumFiles = 1
  Contents = {c1}
  Invalid = Invalid
  Absent = Absent
  EntityContents = {}
  InvalidEntities = InvalidEntities
  NoEntities = NoEntities
  AdminEntities = {}
  Added = {}
  Admins = {a1}
  Boot = Boot
  Timer = Timer
  Places = {"none"}
  IoFaults = FALSE
  EditsDuringBoot = FALSE
SPECIFICATION Spec
CHECK_DEADLOCK FALSE
INVARIANTS StopClearsTimer
