CONSTANTS
  NumFiles = 1
  Contents = {c1}
  Invalid = Invalid
  Absent = Absent
  EntityContents = {e1}
  InvalidEntities = InvalidEntities
  NoEntities = NoEntities
  AdminEntities = {}
  Added = {p1}
  Admins = {a1}
  Boot = Boot
  Timer = Timer
  Places = {"none", "watched", "unwatched"}
  IoFaults = FALSE
  EditsDuringBoot = FALSE
SPECIFICATION FairSpec
CHECK_DEADLOCK FALSE
PROPERTIES Convergence ReloadAnswered CoalescedIsServed AddedLostOnlyToInstall
