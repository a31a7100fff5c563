\* A rule that begins at a skipped midnight.
SPECIFICATION Spec
CONSTANTS
  s1 = s1
  s2 = s2
  a = a
  b = b
  Nil = Nil
  DayLen = 8
  Zone <- SkipsMidnight
  Rule <- NightRules
  Duration <- Durations
  Window <- NightWindows
  Minutes <- SlotMinutes
  ServiceId <- Asks
  StaffId <- Staff
  TheService = s1
  DefaultSlot = 2
  MaxRules = 2
  MaxWrites = 1
CHECK_DEADLOCK FALSE
INVARIANTS
  SlotsDisjoint
