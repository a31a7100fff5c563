\* Lists of slots while the rows they are computed from change.
SPECIFICATION Spec
CONSTANTS
  s1 = s1
  s2 = s2
  a = a
  b = b
  Nil = Nil
  DayLen = 8
  Zone <- Zones
  Rule <- Rules
  Duration <- Durations
  Window <- Windows
  Minutes <- SlotMinutes
  ServiceId <- Asks
  StaffId <- Staff
  TheService = s1
  DefaultSlot = 2
  MaxRules = 2
  MaxWrites = 2
CHECK_DEADLOCK FALSE
INVARIANTS
  TypeOK
  SlotsMatchReference
  SlotsInOpenHours
  SlotsDisjoint
  TornNeedsTwoWrites
