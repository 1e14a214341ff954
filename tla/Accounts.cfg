\* Two grants, two rows: a user who is deleted and comes back.
CONSTANTS
  None = None
  GrantDays = 1
  MaxDay = 1
  MaxGrants = 2
  MaxRows = 2
  MaxHosts = 1
  MaxSent <- FewSent
  Crashes = TRUE
SPECIFICATION Spec
INVARIANTS
  NoticeOnce
  RequestOnce
PROPERTIES
  OwedUntilTold
  OrphansOnlyBySave
CHECK_DEADLOCK FALSE
