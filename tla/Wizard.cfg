\* Two messages and two runs of the wizard.  The user may stop: the system may stop.
CONSTANTS
  None = None
  Msg = {m1, m2}
  MaxRuns = 2
  MaxInbox = 2
  MaxUpdates = 12
SPECIFICATION Spec
SYMMETRY Symmetry
CHECK_DEADLOCK FALSE
INVARIANTS
  SavedIsUsable
  SavedOnce
  InOrder
  
