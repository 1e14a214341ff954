\* One upload, two presses, and a second name that sorts before the first.
CONSTANTS
  None = None
  Files = {1, 2}
  Contents <- FirstContents
  MaxStarted = 1
  PerPage = 2
  MaxTransfers = 1
  MaxPresses = 3
  MaxReplies = 0
  MaxInbox = 1
SPECIFICATION Spec
CHECK_DEADLOCK FALSE
PROPERTY DeletesWhatWasConfirmed
