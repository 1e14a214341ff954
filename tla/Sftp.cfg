\* Three acts of the user; two transfers that share one slot; ui.show may post one message
\* of its own.  The user may stop and the browser may be closed: the system may stop.
CONSTANTS
  None = None
  Files = {1}
  Contents <- FirstContents
  MaxStarted = 2
  PerPage = 1
  MaxTransfers = 1
  MaxPresses = 3
  MaxReplies = 1
  MaxInbox = 2
SPECIFICATION Spec
CHECK_DEADLOCK FALSE
INVARIANT TypeOK
PROPERTIES
  ButtonsDoWhatTheySay
  HandlerShowsItsFolder
  EntriesMixOnlyByTransfers
  TransfersEnd
