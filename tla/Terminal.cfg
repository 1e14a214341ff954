\* Two rows and one text, a digit as in a switch, which only its place tells from
\* one; the switches of screens are ESC [ ? 1049 h and l.
CONSTANTS
  None = None
  Gone = Gone
  Blank = Blank
  Text = {"1"}
  AltModes <- Mode1049
  TERM_ROWS = 2
  SCROLLBACK_LINES = 2
  MaxPieces = 3
  MaxAhead = 2
  MaxFaults = 1
  MaxProgram = 2
SPECIFICATION Spec
CHECK_DEADLOCK FALSE
INVARIANTS KeptOnce HistoryComesBack
PROPERTIES ChunksDoNotMatter AllIsShown DrawnInTheEnd
