\* Two messages, so that a Yes may be for the prompt of the other; two addresses and keys;
\* groups may follow one another.  The user may stop: the system may stop.
CONSTANTS
  None = None
  Msg = {m1, m2}
  Addr = {a1, a2}
  Key = {k1, k2}
  MaxHosts = 1
  MaxGroupIds = 2
  MAX_GROUPS = 1
  MAX_SNIPPETS = 1
SPECIFICATION Spec
SYMMETRY Symmetry
CHECK_DEADLOCK FALSE
INVARIANTS
  KeysAreConfirmed
  GroupsExist
  LimitsHold
PROPERTIES
  UsesConfirmedKeys
