\* Two attempts in five ticks, for two windows: every alignment of attempts to the
\* ends of a window, entries dropped one by one and both at once.  Two ticks to a
\* second and an odd window leave half seconds to cut off.
CONSTANTS
  alice = alice
  bob = bob
  Users = {alice, bob}
  Limit = 2
  Window = 5
  Second = 2
  MaxTime = 10
SPECIFICATION LimiterSpec
INVARIANTS
  WindowBound
PROPERTIES
  RefusedOnlyWhenFull
  RetryNearlyEnough
