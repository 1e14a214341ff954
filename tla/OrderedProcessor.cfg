\* Five updates of two chats, three slots: a chat may hold every slot with one
\* update running and the others waiting for the lock, and a chat may go quiet and
\* come back.  The bot rests when every update was handled; that it does not stop
\* before is EveryUpdateHandled.
CONSTANTS
  Chats = {alice, bob}
  alice = alice
  bob = bob
  MaxUpdates = 5
  MaxConcurrent = 3
SPECIFICATION FairSpec
CHECK_DEADLOCK FALSE
INVARIANTS
  TypeOK
  OneHandlerPerChat
  NoStaleEntries
PROPERTIES
  KeepsChatOrder
  EveryUpdateHandled
