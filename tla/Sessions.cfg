\* One chat with everything its user, housekeeping and the administrator can do to it.
CONSTANTS
  alice = alice
  Housekeeping = Housekeeping
  Admin = Admin
  Chats = {alice}
  MaxTasks = 2
  MaxLive = 1
  Actions = {"terminal", "sftp", "monitor"}
  StaffWork = {"idle", "access", "kill", "ban", "restore"}
SPECIFICATION Spec
INVARIANTS
  OneOwner
  CancelReaches
PROPERTIES
  LostInKnownPlaces
