\* Only the idle check and the render loops close an ended terminal of a silent user.
CONSTANTS
  alice = alice
  Housekeeping = Housekeeping
  Admin = Admin
  Chats = {alice}
  MaxTasks = 2
  MaxLive = 1
  Actions = {"terminal"}
  StaffWork = {"idle"}
SPECIFICATION FairSpec
PROPERTY EndedSessionsLeave
