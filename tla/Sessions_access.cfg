\* Terminals and file browsers of a user whose access ends at any moment, a connect
\* task still at work included.  Once the user is out and all is closed nothing moves:
\* the system may stop.
CONSTANTS
  alice = alice
  Housekeeping = Housekeeping
  Admin = Admin
  Chats = {alice}
  MaxTasks = 2
  MaxLive = 1
  Actions = {"terminal", "sftp"}
  StaffWork = {"access"}
SPECIFICATION FairSpec
CHECK_DEADLOCK FALSE
PROPERTY AccessLostCloses
