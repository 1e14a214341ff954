\* A crash and a failure may hit any operation, the undoing of a failed restore
\* included; after a crash the restore is asked for again.
\* Every request ends and none starts again, so the system stops.
CONSTANTS
  ali = ali
  sara = sara
  Builder = Builder
  Restorer = Restorer
  Savers = {ali, sara}
  MaxFailures = 2
  MaxCrashes = 1
SPECIFICATION Spec
CHECK_DEADLOCK FALSE
INVARIANTS
  TypeOK
  SecretsReadable
  BackupUsableIfAlone
PROPERTY
  RestoreIsAllOrNothing
