SPECIFICATION RunsSpec
CONSTANTS
  Installers = {i1, i2}
  Adders = {a1, a2}
  Backup = {b1, b2}
  RoomID = {r1, r2, r3}
  MaxRooms = 3
  MaxStarted = 3
  None = None
SYMMETRY Symmetric
INVARIANTS TypeOK ConfigUsable AnnouncedRoomsStay BackupHasTheOld
PROPERTIES FailureLeavesNothing InstallNeverOverwrites
