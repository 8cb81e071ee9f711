SPECIFICATION Spec
CONSTANTS
  Installers = {i1}
  Adders = {a1, a2}
  Backup = {b1, b2}
  RoomID = {r1, r2, r3}
  MaxRooms = 3
  MaxStarted = 3
  None = None
PROPERTIES RoomsPreserved
