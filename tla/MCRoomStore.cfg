SPECIFICATION MCSpec
CONSTANTS
  RoomID = {r1, r2}
  Conn = {c1, c2, c3}
  None = None
  MaxRooms = 4
  MaxDraws = 6
  MaxGeneration = 4
SYMMETRY Symmetry
INVARIANTS TypeOK RoomConsistent DeletedRoomsInert
PROPERTIES ImplementsMeetingRoom
