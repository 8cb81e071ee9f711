SPECIFICATION ServerSpec
CONSTANTS
  RoomID = {r1}
  Room1 = r1
  None = None
  Displays = {d1, d2}
  Presenters = {p1, p2}
  Conn = {d1, d2, p1, p2}
  RoomOf <- OneRoom
  PreAuthMax = 2
SYMMETRY Symmetry
INVARIANT FreeRoomCodeWorks
