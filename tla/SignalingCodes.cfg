SPECIFICATION ServerSpec
CONSTANTS
  RoomID = {r1}
  Room1 = r1
  None = None
  Displays = {d1}
  Presenters = {p1, p2, p3}
  Conn = {d1, p1, p2, p3}
  RoomOf <- OneRoom
  PreAuthMax = 2
SYMMETRY Symmetry
INVARIANTS ShownCodeWorks GoodbyeBeforeNext
PROPERTIES RightCodeExcused
