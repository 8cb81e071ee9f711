SPECIFICATION FairServerSpec
CONSTANTS
  RoomID = {r1}
  Room1 = r1
  None = None
  Displays = {d1, d2}
  Presenters = {p1}
  Conn = {d1, d2, p1}
  RoomOf <- OneRoom
  PreAuthMax = 1
PROPERTIES HandlersEnd CodeComesBack
