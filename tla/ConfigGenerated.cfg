SPECIFICATION MainSpec
CONSTANTS
  MaxRooms = 2
  MaxProxies = 2
  Files <- MCGenerated
  Generated <- MCGenerated
INVARIANT GeneratedAccepted
