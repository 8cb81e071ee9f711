SPECIFICATION MCSpec
CONSTANTS
  Key = {k1, k2}
  Attempt = {a1, a2, a3}
  MaxFailedAuth = 2
  Lockout = 2
  None = None
  Horizon = 9
SYMMETRY Symmetry
INVARIANTS ThrottleTypeOK OvershootBounded
PROPERTIES LockedByFailures LocksStand TableStaysFresh
