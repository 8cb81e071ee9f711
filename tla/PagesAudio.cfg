SPECIFICATION VideoSpec
CONSTANTS
  Candidate = {c1}
  MaxSession = 1
  Tracks = {1, 2}
INVARIANT BlockedAudioHasButton
