SPECIFICATION PagesSpec
CONSTANTS
  Candidate = {c1, c2}
  MaxSession = 2
  Tracks = {1, 2}
  DisplayCandidate = {k1, k2}
  MaxAttempt = 3
  Patient = TRUE
INVARIANTS PagesTypeOK SessionsKeptApart AttemptsCleanUp
PROPERTIES DisplayShows
