SPECIFICATION FairSpec
CONSTANTS
  b1 = b1  b2 = b2
  Order <- TwoBackends
  Scores = {10, 80}
  MaxScore = 1000
  Down = Down  Hung = Hung  Sent = Sent  NoProbe = NoProbe
  Window <- MCWindow
  InitialThreshold = 60
  Selecting = TRUE
  MaxChanges = 1
INVARIANTS SelectionSound BreakerConsistent
PROPERTIES DownNoticed ScoreConverges
