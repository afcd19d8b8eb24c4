CONSTANTS
  Visitors = {v1, v2}
  QueueSize = 1
  HotDays = 2
  RetentionDays = 2
  Mishaps = {"redis", "sql", "loss", "rewind", "crash", "retry", "misread", "crowd"}
  MaxVisits = 2
  MaxDay = 3
  MaxFaults = 2
SPECIFICATION FairStatsSpec
CONSTRAINT Focus
CHECK_DEADLOCK FALSE
INVARIANTS CountsSound HonestReports
PROPERTIES NeverDecreases Converges
