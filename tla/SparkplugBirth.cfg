SPECIFICATION SparkplugSpec
CONSTANTS
  SeqValues = 4
  MaxSessions = 3
INVARIANTS
  DataFollowsBirth
