CONSTANTS
  Arbiter = {"a1", "a2", "a3", "a4"}
  Candidate = {"admin"}
  Party = {"tenant"}
  Outsider = "outsider"
  MinVotes = 1
  BenchSize = 3
  AppealWindow = 1
  Timeouts = {1}
  Ratings = {100}
  Experience = {100}
  LastInstant = 0
  MaxBallots = 1
  MaxChanges = 0
SPECIFICATION DisputeSpec
INVARIANT AppealAgainstRuling
CHECK_DEADLOCK FALSE
