CONSTANTS
  Request = {"q1"}
  MaxAttempts = 2
  Stamps = {TRUE, FALSE}
  MaxPolls = 1
SPECIFICATION PushedSpec
PROPERTY CompletionArrives
CHECK_DEADLOCK FALSE
