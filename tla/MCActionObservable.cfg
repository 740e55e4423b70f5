SPECIFICATION FairSpec
CONSTANTS
  MaxGoals = 2
  MaxCancels = 0
  MaxFeedbacks = 0
  MaxResets = 0
  MaxDeclines = 0
PROPERTY StatusObservable
CHECK_DEADLOCK FALSE
