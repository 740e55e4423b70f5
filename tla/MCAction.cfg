SPECIFICATION Spec
CONSTANTS
  MaxGoals = 2
  MaxCancels = 1
  MaxFeedbacks = 1
  MaxResets = 1
  MaxDeclines = 1
INVARIANT TypeOK
INVARIANT RunningGoalsServed
INVARIANT PromiseTellsOutcome
INVARIANT SerialViewTrue
INVARIANT EndNotForgotten
PROPERTY GoalsLive
PROPERTY SupersededGoalsSilent
CHECK_DEADLOCK FALSE
