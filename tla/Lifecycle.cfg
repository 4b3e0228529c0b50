SPECIFICATION Spec
CONSTANTS
  StackEnd = 4
  Slack = 2
  Statuses = {"0", "1"}
  MaxCalls = 5
INVARIANTS OneHandlerEach VerdictIsOfThisRun FailsOnlyWhenUsedUp
CHECK_DEADLOCK FALSE
