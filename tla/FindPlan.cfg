SPECIFICATION Spec
CONSTANTS
  Expressions <- ShortExpressions
  MaxTokens = 5
  MaxOperators = 7
INVARIANTS
  PlanFollowsExpression
  SensibleAccepted
CHECK_DEADLOCK FALSE
