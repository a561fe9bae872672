CONSTANTS
  data = data
  lookarea = lookarea
  satab = satab
  module1 = module1
  OwnDisks = {data}
  OtherDisks = {lookarea}
  SataBeasts = {satab}
  OutputModules = {module1}
  Threshold = 1
  Budgets <- MCBudgets
SPECIFICATION Spec
INVARIANTS AlarmStateIsRaised
PROPERTIES ProblemsAreReported AlarmsAreRevoked
