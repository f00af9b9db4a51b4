\* One run: two crashes, a failed statement, room for one repair or one retry.
SPECIFICATION Spec
CONSTANTS
  html = html
  vue = vue
  c1 = c1
  None = None
  Type = {html, vue}
  ToolDriven = {vue}
  Call = {c1}
  MaxRetries = 1
  Retries = 1
  ModelCalls = 4
  ToolCalls = 2
  Tokens = 4
  OutputTokens = 2
  MaxCrashes = 2
  MaxFaults = 1
  MaxOver = 1
INVARIANTS
  TypeOK
  GateIsKept
  AsksOnce
  SpendIsBounded
  PublishedIsChecked
CHECK_DEADLOCK FALSE
