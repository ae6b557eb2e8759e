SPECIFICATION PromptSpec
CONSTANTS
  Requests = {r1, r2}
  Payloads = {p1, big}
  Oversized = {big}
  Versions = {v1}
  MaxDeploys = 0
  MaxOutages = 0
INVARIANT PromptIsOwn
CHECK_DEADLOCK FALSE
