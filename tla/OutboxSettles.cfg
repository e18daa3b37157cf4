SPECIFICATION BothFairSpec
CONSTANTS
  v1 = v1
  n1 = n1
  n2 = n2
  j1 = j1
  j2 = j2
  Visit = {}
  Start = {1, 2}
  Notice = {n1, n2}
  Addressed <- MCAddressed
  Job = {j1}
  Lead = 1
  Width = 1
  StaleClaim = 1
  RunBound = 1
  MaxAttempts = 2
  Backoff <- MCBackoff
  Limit = 1
  MaxClock = 1
  MaxUpsets = 3
  Component = {"outbox", "webhooks", "column"}
  NoClient = NoClient
  NoTime = NoTime
  p1 = p1
  p2 = p2
  Writer = {j1}
  Sweep = {p1}
  Reader = {}
  HookAttempts = 2
  HookBackoff <- MCBackoff
  StaleSending = 0
  MaxEvents = 2
  Endpoint = {"till"}
  Type = {"booked", "moved"}
  wants <- MCWants
  Contacted = {"till"}
  PauseAfter = 2
  MaxMishaps = 2
INVARIANTS
  OverridesStillSeen
PROPERTIES
  EverythingSettles
CHECK_DEADLOCK FALSE
