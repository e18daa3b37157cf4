SPECIFICATION BothSpec
CONSTANTS
  v1 = v1
  n1 = n1
  n2 = n2
  j1 = j1
  j2 = j2
  Visit = {v1}
  Start = {1, 2}
  Notice = {}
  Addressed <- MCAddressed
  Job = {j1, j2}
  Lead = 1
  Width = 1
  StaleClaim = 1
  RunBound = 1
  MaxAttempts = 2
  Backoff <- MCBackoff
  Limit = 2
  MaxClock = 1
  MaxUpsets = 3
  Component = {"outbox", "webhooks"}
  NoClient = NoClient
  NoTime = NoTime
  p1 = p1
  p2 = p2
  Writer = {j1, j2}
  Sweep = {p1, p2}
  Reader = {"crm"}
  HookAttempts = 1
  HookBackoff <- MCBackoff
  StaleSending = 0
  MaxEvents = 2
  Endpoint = {"till"}
  Type = {"booked", "moved"}
  wants <- MCWants
  Contacted = {"till"}
  PauseAfter = 1
  MaxMishaps = 2
SYMMETRY BothSym
INVARIANTS
  OneHolder
  DeliveredOncePerKnownAnswer
  NoFalsePromise
  WatermarkIsTruthful
  NothingSkipped
  OneBodyPerEvent
PROPERTIES
  SentStaysSent
CHECK_DEADLOCK FALSE
