CONSTANTS
  s1 = s1
  s2 = s2
  Session <- MCSession
  NoTime <- MCNoTime
  StartAt = 1
  EndAt = 2
  Cutoff = 0
  CorrectionWindow = 0
  UndoWindow = 1
  Grace = 0
  MaxTime = 3
  MaxLag = 1
  MaxLog = 3
  Reception <- MCSession
  Ceiling = 3
  Kind <- Weeks
  Count = {1, 2}
  Tap <- Taps
  NoticePeriod = 1
  Horizon = 3
  MaxNow = 1
  MaxRequests = 4
  StillRuns = StillRuns
  Component = {"settings"}
  Owner = {d1}
  Notices = {0, 1, None}
  None = None
  ada = ada
  bea = bea
  a1 = a1
  a2 = a2
  Nobody = Nobody
  Never = Never
SPECIFICATION DeskSpec
INVARIANT LeadCoversCutoffs
CHECK_DEADLOCK FALSE
