CONSTANTS
  Component = {"panel", "waiting", "sheet", "proposals", "push", "late", "slots"}
  ada = ada
  bea = bea
  Nobody = Nobody
  c1 = c1
  c2 = c2
  NoTime = NoTime
  v1 = v1
  v2 = v2
  d1 = d1
  Visit = {v1, v2}
  Stylist = {1, 2}
  Person = {ada}
  Commit = {w1, w2}
  Starts = {1, 2}
  NoVisit <- Absent
  FirstVisit <- FirstRow
  Never = Never
  Cutoff = 0
  TTL = 1
  MaxProposals = 1
  MaxDeskTaps = 1
  MaxReads = 1
  MaxNow = 1
  CorrectionWindow = 0
  UndoWindow = 0
  Grace = 0
  Entry = {v1, v2}
  Waiter = {ada, bea}
  NoEntry <- Absent
  Desk = {d1, d2}
  Fits = {ada, bea}
  SpanDay = 0
  LastDate = 1
  MaxRounds = 2
  MaxPresses = 3
  Line = {v1}
  Column = {"dana", "priya"}
  NoLine <- Absent
  Writer = {w1, w2}
  Printer = {d1}
  SheetStarts = {1, 2}
  MomentsADay = 2
  LastMoment = 4
  MaxPrints = 2
  \* The panel: two stylists over two days of two marks, and one chair.
  Provider = {1, 2}
  Service = {"cut", "colour"}
  Links <- Skills
  Minutes <- HerMinutes
  DayLength = 2
  LastDay = 1
  DaysAhead = 1
  Chairs = {1}
  NoClient = Nobody
  Mode = {"named", "anyone", "walkin"}
  Client = {ada}
  GapAt = 1
  MaxTaps = 3
  \* The column running late: three clients, four mornings.
  Appt = {1, 2, 3}
  Morning <- Mornings
  Claims = {1, 2}
  Shift = {1, 2}
  MaxHour = 3
  MaxActs = 4
  MaxUpsets = 1
SPECIFICATION FrontSpec
INVARIANTS
  TheScreenIsOneAnswer
  NobodyWaitsInVain
  DriftIsTheTruth
  PushKeepsItsPreview
  NobodyWaitsForAnEmptyChair
  SoldIsOpenAndFree
  WhatIsProposedIsDone
PROPERTIES
  RescueMissesNobody
  OnlyActsMoveATurn
CHECK_DEADLOCK FALSE
