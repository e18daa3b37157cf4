SPECIFICATION DaySpec
CONSTANTS
  c1 = c1
  NoClient = NoClient
  v1 = v1
  v2 = v2
  Component = {"online"}
  \* The hours: two desks, two stylists with a visit each, an override for
  \* each desk, two absences.
  ClockMarks = 6
  Editor = {1, 2}
  Stylist = {"dana", "priya"}
  Salon = "salon"
  Appointment = {"v1", "v2"}
  BookedAs <- DiaryPage
  Usual <- UsualHours
  WindowForm <- Forms
  AbsenceForm <- Absences
  Nobody = "nobody"
  MoveTo = {0, 2}
  PushBy <- PushSteps
  MaxOverrides = 2
  MaxAbsences = 2
  MaxEdits = 3
  \* The website: one day of two marks, and two chairs.
  Provider = {1, 2}
  Service = {"cut", "colour"}
  Links <- Skills
  Minutes <- HerMinutes
  DayLength = 2
  LastDay = 0
  DaysAhead = 1
  Chairs = {1, 2}
  Anyone = Anyone
  Post = {1, 2}
  BookLimit = 1
  PublicBookings = 5
  MaxUpsets = 1
  \* The lists: a day of two moments; a debt and an absence count for moments
  \* and for the day itself, so that both come about and lapse.
  Visit = {v1, v2}
  Client = {c1}
  NoVisit <- Absent
  Telephone = {"desk"}
  Starts = {1, 4}
  MomentsADay = 2
  Window = {1, 2}
  LapsedWeeks = 3
  Reliability = 0
  Notice = 0
  MaxNow = 6
  CorrectionWindow = 9
  UndoWindow = 1
  Grace = 1
  \* Three requests under one key, long enough for a claim to be abandoned and
  \* for an answer to expire.
  Request = {1, 2, 3}
  Key = {"key"}
  Hash = {"h", "g"}
  TTL = 2
  StaleAfter = 1
  MaxClock = 2
PROPERTIES ConfirmedMeansBooked
CHECK_DEADLOCK FALSE
