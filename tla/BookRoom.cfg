CONSTANTS
  Component = {"book", "edits", "records", "column", "links"}
  \* Three records of what may be one person, and one row to point at them.
  ClientId = {a1, a2, a3}
  Person = {"her"}
  Fact = {"ppd"}
  ClientRow = {1}
  Reception = {d1, d2}
  Visitor = {"visitor"}
  Nobody = Nobody
  Threshold = 1
  MaxVersions = 2
  MaxRequests = 4
  a1 = a1
  a2 = a2
  a3 = a3
  c1 = c1
  c2 = c2
  d1 = d1
  d2 = d2
  NoClient = NoClient
  NoTime = NoTime
  Appt = {a1, a2, a3}
  Desk = {d1, d2}
  Client = {c1, c2}
  Provider = {1, 2}
  NChairs = 2
  Service <- MCService
  Duration <- MCDuration
  BufferBefore <- MCBufferBefore
  BufferAfter <- MCBufferAfter
  Parts <- MCParts
  NeedsChair <- MCNeedsChair
  Windows <- OneDay
  DayLength = 10
  Bookings <- RoomBookings
  Moves = {}
  Edits = {}
  StatusMoves <- RoomStatusMoves
  Releases = {1}
  Shows <- MCShows
  Today <- MCToday
  Menu <- MCMenu
  Hours24 = 2
  StartTimes = {2, 3}
  Tab = {w1}
  MaxLinks = 2
  MaxChanges = 2
  LastTick = 5
  CorrectionWindow = 0
  UndoWindow = 0
  Grace = 0
SPECIFICATION RoomSpec
INVARIANTS NoDoubleBooking NoSharedChair OffersAreHonoured EveryVisitHasItsChair
  RecordsLoseNothing ChipsShareTheWidth NothingIsLeftOut LinkLivesADayAfter
PROPERTIES RefusedOnlyIfChanged
SYMMETRY Sym
CHECK_DEADLOCK FALSE
