CONSTANTS
  a1 = a1
  a2 = a2
  a3 = a3
  c1 = c1
  c2 = c2
  d1 = d1
  d2 = d2
  NoClient = NoClient
  NoTime = NoTime
  Appt = {a1, a2}
  Desk = {d1, d2}
  Client = {}
  Provider = {1}
  NChairs = 2
  Service <- MCService
  Duration <- MCDuration
  BufferBefore <- MCBufferBefore
  BufferAfter <- MCBufferAfter
  Parts <- MCParts
  NeedsChair <- MCNeedsChair
  Windows <- OneDay
  DayLength = 10
  Bookings <- ResoldBookings
  Moves <- ResoldMove
  Edits = {}
  StatusMoves <- Reinstated
  Releases = {}
  CorrectionWindow = 0
  UndoWindow = 0
  Grace = 0
SPECIFICATION Spec
PROPERTIES TimeSoldStaysSold
CHECK_DEADLOCK FALSE
