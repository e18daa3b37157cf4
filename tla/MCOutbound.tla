----------------------------- MODULE MCOutbound -----------------------------
(* What has to come to an end, side by side: messages to clients (Outbox),  *)
(* webhooks to other systems (Webhooks) and the requests of two desks on    *)
(* two columns (Book). part names the one a behaviour is of; the others     *)
(* stand still in their initial state.                                      *)
EXTENDS MCOutbox, Webhooks

CONSTANTS
  Component,                      \* the parts a run looks at
  p1, p2, NoClient, NoTime

VARIABLES part, rows, txn         \* rows and txn: Book

\* One endpoint, which asked for one of the two types.
MCWants == [e \in {"till"} |-> {"booked"}]

\* Two columns, no room: offers, overrides and moves racing each other.
columnVars == <<rows, txn>>
Stylist == {1, 2}
ColumnDuration == [consult |-> 1, colour |-> 3]
ColumnService == DOMAIN ColumnDuration
None == [s \in ColumnService |-> 0]
ColumnParts == [consult |-> <<>>, colour |-> <<<<0, 1>>, <<2, 3>>>>]
Teller == {"front", "back"}

Asked(p, s, t, isOverride) ==
  [status |-> "booked", provider |-> p, startAt |-> t, endAt |-> t + ColumnDuration[s],
   service |-> s, isOverride |-> isOverride, chair |-> 0, client |-> NoClient, releasedAt |-> NoTime]

ColumnBookings ==
  {Asked(1, "consult", 0, FALSE), Asked(1, "colour", 0, FALSE), Asked(1, "consult", 1, TRUE)}

Column == INSTANCE Book WITH
  Appt <- {"ada", "eve"}, Desk <- Teller, Client <- {}, Provider <- Stylist, NChairs <- 0,
  Service <- ColumnService, Duration <- ColumnDuration, BufferBefore <- None, BufferAfter <- None,
  Parts <- ColumnParts, NeedsChair <- [s \in ColumnService |-> FALSE],
  Windows <- [p \in Stylist |-> {[start |-> 0, end |-> 5]}], DayLength <- 10,
  Bookings <- ColumnBookings, Moves <- {<<1, 0>>, <<2, 1>>}, Edits <- {},
  StatusMoves <- {<<"booked", "cancelled">>}, Releases <- {},
  CorrectionWindow <- 0, UndoWindow <- 0, Grace <- 0

BothInit ==
  /\ part \in Component /\ Init /\ HooksInit /\ Column!Init
  /\ part # "outbox" => \A v \in Visit : visit[v].start = CHOOSE t \in Start : TRUE

OutboxStep == part = "outbox" /\ Next /\ UNCHANGED <<part, hookVars, columnVars>>
WebhookStep == part = "webhooks" /\ HooksNext /\ UNCHANGED <<part, vars, columnVars>>
ColumnStep == part = "column" /\ Column!Next /\ UNCHANGED <<part, vars, hookVars>>

BothSpec == BothInit /\ [][OutboxStep \/ WebhookStep \/ ColumnStep]_<<part, vars, hookVars, columnVars>>

\* The fairness of each (Outbox!Fairness, Webhooks!Fairness, Book!Fairness),
\* every step of it asked only of behaviours of its component.
BothFairSpec ==
  /\ BothSpec
  /\ \A d \in Teller :
       /\ SF_columnVars(part = "column" /\ Column!Lock(d))
       /\ WF_columnVars(/\ part = "column"
                         /\ \/ Column!AskEngine(d) \/ Column!ChooseChair(d)
                            \/ Column!WriteBooking(d) \/ Column!WriteUpdate(d))
  /\ WF_vars(part = "outbox" /\ Tick)
  /\ \A j \in Job : /\ WF_vars(part = "outbox" /\ SweepStarts(j))
                    /\ WF_vars(part = "outbox" /\ JobStep(j))
  /\ WF_hookVars(part = "webhooks" /\ HooksTick)
  /\ \A w \in Writer : /\ WF_hookVars(part = "webhooks" /\ AssignSeq(w))
                       /\ WF_hookVars(part = "webhooks" /\ WriterCommits(w))
  /\ \A s \in Sweep : /\ WF_hookVars(part = "webhooks" /\ sweepWebhooks(s))
                      /\ WF_hookVars(part = "webhooks" /\ SweepStep(s))

BothSym == Sym \cup Permutations({p1, p2})
-----------------------------------------------------------------------------
\* A message due is sent or given up on, an event an active endpoint asked for
\* is delivered or given up on, and no request waits for ever: taking both lock
\* keys in one order leaves no circle of movers (reschedule.ts).
EverythingSettles ==
  EveryMessageSettles /\ EveryDeliverySettles /\ Column!EveryRequestEnds

\* Nobody is put on time an override has taken (D-24).
OverridesStillSeen == part = "column" => Column!OverridesStillSeen
=============================================================================
