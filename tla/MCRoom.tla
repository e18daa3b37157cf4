------------------------------- MODULE MCRoom -------------------------------
(* The room twice, on the variables of the book: as desks book, cancel,     *)
(* release and take back, and as they re-service and move what is in it;    *)
(* and beside it the records of the clients (Clients), a page of the day    *)
(* (Column), and one visit's links and the pages behind them (Links).  part *)
(* names the one a behaviour is of, and Component the ones a run is about.  *)
EXTENDS MCBook, Column, Links, Clients

CONSTANT Component

VARIABLE part

\* Re-servicing and moving, on the variables of the book: a visit cancelled
\* earlier takes up one id, so that two are in play.
Edited == INSTANCE Book WITH
  Bookings <- EditBookings, Moves <- EditMoves, Edits <- {"colour", "consult"},
  StatusMoves <- EditStatusMoves

Gone == [Visit(1, "cut", 4, FALSE, NoClient) EXCEPT !.status = "cancelled"]

EditedInit ==
  /\ \E a \in Appt : rows = [x \in Appt |-> IF x = a THEN Gone ELSE NoRow]
  /\ txn = [d \in Desk |-> Idle]

ASSUME ClientsConstants

\* What a day may hold: a perm and what fits into its gap, visits beside it,
\* over it as an override, cancelled, or given up on, and one of the last hour
\* of the day before.
Sat(s, t, c, seat) == [Visit(1, s, t, FALSE, c) EXCEPT !.chair = seat]
MCShows ==
  { Sat("perm", 0, c1, 1), Sat("consult", 1, NoClient, 0), Sat("consult", 2, NoClient, 0),
    Sat("trim", 2, c1, 2), Sat("style", 3, c1, 2), Sat("cut", 4, c2, 2),
    Sat("colour", 1, c2, 1), Sat("trim", -1, c2, 2),
    [Sat("cut", 3, c1, 2) EXCEPT !.provider = 2], [Sat("style", 4, c1, 2) EXCEPT !.provider = 2],
    Visit(1, "style", 1, TRUE, NoClient), Visit(1, "consult", 4, TRUE, NoClient),
    Visit(1, "perm", 1, TRUE, NoClient),
    [Sat("style", 0, c2, 1) EXCEPT !.status = "cancelled"],
    [Sat("style", 1, c2, 1) EXCEPT !.status = "cancelled_late"],
    [Sat("style", 2, c2, 2) EXCEPT !.status = "completed"],
    [Sat("style", 3, c2, 2) EXCEPT !.status = "no_show", !.releasedAt = 4],
    [Sat("style", 1, c2, 2) EXCEPT !.status = "no_show", !.releasedAt = 1],
    [Sat("perm", 0, c2, 1) EXCEPT !.status = "no_show", !.releasedAt = 2] }

MCToday == Span(0, 6)

EmptyPage ==
  /\ table = [a \in Appt |-> NoRow] /\ page = [chair |-> NoChair]
  /\ spans = <<>> /\ LanesInit

\* A cut, and a colour with a longer notice period.
MCMenu == {[minutes |-> 1, cutoff |-> 0], [minutes |-> 2, cutoff |-> 1]}

EmptyLinks ==
  /\ visit = [status |-> "none"] /\ links = <<>> /\ sending = {} /\ held = {}
  /\ sweep = Swept /\ reminded = {} /\ tab = [t \in Tab |-> Blank] /\ clock = 0

RoomInit ==
  /\ part \in Component /\ RecordsInit
  /\ part # "records" => \A c \in Appt : client[c].who = Nobody
  /\ IF part = "edits" THEN EditedInit ELSE Init
  /\ IF part = "column" THEN ColumnInit ELSE EmptyPage
  /\ IF part = "links" THEN LinksInit ELSE EmptyLinks

BookStep ==
  part = "book" /\ Next /\ UNCHANGED <<part, recordVars, columnVars, linksVars>>
EditStep ==
  part = "edits" /\ Edited!Next /\ UNCHANGED <<part, recordVars, columnVars, linksVars>>
RecordsStep ==
  part = "records" /\ RecordsNext /\ UNCHANGED <<part, vars, columnVars, linksVars>>
ColumnStep ==
  part = "column" /\ ColumnNext /\ UNCHANGED <<part, vars, recordVars, linksVars>>
LinksStep ==
  part = "links" /\ LinksNext /\ UNCHANGED <<part, vars, recordVars, columnVars>>

RoomSpec ==
  RoomInit
  /\ [][BookStep \/ EditStep \/ RecordsStep \/ ColumnStep \/ LinksStep]_
       <<part, vars, recordVars, columnVars, linksVars>>
=============================================================================
