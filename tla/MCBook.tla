------------------------------- MODULE MCBook -------------------------------
(* Small instances of Book: what each run asks for is in its cfg.          *)
EXTENDS Book, TLC

CONSTANTS a1, a2, a3, c1, c2, d1, d2

\* A visit of one tick, one with a trailing buffer, a colour with a gap the
\* stylist is free in, a consultation that needs no chair, a longer visit
\* without a pattern, and a perm with a long gap.
MCDuration == [cut |-> 1, trim |-> 1, colour |-> 3, consult |-> 1, style |-> 2, perm |-> 5]
MCBufferBefore == [cut |-> 0, trim |-> 0, colour |-> 0, consult |-> 0, style |-> 0, perm |-> 0]
MCBufferAfter == [cut |-> 0, trim |-> 1, colour |-> 1, consult |-> 0, style |-> 0, perm |-> 0]
MCParts == [cut |-> <<>>, trim |-> <<>>, colour |-> <<<<0, 1>>, <<2, 3>>>>, consult |-> <<>>,
            style |-> <<>>, perm |-> <<<<0, 1>>, <<4, 5>>>>]
MCNeedsChair == [cut |-> TRUE, trim |-> TRUE, colour |-> TRUE, consult |-> FALSE,
                 style |-> TRUE, perm |-> TRUE]
MCService == {"cut", "trim", "colour", "consult", "style", "perm"}

Visit(p, s, t, isOverride, c) ==
  [status |-> "booked", provider |-> p, startAt |-> t, endAt |-> t + MCDuration[s],
   service |-> s, isOverride |-> isOverride, chair |-> 0, client |-> c,
   releasedAt |-> NoTime]

\* Two columns, no room: offers, overrides and moves racing each other.
ColumnBookings ==
  { Visit(1, "consult", 0, FALSE, NoClient), Visit(1, "consult", 1, FALSE, NoClient),
    Visit(2, "consult", 1, FALSE, NoClient),
    Visit(1, "colour", 0, FALSE, NoClient), Visit(1, "consult", 1, TRUE, NoClient) }
ColumnMoves == {<<1, 0>>, <<2, 0>>, <<2, 1>>}
NoChairNeeded == [s \in MCService |-> FALSE]
ColumnStatusMoves == {<<"booked", "cancelled">>}

\* Two columns, two chairs, two clients and a walk-in: seats taken, freed, cut
\* short and taken back.
RoomBookings ==
  { Visit(1, "colour", 0, FALSE, c1), Visit(2, "trim", 3, FALSE, c1),
    Visit(2, "cut", 3, FALSE, c2), Visit(1, "cut", 2, FALSE, NoClient) }
RoomStatusMoves == {<<"booked", "cancelled">>, <<"cancelled", "booked">>,
                    <<"booked", "no_show">>, <<"no_show", "completed">>}

\* Visits re-serviced and moved at once, one of them a no-show given up on.
EditBookings ==
  { Visit(1, "trim", 0, FALSE, NoClient), Visit(1, "consult", 2, FALSE, NoClient) }
EditMoves == {<<1, 3>>}
EditStatusMoves == {<<"booked", "cancelled">>}

\* A visit cancelled by mistake, and an override moved into the time it left.
ResoldBookings ==
  { Visit(1, "consult", 1, FALSE, NoClient), Visit(1, "consult", 3, TRUE, NoClient) }
ResoldMove == {<<1, 1>>}
Reinstated == {<<"booked", "cancelled">>, <<"cancelled", "booked">>}

\* One visit, cancelled or checked in while a desk is moving it.
OneBooking == {Visit(1, "consult", 1, FALSE, NoClient)}
OneMove == {<<1, 2>>}
Leaves == {<<"booked", "cancelled">>, <<"booked", "checked_in">>}

\* One visit, lengthened by one desk while another is moving it.
OneTrim == {Visit(1, "trim", 0, FALSE, NoClient)}

OneDay == [p \in Provider |-> {Span(0, 5)}]

Sym == Permutations(Appt) \cup Permutations(Desk)
=============================================================================
