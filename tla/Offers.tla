------------------------------- MODULE Offers -------------------------------
(***************************************************************************)
(* Who could take a visit, and when: the searches behind "anyone on        *)
(* Thursday?" (any-provider.ts), "who can take her now?" (walk-in.ts) and   *)
(* one stylist's column (staff-actions.ts), over the slot engine's answer   *)
(* to one stylist's day.  The engine itself is the module SlotEngine and    *)
(* the room Occupancy; here a day is DayLength marks, all of them worked,   *)
(* and a candidate is refused for a visit in its way or for the room.       *)
(***************************************************************************)
EXTENDS Integers, Sequences, FiniteSets, FiniteSetsExt, SequencesExt

CONSTANTS
  Provider,     \* the stylists, numbered in displayOrder
  Service,
  Links,        \* the <<stylist, service>> pairs of ServiceProvider
  Minutes,      \* [Links -> 1 ..]: her own length of the service, in marks
  DayLength,
  LastDay,      \* the days are 0 .. LastDay
  DaysAhead,    \* NEXT_DAY_CAP
  Chairs,
  NoClient

OffersConstants ==
  /\ Provider \subseteq Nat /\ \A l \in Links : Minutes[l] \in Nat
  /\ DayLength \in Nat \ {0} /\ LastDay \in Nat

Day == 0 .. LastDay
DayOf(t) == t \div DayLength
Marks(day) == {day * DayLength + m : m \in 0 .. DayLength - 1}

\* A visit is the sequence of its services, in the order they are done
\* (VISIT-01), each at most once.
toggled(visit, s) == IF s \in ToSet(visit) THEN RemoveFirst(visit, s) ELSE Append(visit, s)

providersForVisit(visit) ==
  {p \in Provider : visit # <<>> /\ \A s \in ToSet(visit) : <<p, s>> \in Links}

Length(p, visit) ==
  LET upTo[n \in 0 .. Len(visit)] == IF n = 0 THEN 0 ELSE upTo[n - 1] + Minutes[<<p, visit[n]>>]
  IN  upTo[Len(visit)]
Span(p, visit, t) == t .. t + Length(p, visit) - 1
Body(v) == v.at .. v.endAt - 1

-----------------------------------------------------------------------------
\* The engine's answer to one stylist's day, over the rows of the book.

Live(book) == {v \in ToSet(book) : v.status = "booked"}

InTheWay(book, p, span) == \E v \in Live(book) : v.provider = p /\ Body(v) \cap span # {}

\* One client's own visits may share her chair (A-063); nobody is a stranger
\* to everybody, herself included.
Seats(book, holder, span) ==
  {c \in Chairs : \A v \in Live(book) :
     v.chair = c /\ Body(v) \cap span # {} => holder # NoClient /\ v.client = holder}

Reasons(book, p, visit, t, holder) ==
  {r \in {"overlaps-booking", "no-resource-free"} :
     \/ r = "overlaps-booking" /\ InTheWay(book, p, Span(p, visit, t))
     \/ r = "no-resource-free" /\ Seats(book, holder, Span(p, visit, t)) = {}}

\* The column of one stylist: her candidates, offered and refused (A-042).
computeDaySlots(book, p, visit, day, holder) ==
  IF p \notin providersForVisit(visit) THEN {}
  ELSE { [provider |-> p, at |-> t, reasons |-> Reasons(book, p, visit, t, holder)] :
         t \in {m \in Marks(day) : Span(p, visit, m) \subseteq Marks(day)} }

Offered(rows) == {row \in rows : row.reasons = {}}

Columns(book, visit, day, holder) ==
  UNION {computeDaySlots(book, p, visit, day, holder) : p \in Provider}

-----------------------------------------------------------------------------
\* SVC-02: the fewest booked minutes that day, then the salon's own order.
bookedMinutesOn(book, p, day) ==
  LET hers == {k \in DOMAIN book : /\ book[k].status = "booked" /\ book[k].provider = p
                                   /\ DayOf(book[k].at) = day}
  IN  Cardinality(UNION {{k} \X Body(book[k]) : k \in hers})

leastBooked(book, free, day) ==
  LET load == [p \in free |-> bookedMinutesOn(book, p, day)] IN
  CHOOSE p \in free : \A q \in free : load[p] < load[q] \/ (load[p] = load[q] /\ p <= q)

\* One row a time, naming whom she would get.
anyProviderTimes(book, visit, day, holder) ==
  LET rows == Offered(Columns(book, visit, day, holder)) IN
  { [provider |-> leastBooked(book, {row.provider : row \in {r \in rows : r.at = t}}, day),
     at |-> t, reasons |-> {}] : t \in {row.at : row \in rows} }

\* The same search for the one instant she was promised (A-071).
anyProviderAt(book, visit, at, holder) ==
  {row \in anyProviderTimes(book, visit, DayOf(at), holder) : row.at = at}

anyProviderDays(book, visit, from, holder) ==
  {day \in Day : day >= from /\ anyProviderTimes(book, visit, day, holder) # {}}

daysWithAvailability(book, p, visit, from, holder) ==
  {day \in Day : day >= from /\ Offered(computeDaySlots(book, p, visit, day, holder)) # {}}

-----------------------------------------------------------------------------
\* The walk-in's answer: everybody's soonest time; failing any, the soonest
\* following day and each stylist's soonest refused time (A-103).

Soonest(rows) ==
  {row \in rows : \A other \in rows : other.provider = row.provider => row.at <= other.at}

walkInAnswer(book, visit, day, holder) ==
  LET today == Columns(book, visit, day, holder)
      later == {d \in Day : /\ d \in day + 1 .. day + DaysAhead
                            /\ Offered(Columns(book, visit, d, holder)) # {}}
  IN  IF Offered(today) # {} THEN Soonest(Offered(today))
      ELSE Soonest(today) \cup
           IF later = {} THEN {} ELSE Soonest(Offered(Columns(book, visit, Min(later), holder)))

\* The order the rows of one instant are listed in (soonestFirst).
FirstOf(rows) == CHOOSE row \in rows : \A other \in rows \ {row} :
                   row.at < other.at \/ (row.at = other.at /\ row.provider <= other.provider)

-----------------------------------------------------------------------------
\* bookAppointment: the engine asked again inside the transaction, by the
\* client the row is written for; an override writes what it refuses and
\* holds no chair (D-30).

whyRefused(book, p, visit, at, holder) ==
  LET candidate == {row \in computeDaySlots(book, p, visit, DayOf(at), holder) : row.at = at} IN
  IF candidate = {} THEN "SlotNotOffered"
  ELSE LET reasons == UNION {row.reasons : row \in candidate} IN
       IF "overlaps-booking" \in reasons THEN "SlotTaken"
       ELSE IF reasons # {} THEN "NoResourceFree" ELSE "none"

\* Nobody but the stylist of a row could be booked at its time for this client,
\* unless she is free after all.
NobodyElse(book, visit, row, holder) ==
  \/ whyRefused(book, row.provider, visit, row.at, holder) = "none"
  \/ \A p \in Provider : whyRefused(book, p, visit, row.at, holder) # "none"

written(book, p, visit, at, client, isOverride, key) ==
  Append(book,
    [provider |-> p, visit |-> visit, at |-> at, endAt |-> at + Length(p, visit), client |-> client,
     chair |-> IF isOverride THEN 0 ELSE Min(Seats(book, client, Span(p, visit, at))),
     isOverride |-> isOverride, status |-> "booked", key |-> key])
=============================================================================
