------------------------------- MODULE Column -------------------------------
(***************************************************************************)
(* One stylist's day, or one chair's, as it is drawn: which visits are     *)
(* chips and over which extent (loadColumn, loadRoom), where the free runs *)
(* lie between them, and how what is on at once shares the width (Lanes).  *)
(* A behaviour is one page: the book as it was read, laid out.             *)
(*                                                                         *)
(* Times are ticks from the top of the grid.  Breaks and absences, which   *)
(* are bands behind the chips, are left out: a column's hours are the      *)
(* windows between them.                                                   *)
(***************************************************************************)
EXTENDS Occupancy, Lanes

Day == INSTANCE Hours WITH DayLength <- 1

CONSTANTS
  Shows,       \* rows the book may hold
  Today        \* from midnight to midnight

\* A visit has its length, and a day's windows are a list.
ASSUME ColumnAssumption ==
  /\ IsFiniteSet(Appt)
  /\ Shows \subseteq Row
  /\ \A r \in Shows : r.startAt < r.endAt
  /\ Windows \in [Provider -> SUBSET [start : Int, end : Int]]
  /\ \A p \in Provider : IsFiniteSet(Windows[p])
  /\ Today \in [start : Int, end : Int] /\ Today.start < Today.end

VARIABLES
  table,       \* the book as the page read it
  page         \* whose day: [provider, onRoster], or a [chair]

columnVars == <<table, page, lanesVars>>

Cancelled == {"cancelled", "cancelled_late"}

First(ts) == CHOOSE t \in ts : \A u \in ts : t <= u
Latest(ts) == CHOOSE t \in ts : \A u \in ts : u <= t
-----------------------------------------------------------------------------
(* The visits of a column.                                                 *)

\* findBusyAppointments: one row per worked span of whoever holds her time.
busySpans(rs, a) == IF a \in Live(rs) THEN busy(rs[a]) ELSE {}

\* Mutant: of a visit's worked spans the last one read wins (A-093).
Mutextent(rs, a) ==
  LET spansOf == busySpans(rs, a) IN
  IF spansOf = {} THEN Span(rs[a].startAt, rs[a].endAt)
  ELSE CHOOSE s \in spansOf : \A t \in spansOf : t.start <= s.start

\* From the first worked span to the last, or her booked time if she holds none.
extent(rs, a) ==
  LET spansOf == busySpans(rs, a) IN
  IF spansOf = {} THEN Span(rs[a].startAt, rs[a].endAt)
  ELSE Span(First({s.start : s \in spansOf}), Latest({s.end : s \in spansOf}))

belongsHere(r, p) ==
  \E s \in {Today} \cup Windows[p] : overlaps(Span(r.startAt, r.endAt), s)

listed(rs, p) ==
  {a \in Appt : /\ rs[a] # NoRow /\ rs[a].provider = p
                /\ belongsHere(rs[a], p)
                /\ busySpans(rs, a) # {} \/ rs[a].status \in Cancelled}

\* A column off the roster offers nothing (A-098).
gaps(rs, p, onRoster) ==
  IF onRoster
  THEN Day!subtractSpans(Windows[p],
         UNION {busySpans(rs, a) : a \in {x \in Appt : rs[x] # NoRow /\ rs[x].provider = p}})
  ELSE {}

\* Whose processing time an instant is: the visits with it between two worked
\* spans, each with the instant its work goes on.
processingGapContaining(rs, as, at) ==
  { [owner |-> a, backAt |-> First({s.start : s \in {x \in busySpans(rs, a) : x.start > at}})]
    : a \in {x \in as : /\ \A s \in busySpans(rs, x) : ~(s.start <= at /\ at < s.end)
                        /\ \E s, t \in busySpans(rs, x) : s.end <= at /\ at < t.start} }

\* The grid goes through them in the order of the day.
owner(rs, p, gap) ==
  LET found == processingGapContaining(rs, listed(rs, p), gap.start)
  IN {f \in found : \A g \in found : rs[f.owner].startAt <= rs[g.owner].startAt}
-----------------------------------------------------------------------------
(* What is laid out.                                                       *)

chip(s) == [top |-> s.start, minutes |-> s.end - s.start]

coming(rs, p) == listed(rs, p) \cap Live(rs)
vacated(rs, p) == listed(rs, p) \ Live(rs)

\* withLanes: the visits, and the gaps over those nobody comes for any more.
column(rs, p, onRoster) ==
  LET beside == {g \in gaps(rs, p, onRoster) : \E a \in vacated(rs, p) : overlaps(extent(rs, a), g)}
  IN [x \in ({"visit"} \X listed(rs, p)) \cup ({"gap"} \X beside) |->
        IF x[1] = "gap" THEN chip(x[2]) ELSE chip(extent(rs, x[2]))]

\* The other clients of the hour, in words for the page without geometry.
concurrent(rs, p, a) ==
  IF a \in coming(rs, p)
  THEN {b \in coming(rs, p) \ {a} : overlaps(extent(rs, a), extent(rs, b))} ELSE {}

\* Who holds a chair.
loadRoom(rs, c) == {a \in Live(rs) : rs[a].chair = c}

\* A chair's holds, clamped to the hours on the screen.
track(rs, c) ==
  LET clamped(a) == Span(Latest({Today.start, blockedRange(rs[a]).start}),
                         First({Today.end, blockedRange(rs[a]).end}))
      held == {a \in loadRoom(rs, c) : clamped(a).start < clamped(a).end}
  IN [x \in {"hold"} \X held |-> chip(clamped(x[2]))]

ColumnInit ==
  /\ table \in [Appt -> Shows \cup {NoRow}]
  /\ \A a \in Appt : table[a] # NoRow => accepted(table, a, table[a])
  /\ \/ \E p \in Provider, onRoster \in BOOLEAN :
          page = [provider |-> p, onRoster |-> onRoster] /\ spans = column(table, p, onRoster)
     \/ \E c \in Chair : page = [chair |-> c] /\ spans = track(table, c)
  /\ LanesInit

ColumnNext == LanesNext /\ UNCHANGED <<table, page>>

ColumnSpec == ColumnInit /\ [][ColumnNext]_columnVars
-----------------------------------------------------------------------------
OfAStylist == "provider" \in DOMAIN page

\* A visit of the last day or the next holds an instant of this one by its
\* buffer: it is on its own day's page.
BufferOfAnotherDay(p, t) ==
  \E a \in Live(table) :
    LET r == table[a] IN
    /\ r.provider = p
    /\ r.endAt <= Today.start \/ Today.end <= r.startAt
    /\ ~(r.startAt <= t /\ t < r.endAt)
    /\ \E s \in busySpans(table, a) : s.start <= t /\ t < s.end

\* Nothing of her hours is a hole in the page: each moment is for sale or under
\* the chip of whoever has it (A-093: "the hour Dana actually spends applying
\* it showed as empty column"), but for the buffers of another day's visits; a
\* run in somebody's processing time is over by the time her work goes on; and
\* two visits that are worked on at once say so of one another, since a list
\* prints them as if one followed the other.
NothingIsLeftOut ==
  OfAStylist =>
    LET p == page.provider IN
    /\ \A w \in Windows[p] : \A t \in w.start .. w.end - 1 :
         \/ ~page.onRoster
         \/ \E g \in gaps(table, p, TRUE) : g.start <= t /\ t < g.end
         \/ \E a \in coming(table, p) : extent(table, a).start <= t /\ t < extent(table, a).end
         \/ BufferOfAnotherDay(p, t)
    /\ \A g \in gaps(table, p, page.onRoster) :
         \A f \in owner(table, p, g) : g.end <= f.backAt
    /\ \A a, b \in coming(table, p) :
         (a # b /\ \E s \in busySpans(table, a), t \in busySpans(table, b) : rangesMeet(s, t))
           => b \in concurrent(table, p, a)

\* The grid's "back at" and the booking panel's "can never name a different
\* return time for the same gap" (free-runs.ts:275).  No run checks it, and it
\* is not kept: the grid prints the end of the run, the panel when the owner's
\* work goes on, and a cut sold into the middle of the processing time lies
\* between the two.
ReturnTimesAgree ==
  OfAStylist =>
    \A g \in gaps(table, page.provider, page.onRoster) :
      \A f \in owner(table, page.provider, g) : g.end = f.backAt
=============================================================================
