-------------------------------- MODULE Hours --------------------------------
(***************************************************************************)
(* The two axes of the calendar and the arithmetic over each: windows and  *)
(* breaks in marks of the wall clock, counted from midnight of the day     *)
(* asked about, and spans of physical instants, with the zone that joins   *)
(* them.  No state: the engine, the day grid and the impact list all read  *)
(* a day through these operators.                                          *)
(***************************************************************************)
EXTENDS Integers, Sequences, SequencesExt

CONSTANT DayLength     \* marks in a day of the wall clock

Span(s, e) == [start |-> s, end |-> e]

overlaps(x, y) == x.start < y.end /\ y.start < x.end

Larger(a, b) == IF a > b THEN a ELSE b
Smaller(a, b) == IF a < b THEN a ELSE b

Ticks(x) == x.start .. x.end - 1

Before(x, y) == x.start < y.start \/ (x.start = y.start /\ x.end < y.end)

-----------------------------------------------------------------------------
(* Spans of either axis.                                                   *)

\* Going through them in their order, as after a sort.
inOrder(op(_, _), base, spans) ==
  MapThenFoldSet(LAMBDA x, sofar : op(sofar, x), base, LAMBDA x : x,
                 LAMBDA some : CHOOSE x \in some : \A y \in some : ~Before(x, y), spans)

\* Mutant: a span that merely touches the last one starts a run of its own.
Mutunion(spans) ==
  LET Merge(merged, x) ==
        IF x.end <= x.start THEN merged
        ELSE IF merged = <<>> \/ Last(merged).end <= x.start THEN Append(merged, x)
        ELSE [merged EXCEPT ![Len(merged)].end = Larger(@, x.end)]
  IN inOrder(Merge, <<>>, spans)

\* A span that overlaps or touches the last run lengthens it; empty spans vanish.
joined(merged, x) ==
  IF x.end <= x.start THEN merged
  ELSE IF merged = <<>> \/ Last(merged).end < x.start THEN Append(merged, x)
  ELSE [merged EXCEPT ![Len(merged)].end = Larger(@, x.end)]

union(spans) == inOrder(joined, <<>>, spans)

\* Mutant: of a span with a block in its middle only the part before it stays.
MutWithout(x, block) ==
  IF ~overlaps(x, block) THEN {x}
  ELSE IF block.start > x.start THEN {Span(x.start, block.start)}
  ELSE {Span(block.end, x.end)}

\* One span with one block taken out: up to two pieces.
Without(x, block) ==
  IF ~overlaps(x, block) THEN {x}
  ELSE {y \in {Span(x.start, block.start), Span(block.end, x.end)} : y.start < y.end}

takenOut(remaining, block) == UNION {Without(x, block) : x \in remaining}

\* Block by block over the merged busy set.
subtractSpans(spans, taken) == inOrder(takenOut, ToSet(union(spans)), ToSet(union(taken)))

-----------------------------------------------------------------------------
(* The wall clock.  A stored window is [open, close, endsNextDay, breaks]  *)
(* with times of day; a minute window is [start, end, breaks] in marks     *)
(* from midnight, so that an overnight close lies past DayLength.          *)

Clock == 0 .. DayLength - 1

\* Mutant: a break lifted past midnight by its start alone.
Mutlifted(b, openMin) ==
  LET lift == IF b.open < openMin THEN DayLength ELSE 0
  IN Span(b.open + lift, b.close + lift)

\* Each edge of a break is lifted past midnight at most once.
lifted(b, openMin) ==
  LET from == IF b.open < openMin THEN b.open + DayLength ELSE b.open
      to   == IF b.close <= from THEN b.close + DayLength ELSE b.close
  IN Span(from, to)

toMinuteWindow(w) ==
  [start |-> w.open,
   end |-> IF w.endsNextDay THEN w.close + DayLength ELSE w.close,
   breaks |-> {lifted(b, w.open) : b \in w.breaks}]

\* What toMinuteWindow does not throw on: the only windows ever stored.
Storable(w) ==
  LET m == toMinuteWindow(w) IN
  /\ m.start < m.end
  /\ w.endsNextDay => w.close < w.open
  /\ \A b \in m.breaks : m.start <= b.start /\ b.end <= m.end
  /\ \A b \in m.breaks, c \in m.breaks : b # c => ~overlaps(b, c)

clipBreaks(breaks, from, to) ==
  ToSet(union({Span(Larger(b.start, from), Smaller(b.end, to)) : b \in breaks}))

\* Windows that overlap or touch become one, with the breaks of both.
unionWindows(windows) ==
  LET Join(last, w) ==
        LET to == Larger(last.end, w.end)
        IN [start |-> last.start, end |-> to,
            breaks |-> clipBreaks(last.breaks \cup w.breaks, last.start, to)]
      Merge(merged, w) ==
        IF w.end <= w.start THEN merged
        ELSE IF merged = <<>> \/ Last(merged).end < w.start THEN Append(merged, w)
        ELSE [merged EXCEPT ![Len(merged)] = Join(@, w)]
  IN inOrder(Merge, <<>>, windows)

\* Mutant: only the stylist's own breaks survive the intersection.
MutMeet(b, p) ==
  LET from == Larger(b.start, p.start)
      to   == Smaller(b.end, p.end)
  IN [start |-> from, end |-> to, breaks |-> clipBreaks(p.breaks, from, to)]

Meet(b, p) ==
  LET from == Larger(b.start, p.start)
      to   == Smaller(b.end, p.end)
  IN [start |-> from, end |-> to, breaks |-> clipBreaks(b.breaks \cup p.breaks, from, to)]

\* Open means that the salon and the stylist are both open.
intersectWindows(house, hers) ==
  unionWindows({m \in {Meet(b, p) : b \in ToSet(house), p \in ToSet(hers)} : m.start < m.end})

\* A pattern is [weekly, overrides]: the override of the day, when there is
\* one, is [isClosed, windows] and replaces the weekly windows whole.
effectiveWindows(pattern) ==
  LET read(windows) == unionWindows({toMinuteWindow(w) : w \in windows}) IN
  IF pattern.overrides = {} THEN read(pattern.weekly)
  ELSE LET override == CHOOSE o \in pattern.overrides : TRUE IN
       IF override.isClosed THEN <<>> ELSE read(override.windows)

resolveAvailableWindows(house, hers) ==
  intersectWindows(effectiveWindows(house), effectiveWindows(hers))

toWallTime(mark) == mark % DayLength

toWindowInput(m) ==
  [open |-> toWallTime(m.start), close |-> toWallTime(m.end),
   endsNextDay |-> m.end >= DayLength,
   breaks |-> {[open |-> toWallTime(b.start), close |-> toWallTime(b.end)] : b \in m.breaks}]

-----------------------------------------------------------------------------
(* The zone.  Instants are counted from midnight of the day too; until     *)
(* zone.at the wall clock shows the instant plus zone.before, and from     *)
(* then on plus zone.after.                                                *)

toLabel(i, zone) == IF i < zone.at THEN i + zone.before ELSE i + zone.after

\* The instants that carry the label, or, in a gap, the two readings of it.
resolve(mark, zone) ==
  LET readings == {mark - zone.before, mark - zone.after}
      real     == {i \in readings : toLabel(i, zone) = mark}
      at       == IF real = {} THEN readings ELSE real
  IN [kind |-> IF real = {} THEN "gap" ELSE IF real = {CHOOSE i \in real : TRUE} THEN "unique" ELSE "ambiguous",
      earlier |-> CHOOSE i \in at : \A j \in at : i <= j,
      later |-> CHOOSE i \in at : \A j \in at : j <= i]

\* Mutant: every edge takes the earlier reading.
MutresolveEdge(mark, zone, edge) == resolve(mark, zone).earlier

\* In a gap both edges take the later reading; an hour that happens twice is
\* open from its first minute to its last.
resolveEdge(mark, zone, edge) ==
  LET r == resolve(mark, zone)
  IN IF r.kind = "ambiguous" /\ edge = "open" THEN r.earlier ELSE r.later

\* Mutant: a break is always read on the day its window opens.
MutresolveBreak(b, start, w, zone) ==
  Span(resolveEdge(b.open, zone, "open"), resolveEdge(b.close, zone, "close"))

\* Both edges of a break are read on the day, or, when it would start before
\* the window does, both on the next.
resolveBreak(b, start, w, zone) ==
  LET today    == Span(resolveEdge(b.open, zone, "open"), resolveEdge(b.close, zone, "close"))
      tomorrow == Span(resolveEdge(b.open + DayLength, zone, "open"),
                       resolveEdge(b.close + DayLength, zone, "close"))
  IN IF w.endsNextDay /\ today.start < start THEN tomorrow ELSE today

resolveWindow(w, zone) ==
  LET start == resolveEdge(w.open, zone, "open")
      close == IF w.endsNextDay THEN w.close + DayLength ELSE w.close
  IN [span |-> Span(start, resolveEdge(close, zone, "close")),
      breaks |-> {resolveBreak(b, start, w, zone) : b \in w.breaks}]
=============================================================================
