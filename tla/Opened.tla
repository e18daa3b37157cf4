------------------------------- MODULE Opened -------------------------------
(***************************************************************************)
(* "What's opened up": the list of time that was given back and is still   *)
(* empty, the sentence a release is announced with, and the waiting        *)
(* clients the time is matched against.                                    *)
(*                                                                         *)
(* Nothing of it is stored.  Each reading derives the spans again, from    *)
(* the status column, from the payloads of four kinds of events and from   *)
(* the free runs of the day; the operations below are the ones that give   *)
(* time back or sell it, each committed whole (Book has their races).      *)
(***************************************************************************)
EXTENDS Occupancy

LOCAL Day == INSTANCE Hours WITH DayLength <- 1

CONSTANTS
  Bookings,    \* rows somebody may book
  Moves,       \* <<provider, start>> a visit may be moved to
  Edits,       \* services a visit may be changed to
  Waiting,     \* waitlist entries: [client, service]
  Lookback,    \* how long a freed slot stays news
  MaxNow, MaxLog        \* bounds

VARIABLES
  appt,        \* the committed table
  updatedAt,   \* appointment -> when its row was last written, of a freed row
  log,         \* the events that vacate time, oldest first
  now,
  gave         \* appointment -> what its last change let go of: [provider, span, at], or nothing

vars == <<appt, updatedAt, log, now, gave>>

Larger(a, b) == IF a > b THEN a ELSE b
Smaller(a, b) == IF a < b THEN a ELSE b
Minutes(x) == x.end - x.start
Meet(x, y) == Span(Larger(x.start, y.start), Smaller(x.end, y.end))

-----------------------------------------------------------------------------
(* Free runs, and what is left in them of a span that was given back.      *)

\* The column's hours less its busy set, the visits in except left out.
freeRunsFor(rs, p, except) ==
  Day!subtractSpans(Windows[p],
    UNION {busy(rs[b]) : b \in {x \in Live(rs) \ except : rs[x].provider = p}})

\* Mutant: the longest run the span touches (A-119).
MutBetter(r, s, live) == Minutes(r) > Minutes(s) \/ (Minutes(r) = Minutes(s) /\ r.start <= s.start)

\* More of the span, then the longer run, then the earlier.
Better(r, s, live) ==
  LET mine == Minutes(Meet(r, live))  other == Minutes(Meet(s, live)) IN
  \/ mine > other
  \/ mine = other /\ (Minutes(r) > Minutes(s) \/ (Minutes(r) = Minutes(s) /\ r.start <= s.start))

\* The run holding the most of what is left of the span, as a set of at most one.
pickFreedSpan(runs, span, at) ==
  LET live    == Span(Larger(span.start, at), span.end)
      touched == {r \in runs : Minutes(Meet(r, live)) > 0}
  IN { [run |-> r, remainder |-> Meet(r, live)]
       : r \in {x \in touched : \A y \in touched : Better(x, y, live)} }

freedSpanNow(rs, p, span, at) == pickFreedSpan(freeRunsFor(rs, p, {}), span, at)

Footprint(s) == BufferBefore[s] + Duration[s] + BufferAfter[s]

\* A piece nothing on the price list fits into is not worth a call.
fitsFreedSpan(x) == \E s \in Service : Footprint(s) <= Minutes(x)

-----------------------------------------------------------------------------
(* The list.                                                               *)

Candidate(a, key, p, span) == [appt |-> a, key |-> key, provider |-> p, span |-> span]

\* Past this it is not what just opened up, it is an empty column.
recent(stamp, at) == stamp >= at - Lookback

\* The whole visit given back: the row still knows its range, and the last
\* write of a row in a terminal status passes for its cancellation.
cancelledCandidates(rs, stamps, at) ==
  { Candidate(a, 0, rs[a].provider, blockedRange(rs[a]))
    : a \in {x \in Appt : /\ rs[x].status \in SlotFreeing /\ ~rs[x].isOverride
                          /\ blockedRange(rs[x]).end > at /\ recent(stamps[x], at)} }

Unmoved == 0   \* a move within one column does not name the column

\* What an event let go of, read beside the row as it is now.
vacatedSpan(e, r) ==
  CASE e.type = "services_changed" -> [provider |-> r.provider,
                                       span |-> Span(blockedRange(r).end, e.fromBlockedEnd)]
    [] e.type = "rescheduled" ->
         [provider |-> IF e.fromProvider = Unmoved THEN r.provider ELSE e.fromProvider,
          span |-> Span(e.from - (r.startAt - blockedRange(r).start),
                        e.fromEndAt + (blockedRange(r).end - r.endAt))]
    [] e.type = "time_released" -> [provider |-> r.provider,
                                    span |-> Span(e.releasedAt, e.fromBlockedEnd)]
    [] e.type = "provider_changed" -> [provider |-> e.fromProvider, span |-> blockedRange(r)]

\* Mutant: only what has not begun yet (A-067, A-069, A-128).
MutnotOver(span, at) == span.start < span.end /\ span.start > at

notOver(span, at) == span.start < span.end /\ span.end > at

\* Part of a visit given back, or the whole of it somewhere else now.
vacatedCandidates(rs, events, at) ==
  { Candidate(events[n].appt, n, vacatedSpan(events[n], rs[events[n].appt]).provider,
              LET span == vacatedSpan(events[n], rs[events[n].appt]).span
              IN Span(Larger(span.start, at), span.end))
    : n \in {i \in DOMAIN events :
               LET r == rs[events[i].appt] IN
               /\ recent(events[i].createdAt, at)
               /\ r.status \notin SlotFreeing /\ ~r.isOverride
               /\ notOver(vacatedSpan(events[i], r).span, at)} }

\* Every candidate long enough to sell, cut down to what is left of it.
listOpenedSlots(rs, stamps, events, at) ==
  LET sellable == {c \in cancelledCandidates(rs, stamps, at) \cup vacatedCandidates(rs, events, at) :
                     fitsFreedSpan(c.span)}
  IN UNION { { [c EXCEPT !.span = f.remainder]
               : f \in {x \in freedSpanNow(rs, c.provider, c.span, at) : fitsFreedSpan(x.remainder)} }
             : c \in sellable }

-----------------------------------------------------------------------------
(* What a release says, and who is matched.                                *)

\* Mutant: the sentence speaks of the whole range (A-131).
MutreleasePieces(rs, a, from, at) == {Span(from, blockedRange(rs[a]).end)}

\* The piece the sentence names as listed, out of the runs without the visit.
releasePieces(rs, a, from, at) ==
  { f.remainder : f \in
      {x \in pickFreedSpan(freeRunsFor(rs, rs[a].provider, {a}),
                           Span(from, blockedRange(rs[a]).end), at) : fitsFreedSpan(x.remainder)} }

\* The visit a waiting client would get.
Asked(p, entry, t) ==
  [status |-> "booked", provider |-> p, startAt |-> t, endAt |-> t + Duration[entry.service],
   service |-> entry.service, isOverride |-> FALSE, chair |-> NoChair,
   client |-> entry.client, releasedAt |-> NoTime]

\* The engine's answer to the desk: no notice period, and asked in her name.
offeredFor(rs, p, entry, at) ==
  {t \in UNION {w.start .. w.end - 1 : w \in Windows[p]} :
     t >= at /\ offered(rs, NoRow, Asked(p, entry, t))}

\* Mutant: her buffers have to lie inside the run too.
MutInside(r, run) == Envelope(r).start >= run.start /\ Envelope(r).end <= run.end

\* Both edges of the body: a buffer may lie outside the hours.
Inside(r, run) == r.startAt >= run.start /\ r.endAt <= run.end

matchFreedSlot(rs, p, span, at) ==
  { entry \in Waiting :
      \E f \in freedSpanNow(rs, p, span, at), t \in offeredFor(rs, p, entry, at) :
        Inside(Asked(p, entry, t), f.run) }

-----------------------------------------------------------------------------
Init ==
  /\ appt = [a \in Appt |-> NoRow]
  /\ updatedAt = [a \in Appt |-> 0]
  /\ log = <<>>
  /\ now = 0
  /\ gave = [a \in Appt |-> {}]

\* The row written, if the constraints accept it, and what the old row held
\* on its column that the new one does not.
Writes(a, r, vacated) ==
  /\ accepted(appt, a, r)
  /\ appt' = [appt EXCEPT ![a] = r]
  /\ updatedAt' = [updatedAt EXCEPT ![a] = IF r.status \in SlotFreeing THEN now ELSE 0]
  /\ gave' = [gave EXCEPT ![a] =
                {[provider |-> appt[a].provider, span |-> v, at |-> now] : v \in vacated}]
  /\ UNCHANGED now

Logs(e) == Len(log) < MaxLog /\ log' = Append(log, e)

held(a) == IF appt[a].isOverride THEN {} ELSE {blockedRange(appt[a])}

\* An override is written over whatever is there; anything else is offered.
bookAppointment(a, r) ==
  /\ appt[a] = NoRow
  /\ r.isOverride \/ offered(appt, a, r)
  /\ \E c \in IF NeedsChair[r.service] /\ ~r.isOverride
              THEN findFreeResource(appt, a, r, NoChair) ELSE {NoChair} :
       Writes(a, [r EXCEPT !.chair = c], {})
  /\ UNCHANGED log

cancel(a) ==
  /\ appt[a].status = "booked"
  /\ Writes(a, [appt[a] EXCEPT !.status = "cancelled"], held(a))
  /\ UNCHANGED log

\* A visit brought back takes its time again.
reinstate(a) ==
  /\ appt[a].status = "cancelled"
  /\ \E c \in IF appt[a].chair = NoChair THEN {NoChair}
              ELSE findFreeResource(appt, a, appt[a], appt[a].chair) :
       Writes(a, [appt[a] EXCEPT !.status = "booked", !.chair = c], {})
  /\ UNCHANGED log

\* The chair of a visit whose services were all of one kind stays with it.
changeVisitServices(a, s) ==
  LET r == appt[a]  changed == [r EXCEPT !.service = s, !.endAt = r.startAt + Duration[s]] IN
  /\ canChangeServices(r.status) /\ s # r.service /\ NeedsChair[s] = NeedsChair[r.service]
  /\ Duration[s] > Duration[r.service] => offered(appt, a, changed)
  /\ Writes(a, changed, {Span(blockedRange(changed).end, x.end) : x \in held(a)})
  /\ Logs([type |-> "services_changed", appt |-> a, createdAt |-> now, fromBlockedEnd |-> r.endAt + BufferAfter[r.service]])

rescheduleAppointment(a, p, t) ==
  LET r == appt[a]
      moved == [r EXCEPT !.provider = p, !.startAt = t, !.endAt = t + Duration[r.service]]
  IN
  /\ r.status = "booked" /\ t # r.startAt /\ offered(appt, a, moved)
  /\ \E c \in IF r.chair = NoChair THEN {NoChair} ELSE findFreeResource(appt, a, moved, r.chair) :
       Writes(a, [moved EXCEPT !.chair = c], held(a))
  /\ Logs([type |-> "rescheduled", appt |-> a, createdAt |-> now, from |-> r.startAt, fromEndAt |-> r.endAt,
           fromProvider |-> IF p = r.provider THEN Unmoved ELSE r.provider])

\* Neither the hours nor the engine is asked, and the chair stays.
reassignAppointment(a, p) ==
  /\ appt[a].status \in Active /\ p # appt[a].provider
  /\ Writes(a, [appt[a] EXCEPT !.provider = p], held(a))
  /\ Logs([type |-> "provider_changed", appt |-> a, createdAt |-> now, fromProvider |-> appt[a].provider])

noShow(a) ==
  /\ appt[a].status = "booked" /\ now >= appt[a].startAt
  /\ Writes(a, [appt[a] EXCEPT !.status = "no_show"], {})
  /\ UNCHANGED log

releasable(r, at) ==
  r.status = "no_show" /\ r.releasedAt = NoTime /\ r.startAt <= at /\ at < r.endAt

Released(a) == [type |-> "time_released", appt |-> a, createdAt |-> now, releasedAt |-> now,
                fromBlockedEnd |-> blockedRange(appt[a]).end]

releaseNoShowTime(a) ==
  /\ releasable(appt[a], now)
  /\ Writes(a, [appt[a] EXCEPT !.releasedAt = now], {Span(now, x.end) : x \in held(a)})
  /\ Logs(Released(a))

\* A note or an acknowledgment refreshes the row and nothing else; of a row
\* that is not freed nobody reads the stamp, and it is left out.
setAppointmentNotes(a) ==
  /\ appt[a] # NoRow /\ appt[a].status \in SlotFreeing /\ updatedAt' = [updatedAt EXCEPT ![a] = now]
  /\ UNCHANGED <<appt, log, now, gave>>

Tick == now < MaxNow /\ now' = now + 1 /\ UNCHANGED <<appt, updatedAt, log, gave>>

Next ==
  \/ \E a \in Appt : \/ \E r \in Bookings : bookAppointment(a, r)
                     \/ setAppointmentNotes(a)
                     \/ appt[a] # NoRow /\ ( \/ cancel(a) \/ reinstate(a)
                                             \/ \E s \in Edits : changeVisitServices(a, s)
                                             \/ \E m \in Moves : rescheduleAppointment(a, m[1], m[2])
                                             \/ \E p \in Provider : reassignAppointment(a, p)
                                             \/ noShow(a) \/ releaseNoShowTime(a))
  \/ Tick

Spec == Init /\ [][Next]_vars

-----------------------------------------------------------------------------
Listed == listOpenedSlots(appt, updatedAt, log, now)

\* Time given back is not forgotten while it can be sold and is still news
\* (FREED_LOOKBACK_DAYS): of what the last change of a visit let go of, as long
\* as some free stretch of the column is long enough for something on the
\* price list, a row of hers names a piece at least as long, however much of
\* it has been sold, has gone by, or lies across lunch (A-119, A-124, A-128).
WhatWasGivenBackIsListed ==
  \A a \in Appt : \A g \in {x \in gave[a] : now - x.at <= Lookback} : \A r \in freeRunsFor(appt, g.provider, {}) :
    LET left == Meet(r, Span(Larger(g.span.start, now), g.span.end)) IN
    fitsFreedSpan(left) =>
      \E row \in Listed : /\ row.appt = a /\ row.provider = g.provider
                          /\ Minutes(row.span) >= Minutes(left)

\* Who can take the time is told: a waiting client whom the engine would give
\* a start that uses any of a listed piece is among the matched (A-124: the
\* run is the bound, the engine is the test).
MatcherMissesNobody ==
  \A row \in Listed, entry \in Waiting :
    (\E t \in offeredFor(appt, row.provider, entry, now) :
       overlaps(Span(t, t + Duration[entry.service]), row.span))
      => entry \in matchFreedSlot(appt, row.provider, row.span, now)

\* The sentence of a release names what the list will show: "the same whether
\* it is asked before the press or after it" (A-131), whenever no two pieces
\* of the range are equally long; between equals the two break the tie by
\* runs of different lengths, one with the no-show's own time in it.
ReleaseNamesWhatIsListed ==
  \A a \in Appt : (appt[a] # NoRow /\ ~appt[a].isOverride /\ releasable(appt[a], now)) =>
    LET range  == Span(now, blockedRange(appt[a]).end)
        after  == [appt EXCEPT ![a].releasedAt = now]
        pieces == {x \in {Meet(r, range) : r \in freeRunsFor(appt, appt[a].provider, {a})} : Minutes(x) > 0}
        shown  == {row \in listOpenedSlots(after, [updatedAt EXCEPT ![a] = now],
                                           Append(log, Released(a)), now) :
                     row.appt = a /\ row.key = Len(log) + 1}
    IN (\A x, y \in pieces : x # y => Minutes(x) # Minutes(y)) =>
         {row.span : row \in shown} = releasePieces(appt, a, now, now)
=============================================================================
