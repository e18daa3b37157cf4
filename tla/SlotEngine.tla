----------------------------- MODULE SlotEngine -----------------------------
(***************************************************************************)
(* One question to the calendar: which starts does the slot engine offer   *)
(* on this day, and which stretches does the day grid draw as free?  The   *)
(* two read the same windows, breaks and busy set and compute their        *)
(* answers in different ways, the engine candidate by candidate and the    *)
(* grid by interval subtraction.                                           *)
(*                                                                         *)
(* The question is chosen in Init and answered in one step: nothing here   *)
(* is concurrent, what varies is the day.                                  *)
(***************************************************************************)
EXTENDS Hours, FiniteSets

CONSTANTS
  Zone,       \* offsets before and after the day's transition
  House,      \* patterns of the salon: [weekly, overrides]
  Hers,       \* patterns of the stylist
  Taken,      \* busy sets: sets of [start, end]
  Visit,      \* [duration, before, after]
  Policy,     \* [pastClose, overBreak, earlierOnly]
  Step,       \* of the grid
  Now,        \* when the question is put
  Lead        \* the shortest notice

VARIABLES asked, answer

vars == <<asked, answer>>

Unanswered == [windows |-> <<>>, open |-> <<>>, breaks |-> {}, runs |-> {}, slots |-> {},
               refused |-> FALSE, done |-> FALSE]

Question ==
  [zone : Zone, house : House, hers : Hers, taken : Taken, visit : Visit,
   policy : Policy, now : Now]

\* Only what the two forms would store reaches a reader.
Stored(pattern) ==
  /\ \A w \in pattern.weekly : Storable(w)
  /\ \A o \in pattern.overrides : \A w \in o.windows : Storable(w) /\ w.breaks = {}

-----------------------------------------------------------------------------
(* The engine.                                                             *)

\* validate throws, and the whole day is refused, on a break that reads as
\* ending before it starts.
malformed(inputs) == \E w \in inputs : \E b \in w.breaks : b.close <= b.open

candidates(open) ==
  UNION {{t \in Ticks(w) : (t - w.start) % Step = 0} : w \in ToSet(open)}

\* Mutant: the trailing buffer is not asked of the busy set.
MutBlocked(start, visit) == Span(start - visit.before, start + visit.duration)

Blocked(start, visit) ==
  Span(start - visit.before, start + visit.duration + visit.after)

\* Mutant: the policy is read the wrong way round.
Mutsuppressed(start, q) ==
  LET r == resolve(toLabel(start, q.zone), q.zone)
  IN ~q.policy.earlierOnly /\ r.kind = "ambiguous" /\ r.later = start

\* Of two instants with one label the policy may offer only the earlier.
suppressed(start, q) ==
  LET r == resolve(toLabel(start, q.zone), q.zone)
  IN q.policy.earlierOnly /\ r.kind = "ambiguous" /\ r.later = start

\* Why the engine does not offer a candidate; it offers what none excludes.
excluded(start, open, breaks, q) ==
  LET body    == Span(start, start + q.visit.duration)
      blocked == Blocked(start, q.visit)
      window  == CHOOSE w \in ToSet(open) : start \in Ticks(w)
  IN [ crossesWindowClose |-> \/ body.end > window.end
                              \/ ~q.policy.pastClose /\ blocked.end > window.end,
       insideBreak |-> \E b \in breaks : \/ overlaps(body, b)
                                         \/ ~q.policy.overBreak /\ overlaps(blocked, b),
       overlapsBusy |-> \E x \in q.taken : overlaps(blocked, x),
       beforeLead |-> start < q.now + Lead,
       ambiguousSuppressed |-> suppressed(start, q) ]

computeSlots(open, breaks, q) ==
  {start \in candidates(open) :
     LET why == excluded(start, open, breaks, q) IN \A r \in DOMAIN why : ~why[r]}

\* Mutant: lunch is drawn as free time.
MutfreeRunsFrom(spans, breaks, taken) == subtractSpans(spans, taken)

\* The grid: windows less breaks, absences and the busy set.
freeRunsFrom(spans, breaks, taken) == subtractSpans(spans, breaks \cup taken)

Init ==
  /\ asked \in {q \in Question : Stored(q.house) /\ Stored(q.hers)}
  /\ answer = Unanswered

\* resolveDayWindows, then the engine and the grid on what it returned.
Answer ==
  /\ ~answer.done
  /\ LET windows  == resolveAvailableWindows(asked.house, asked.hers)
         inputs   == {toWindowInput(m) : m \in ToSet(windows)}
         resolved == {resolveWindow(w, asked.zone) : w \in inputs}
         spans    == {r.span : r \in resolved}
         breaks   == UNION {r.breaks : r \in resolved}
     IN answer' = [windows |-> windows, open |-> union(spans), breaks |-> breaks,
                   runs |-> freeRunsFrom(spans, breaks, asked.taken),
                   slots |-> IF malformed(inputs) THEN {}
                             ELSE computeSlots(union(spans), breaks, asked),
                   refused |-> malformed(inputs), done |-> TRUE]
  /\ UNCHANGED asked

Next == Answer

Spec == Init /\ [][Next]_vars

-----------------------------------------------------------------------------
(* What the answers have to agree with, stated mark by mark.               *)

Close(w) == IF w.endsNextDay THEN w.close + DayLength ELSE w.close

\* A mark of the two days a window may span lies in the window.
InWindow(m, w) == w.open <= m /\ m < Close(w)

\* A break is an arc of the clock face.
InBreak(m, b) ==
  LET c == m % DayLength
  IN IF b.open < b.close THEN b.open <= c /\ c < b.close ELSE b.open <= c \/ c < b.close

\* A break typed backwards past midnight is stored all the same, and read as
\* nothing: see NobodyIsDrawnThroughLunch.
Forward(b, w) == b.open < w.open => b.open < b.close

OpenAt(m, windows) ==
  /\ \E w \in windows : InWindow(m, w)
  /\ \A w \in windows : InWindow(m, w) =>
       \A b \in w.breaks : Forward(b, w) => ~InBreak(m, b)

InForce(pattern) ==
  IF pattern.overrides = {} THEN pattern.weekly
  ELSE UNION {IF o.isClosed THEN {} ELSE o.windows : o \in pattern.overrides}

Touching(x, y) == x # y /\ x.start <= y.end /\ y.start <= x.end

\* A mark is open in the windows handed to the engine exactly when the salon
\* and the stylist are both open then and neither is on a break, whatever way
\* the stored rows overlap, touch, wrap past midnight or are overridden; and
\* no two windows touch, so no visit is refused for spanning a join (the
\* precedence chain of windows.ts, AVAIL-01 to AVAIL-04).
OpenWhenBothAre ==
  answer.done =>
    /\ \A m \in 0 .. 2 * DayLength - 1 :
         (\E w \in ToSet(answer.windows) :
            m \in Ticks(w) /\ \A b \in w.breaks : m \notin Ticks(b))
         <=> OpenAt(m, InForce(asked.house)) /\ OpenAt(m, InForce(asked.hers))
    /\ \A w \in ToSet(answer.windows), x \in ToSet(answer.windows) : ~Touching(w, x)

Inputs == {toWindowInput(m) : m \in ToSet(answer.windows)}

\* A mark that some instant of the day shows.
Exists(mark) == resolve(mark, asked.zone).kind # "gap"

EdgesExist(w) ==
  /\ Exists(w.open) /\ Exists(Close(w))
  /\ \A b \in w.breaks : Exists(b.open) /\ Exists(b.close)

\* The window closes on the first mark of the doubled hour.
ClosesAsTheHourDoubles(w) ==
  /\ resolve(Close(w), asked.zone).kind = "ambiguous"
  /\ resolve(Close(w) - 1, asked.zone).kind # "ambiguous"

Instant == -2 .. 2 * DayLength + 2

\* On a day whose hour is skipped or doubled, a window runs from the first
\* instant the clock shows a time inside it to the last, so that the doubled
\* hour is sold twice and the skipped one not at all (resolveEdge, spec DST-7
\* and FB-1).  Left out are edges inside the skipped hour, and a close on the
\* first mark of the doubled one, which the code reads as its second showing
\* and so keeps the salon open for the whole first showing of that hour.
WindowsAreTheWidestReading ==
  answer.done => \A w \in Inputs : (EdgesExist(w) /\ ~ClosesAsTheHourDoubles(w)) =>
    LET shown == {i \in Instant : InWindow(toLabel(i, asked.zone), w)}
    IN resolveWindow(w, asked.zone).span.start .. resolveWindow(w, asked.zone).span.end - 1
         = {i \in Instant : (\E j \in shown : j <= i) /\ (\E j \in shown : i <= j)}

Spans == {resolveWindow(w, asked.zone).span : w \in Inputs}

\* The grid draws as free exactly the instants inside some window that no
\* break, absence or booking covers, each stretch drawn once and whole (union,
\* subtractSpans and freeRunsFrom against the definition of free).
RunsAreWhatIsLeft ==
  answer.done =>
    /\ \A i \in Instant :
         (\E x \in answer.runs : i \in Ticks(x))
         <=> /\ \E x \in Spans : i \in Ticks(x)
             /\ \A x \in answer.breaks \cup asked.taken : i \notin Ticks(x)
    /\ \A x \in answer.runs, y \in answer.runs : ~Touching(x, y)

Body(start) == Span(start, start + asked.visit.duration)
Within(x, y) == y.start <= x.start /\ x.end <= y.end

\* What the engine sells the grid draws as one free stretch, and neither the
\* visit nor its buffers meet anything in the busy set (free-runs.ts, the run
\* as the bound an offered range must lie inside).
OffersLieInOneRun ==
  \A start \in answer.slots :
    /\ \E run \in answer.runs : Within(Body(start), run)
    /\ \A x \in asked.taken :
         ~overlaps(Span(start - asked.visit.before, Body(start).end + asked.visit.after), x)

\* And what the grid draws is for sale: a start on the grid, late enough, the
\* visit and its buffers inside one free stretch, is offered, except for the
\* second reading of a doubled hour under the policy that hides it.  (Left
\* out: a day on which a break falls whole into the skipped hour, where the
\* engine still refuses what straddles the instant the break shrank to.)
WhatFitsIsOffered ==
  (answer.done /\ ~answer.refused /\ \A b \in answer.breaks : b.start < b.end) =>
    \A run \in answer.runs : \A start \in Ticks(run) \cap candidates(answer.open) :
      /\ Within(Span(start - asked.visit.before, Body(start).end + asked.visit.after), run)
      /\ start >= asked.now + Lead
      /\ asked.policy.earlierOnly =>
           \A i \in Instant : toLabel(i, asked.zone) = toLabel(start, asked.zone) => start <= i
      => start \in answer.slots

\* Under the policy that offers the earlier hour only, no two starts on the
\* page carry the same time of day; a client who picks one has picked one
\* (spec FB-7).
OneLabelOneStart ==
  asked.policy.earlierOnly =>
    \A s \in answer.slots, t \in answer.slots :
      toLabel(s, asked.zone) = toLabel(t, asked.zone) => s = t

\* No instant the clock shows inside a stored break is drawn as free or sold,
\* for breaks that begin and end on one day.
BreaksAreKept ==
  answer.done => \A w \in Inputs : EdgesExist(w) =>
    \A b \in w.breaks : b.open < b.close =>
      \A i \in Ticks(resolveWindow(w, asked.zone).span) :
        InBreak(toLabel(i, asked.zone), b) =>
          /\ \A run \in answer.runs : i \notin Ticks(run)
          /\ \A start \in answer.slots : i \notin Ticks(Body(start))

\* "One that falls outside its window is a data error, not a no-op -- silently
\* dropping it is how a provider ends up bookable through her own lunch"
\* (windows.ts): every break the form accepted is kept free of clients.
NobodyIsDrawnThroughLunch ==
  answer.done => \A w \in Inputs : \A b \in w.breaks :
    \A i \in Ticks(resolveWindow(w, asked.zone).span) :
      InBreak(toLabel(i, asked.zone), b) => \A run \in answer.runs : i \notin Ticks(run)
=============================================================================
