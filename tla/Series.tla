------------------------------- MODULE Series -------------------------------
(***************************************************************************)
(* One standing appointment (packages/db/booking/series.ts, end-series.ts):*)
(* desks create it, extend it by the same rule and end it from a visit     *)
(* onwards.  None of the three is one transaction: each books or cancels a *)
(* visit at a time, while other desks tap on the same visits, and a        *)
(* process may die in between.                                             *)
(*                                                                         *)
(* A week is its ordinal.  Whether a visit finds its time and its chair is *)
(* the book's affair (Book); here it is booked or skipped.                 *)
(***************************************************************************)
EXTENDS Statuses, FiniteSets

CONSTANTS
  Reception,     \* the desks' sessions
  Ceiling,       \* 104: appointment_series_requested_sane
  Kind,          \* week -> what its wall time is on that day: "unique", "gap", "ambiguous"
  Count,         \* how many weeks a desk asks for at once
  Tap,           \* what desks do to single visits: <<from, to>>
  NoticePeriod,  \* the resolved cancellation cutoff
  Horizon,       \* SERIES_ENDING_WEEKS
  MaxNow, MaxRequests,   \* bounds
  StillRuns      \* NULL in endedAt: no integer

\* repeatCount is at least 1.
SeriesConstants == Ceiling \in Nat /\ Count \subseteq Nat \ {0}

Week == 0 .. Ceiling - 1

VARIABLES
  week,       \* the visit of week w runs from w + 1 to w + 2
  requested,  \* AppointmentSeries.requested, 0 before there is a series
  endedAt,
  visit,      \* the occurrence of each week: its status, or "none"
  desk,
  asked,      \* history: how often a week was asked for
  requests    \* how many desks began something

seriesVars == <<week, requested, endedAt, visit, desk, asked, requests>>

startOf(w) == w + 1
active == {w \in Week : visit[w] \in Active}

context(w) == [actor |-> "staff", now |-> week, startAt |-> startOf(w), endAt |-> startOf(w) + 1,
               cutoff |-> NoticePeriod, reason |-> TRUE]

\* shown: the number its page was rendered with; plan: the weeks still to book
\* or the rows still to cancel; stays: the rows that stay, each with its
\* problem; back: history, weeks that came into the book since the plan.
idle == [at |-> "idle", shown |-> 0, plan |-> {}, here |-> 0, stays |-> {}, ended |-> 0,
         onUs |-> FALSE, from |-> "none", back |-> {}]

first(ws) == CHOOSE w \in ws : \A x \in ws : w <= x

\* The next n weeks after the first r.
planOccurrences(r, n) == r .. r + n - 1

Begins == requests < MaxRequests /\ requests' = requests + 1

\* Week w is in the book now, and no desk that is ending the series learns of it.
arrives(w) ==
  [e \in Reception |-> IF desk[e].at \in {"ending", "cancelling"} THEN [desk[e] EXCEPT !.back = @ \cup {w}]
                  ELSE desk[e]]
-----------------------------------------------------------------------------
(* Creating and extending.                                                 *)

Ask(ws) == asked' = [w \in Week |-> IF w \in ws THEN asked[w] + 1 ELSE asked[w]]

\* The rule first, then its visits one by one.
CreateSeries(d, n) ==
  /\ Begins
  /\ desk[d].at = "idle" /\ requested = 0 /\ n <= Ceiling
  /\ requested' = n
  /\ Ask(planOccurrences(0, n))
  /\ desk' = [desk EXCEPT ![d] = [idle EXCEPT !.at = "booking", !.plan = planOccurrences(0, n)]]
  /\ UNCHANGED <<week, endedAt, visit>>

\* The list of series about to run out, as it was rendered.
listSeriesEnding(d) ==
  /\ Begins
  /\ desk[d].at = "idle" /\ requested > 0 /\ endedAt = StillRuns
  /\ \E w \in active : startOf(w) > week
  /\ \A w \in active : startOf(w) <= week + Horizon
  /\ desk' = [desk EXCEPT ![d] = [idle EXCEPT !.at = "list", !.shown = requested]]
  /\ UNCHANGED <<week, requested, endedAt, visit, asked>>

\* extendSeries reads the rule and plans from the number it reads ...
LoadSeries(d, n) ==
  /\ desk[d].at = "list"
  /\ desk' = [desk EXCEPT ![d] =
       IF endedAt # StillRuns \/ active = {} THEN idle
       ELSE [@ EXCEPT !.at = "claim", !.plan = planOccurrences(requested, n) \cap Week,
                      !.here = n]]
  /\ UNCHANGED <<week, requested, endedAt, visit, asked, requests>>

\* Mutant: the claim does not ask for the number the desk was shown.
Mutclaimable(d) == endedAt = StillRuns

claimable(d) == endedAt = StillRuns /\ requested = desk[d].shown

\* ... and claims them against the number its desk was shown.  Past the ceiling
\* the constraint answers instead.
Claim(d) ==
  /\ desk[d].at = "claim"
  /\ IF claimable(d) /\ desk[d].shown + desk[d].here <= Ceiling
     THEN /\ requested' = desk[d].shown + desk[d].here
          /\ Ask(desk[d].plan)
          /\ desk' = [desk EXCEPT ![d].at = "booking"]
     ELSE /\ desk' = [desk EXCEPT ![d] = idle]
          /\ UNCHANGED <<requested, asked>>
  /\ UNCHANGED <<week, endedAt, visit, requests>>

\* The week that follows on a booking, or the end of the call.
without(r, w) == IF r.plan = {w} THEN idle ELSE [r EXCEPT !.plan = @ \ {w}]

\* bookOne: a week whose time exists, under its own key, on its first instant
\* when there are two.  A row that has the key already is what the book returns.
BookOne(d) ==
  LET w == first(desk[d].plan) IN
  /\ desk[d].at = "booking" /\ Kind[w] # "gap"
  /\ IF visit[w] = "none"
     THEN /\ visit' = [visit EXCEPT ![w] = "booked"]
          /\ desk' = [arrives(w) EXCEPT ![d] = without(@, w)]
     ELSE /\ desk' = [desk EXCEPT ![d] = without(@, w)]
          /\ UNCHANGED visit
  /\ UNCHANGED <<week, requested, endedAt, asked, requests>>

\* skipReasonFor: no such time, taken, no chair, not offered.
SkipOne(d) ==
  LET w == first(desk[d].plan) IN
  /\ desk[d].at = "booking" /\ visit[w] = "none"
  /\ desk' = [desk EXCEPT ![d] = without(@, w)]
  /\ UNCHANGED <<week, requested, endedAt, visit, asked, requests>>
-----------------------------------------------------------------------------
(* Ending it here.                                                         *)

SeriesCancellable == {"booked", "confirmed"}
canEndSeriesAt(status) == status \in SeriesCancellable

\* Mutant: visits that cannot be cancelled in bulk are not listed.
MutpreviewEndSeries(here) == {w \in active : w >= here /\ canEndSeriesAt(visit[w])}

\* This occurrence and every one after it that still has its time.
previewEndSeries(here) == {w \in active : w >= here}

EndSeries(d, here, onUs) ==
  /\ Begins
  /\ desk[d].at = "idle" /\ visit[here] # "none"
  /\ LET rows == previewEndSeries(here)
         plain == {w \in rows : canEndSeriesAt(visit[w])}
     IN desk' = [desk EXCEPT ![d] = [idle EXCEPT !.at = "ending", !.here = here, !.onUs = onUs,
                                                  !.plan = plain, !.stays = rows \ plain]]
  /\ UNCHANGED <<week, requested, endedAt, visit, asked>>

\* transitionAppointment: what the next row is at, in its transaction ...
LoadVisit(d) ==
  LET w == first(desk[d].plan) IN
  /\ desk[d].at = "ending" /\ desk[d].plan # {}
  /\ desk' = [desk EXCEPT ![d].at = "cancelling", ![d].from = visit[w]]
  /\ UNCHANGED <<week, requested, endedAt, visit, asked, requests>>

\* ... and the cancellation, if the table has the edge and the row is still there.
CancelVisit(d) ==
  LET w == first(desk[d].plan)
      from == desk[d].from
      to == IF desk[d].onUs THEN "cancelled" ELSE staffCancellationStatus(from, context(w))
      gone == [desk[d] EXCEPT !.at = "ending", !.plan = @ \ {w}, !.from = "none"]
  IN
  /\ desk[d].at = "cancelling"
  /\ IF visit[w] = from /\ canTransition(from, to, context(w))
     THEN /\ visit' = [visit EXCEPT ![w] = to]
          /\ desk' = [desk EXCEPT ![d] = [gone EXCEPT !.ended = @ + 1]]
     ELSE /\ desk' = [desk EXCEPT ![d] = [gone EXCEPT !.stays = @ \cup {w}]]
          /\ UNCHANGED visit
  /\ UNCHANGED <<week, requested, endedAt, asked, requests>>

EndIt(d) ==
  /\ desk[d].at = "ending" /\ desk[d].plan = {}
  /\ endedAt' = IF desk[d].ended > 0 THEN week ELSE endedAt
  /\ desk' = [desk EXCEPT ![d] = idle]
  /\ UNCHANGED <<week, requested, visit, asked, requests>>
-----------------------------------------------------------------------------
\* A page left, a process that dies, or an error nobody folds into a skip.
Leave(d) ==
  /\ desk[d].at # "idle"
  /\ desk' = [desk EXCEPT ![d] = idle]
  /\ UNCHANGED <<week, requested, endedAt, visit, asked, requests>>

\* Somebody else's tap on one visit.
TapVisit(w, to) ==
  /\ <<visit[w], to>> \in Tap /\ canTransition(visit[w], to, context(w))
  /\ visit' = [visit EXCEPT ![w] = to]
  /\ desk' = IF visit[w] \in SlotFreeing THEN arrives(w) ELSE desk
  /\ UNCHANGED <<week, requested, endedAt, asked, requests>>

WeekPasses ==
  /\ week < MaxNow /\ week' = week + 1
  /\ UNCHANGED <<requested, endedAt, visit, desk, asked, requests>>
-----------------------------------------------------------------------------
SeriesInit ==
  /\ week = 0 /\ requested = 0 /\ endedAt = StillRuns /\ requests = 0
  /\ visit = [w \in Week |-> "none"]
  /\ desk = [d \in Reception |-> idle]
  /\ asked = [w \in Week |-> 0]

DeskStep(d) ==
  \/ \E n \in Count : CreateSeries(d, n) \/ LoadSeries(d, n)
  \/ listSeriesEnding(d) \/ Claim(d) \/ BookOne(d) \/ SkipOne(d)
  \/ \E here \in Week, onUs \in BOOLEAN : EndSeries(d, here, onUs)
  \/ LoadVisit(d) \/ CancelVisit(d) \/ EndIt(d)
  \/ Leave(d)

SeriesNext ==
  \/ \E d \in Reception : DeskStep(d)
  \/ \E w \in Week, to \in AppointmentStatus : TapVisit(w, to)
  \/ WeekPasses

SeriesSpec == SeriesInit /\ [][SeriesNext]_seriesVars
-----------------------------------------------------------------------------
\* Two desks extending one series from two screens, twice, with stale lists:
\* every week of the rule is asked for by one call and no week beyond it, so
\* the weeks a call plans from the number it read are the ones it claims
\* against the number it was shown (series.ts:268-272).
EveryWeekAskedOnce == \A w \in Week : asked[w] = IF w < requested THEN 1 ELSE 0

\* What ending a series leaves in the book from there on is named, with its
\* reason, in what the desk reads back, whatever was tapped meanwhile; except
\* what came into the book since (end-series.ts:22-24, D-26).
WhatStaysIsNamed ==
  \A d \in Reception :
    (desk[d].at = "ending" /\ desk[d].plan = {})
      => \A w \in active : w >= desk[d].here => w \in desk[d].stays \cup desk[d].back

SeriesLosesNoWeek == EveryWeekAskedOnce /\ WhatStaysIsNamed

\* "Cancelling an in-progress visit is a walk-out - a single deliberate act"
\* and no part of a bulk one (status.ts:195, end-series.ts:49): a client in
\* the building is cancelled by a tap on her own visit.
WalkOutsAreDeliberate ==
  [][ \A w \in Week :
        (visit[w] \in {"checked_in", "in_progress"} /\ visit'[w] \in SlotFreeing)
          => UNCHANGED desk ]_seriesVars
=============================================================================
