------------------------------- MODULE Rounds -------------------------------
(* The lists the salon telephones from, each derived whenever it is read:    *)
(* who is owed a rebook (owed.ts), who has stopped coming (lapsed.ts), who   *)
(* is unconfirmed tomorrow (call-down.ts) and which visits nobody closed     *)
(* (unfinished.ts), over the visits that taps, bookings and moves change,    *)
(* and the notes of the calls already made (call-marks.ts).                  *)
(*                                                                           *)
(* Every act takes a moment of its own, so no two timestamps are equal, and  *)
(* a day is MomentsADay moments.  A merged record is not on any list and is  *)
(* left to Clients.                                                          *)
EXTENDS Statuses, FiniteSets, FiniteSetsExt

CONSTANTS
  Visit, Client,
  NoVisit,             \* no row
  Telephone,                \* the desks telephoning
  Starts,              \* the instants a visit may start at; it lasts one moment
  MomentsADay,
  Window,              \* the windows the owner slides the lapsed report to
  LapsedWeeks,         \* the report's default, and the window of a debt
  Reliability,         \* the window of a missed visit, in days
  Notice,              \* the cancellation cutoff
  MaxNow

VARIABLES
  now,
  visit,       \* Visit -> the row with its newest status event, or NoVisit
  attempt,     \* CallDownAttempt: [visit, forDay], with the day the client heard
  mark,        \* ClientCallMark: [client, subject, at], one per client and subject
  ringing      \* Telephone -> the call being noted: {} or {[visit, forDay, heard]}

roundsVars == <<now, visit, attempt, mark, ringing>>

VisitRow ==
  [client : Client, startAt : Starts, createdAt : 0 .. MaxNow, status : AppointmentStatus,
   tappedAt : 0 .. MaxNow, salon : BOOLEAN]
RoundsConstants ==
  /\ MaxNow \in Nat /\ Starts \subseteq 0 .. MaxNow
  /\ Window \subseteq Nat /\ MomentsADay \in Nat \ {0} /\ Reliability \in Nat
  /\ NoVisit \notin VisitRow

Booked == {v \in Visit : visit[v] # NoVisit}
Of(c) == {v \in Booked : visit[v].client = c}
DateOf(t) == t \div MomentsADay
End(v) == visit[v].startAt + 1
since == now - LapsedWeeks
Missed == {"no_show", "cancelled_late"}

RoundsInit ==
  /\ now = 0 /\ visit = [v \in Visit |-> NoVisit]
  /\ attempt = {} /\ mark = {} /\ ringing = [d \in Telephone |-> {}]

Moment == now < MaxNow /\ now' = now + 1
-----------------------------------------------------------------------------
\* The lists.

Ahead(v) == visit[v].status \in Active /\ visit[v].startAt > now

\* The visits the salon took away and the cancel still stands.
TakenAway(c) ==
  {v \in Of(c) : visit[v].status \in SlotFreeing /\ visit[v].salon /\ visit[v].tappedAt >= since}

\* Mutant: the oldest of them stands for the client.
MutDebt(c) == CHOOSE v \in TakenAway(c) : \A w \in TakenAway(c) : visit[v].tappedAt <= visit[w].tappedAt

Debt(c) == CHOOSE v \in TakenAway(c) : \A w \in TakenAway(c) : visit[w].tappedAt <= visit[v].tappedAt

Pays(o, v) == o # v /\ (visit[o].createdAt >= visit[v].tappedAt \/ Ahead(o))

listOwedRebooks ==
  {c \in Client : TakenAway(c) # {} /\ ~\E o \in Of(c) : Pays(o, Debt(c))}

Kept(c) == {v \in Of(c) : visit[v].status = "completed"}
lastVisit(c) == Max({visit[v].startAt : v \in Kept(c)})

listLapsedClients(weeks) ==
  {c \in Client :
     /\ Kept(c) # {} /\ lastVisit(c) < now - weeks
     /\ ~\E v \in Of(c) : Ahead(v)
     /\ ~\E v \in Of(c) : /\ visit[v].status \in Missed
                          /\ DateOf(visit[v].startAt) >= DateOf(now) - Reliability}

\* Mutant: a visit left running since Saturday is nobody's.
MutlistUnfinished(lookback) ==
  {v \in Booked : /\ visit[v].status \in Pushable \ {"in_progress"}
                  /\ End(v) < now /\ End(v) >= now - lookback}

listUnfinished(lookback) ==
  {v \in Booked : visit[v].status \in Pushable /\ End(v) < now /\ End(v) >= now - lookback}

listUnconfirmed(day) ==
  {v \in Booked : visit[v].status = "booked" /\ DateOf(visit[v].startAt) = day}

\* Mutant: a call of any day is shown.
Muttried(v) == \E a \in attempt : a.visit = v

tried(v) == \E a \in attempt : a.visit = v /\ a.forDay = DateOf(visit[v].startAt)

marksOf(c, subject) == {m \in mark : m.client = c /\ m.subject = subject}

\* Mutant: a call is never out of date.
MutisCallStale(m, weeks) == FALSE

isCallStale(m, weeks) == now - m.at > weeks
-----------------------------------------------------------------------------
\* What changes the rows.

Quietly == UNCHANGED <<attempt, mark, ringing>>

bookVisit(v, c, t) ==
  /\ Moment /\ visit[v] = NoVisit /\ t >= now
  /\ visit' = [visit EXCEPT ![v] =
       [client |-> c, startAt |-> t, createdAt |-> now, status |-> "booked",
        tappedAt |-> now, salon |-> FALSE]]
  /\ Quietly

\* The context of a tap; the desk types a reason where one is wanted.
Context(v, who) ==
  [actor |-> who, now |-> now, startAt |-> visit[v].startAt, endAt |-> End(v),
   cutoff |-> Notice, reason |-> who = "staff"]

Mark(v, to, salon) ==
  visit' = [visit EXCEPT ![v].status = to, ![v].tappedAt = now, ![v].salon = salon]

transitionAppointment(v, to, who) ==
  /\ Moment /\ canTransition(visit[v].status, to, Context(v, who))
  /\ Mark(v, to, FALSE) /\ Quietly

\* The conflicts screen's cancel: the salon's, whatever the clock says.
cancelConflicting(v) ==
  /\ Moment /\ canTransition(visit[v].status, "cancelled", Context(v, "staff"))
  /\ Mark(v, "cancelled", TRUE) /\ Quietly

closeOut(v, to) ==
  /\ v \in listUnfinished(MaxNow) /\ to \in {"completed", "no_show"}
  /\ transitionAppointment(v, to, "staff")

rescheduleAppointment(v, t) ==
  /\ Moment /\ canReschedule(visit[v].status, Context(v, "staff"))
  /\ t >= now /\ t # visit[v].startAt
  /\ visit' = [visit EXCEPT ![v].startAt = t] /\ Quietly

Wait == Moment /\ UNCHANGED visit /\ Quietly
-----------------------------------------------------------------------------
\* Noting the calls.  The call-down note is read and written in two steps.

Noting == Moment /\ UNCHANGED visit

\* Mutant: noted under the day the desk is listing.
MutrecordCallAttempt(d, v) ==
  /\ ringing[d] = {} /\ visit[v].status = "booked"
  /\ ringing' = [ringing EXCEPT ![d] = {[visit |-> v, forDay |-> DateOf(now) + 1, heard |-> DateOf(visit[v].startAt)]}]

recordCallAttempt(d, v) ==
  /\ ringing[d] = {} /\ visit[v].status = "booked"
  /\ ringing' = [ringing EXCEPT ![d] = {[visit |-> v, forDay |-> DateOf(visit[v].startAt), heard |-> DateOf(visit[v].startAt)]}]

Press(d, v) == recordCallAttempt(d, v) /\ Noting /\ UNCHANGED <<attempt, mark>>

Noted(d) ==
  /\ ringing[d] # {} /\ Noting
  /\ attempt' = attempt \cup ringing[d]
  /\ ringing' = [ringing EXCEPT ![d] = {}] /\ UNCHANGED mark

clearCallAttempt(v) ==
  /\ Noting /\ attempt' = {a \in attempt : a.visit # v} /\ attempt' # attempt
  /\ UNCHANGED <<mark, ringing>>

recordCallMark(c, subject) ==
  /\ Noting
  /\ mark' = (mark \ marksOf(c, subject)) \cup {[client |-> c, subject |-> subject, at |-> now]}
  /\ UNCHANGED <<attempt, ringing>>

clearCallMark(c, subject) ==
  /\ Noting /\ marksOf(c, subject) # {} /\ mark' = mark \ marksOf(c, subject)
  /\ UNCHANGED <<attempt, ringing>>

CallOwed(c) == c \in listOwedRebooks /\ recordCallMark(c, Debt(c))
CallLapsed(c) == (\E weeks \in Window : c \in listLapsedClients(weeks)) /\ recordCallMark(c, "lapsed")
-----------------------------------------------------------------------------
RoundsNext ==
  \/ \E v \in Visit, c \in Client, t \in Starts : bookVisit(v, c, t)
  \/ \E v \in Booked, to \in AppointmentStatus, who \in Actor : transitionAppointment(v, to, who)
  \/ \E v \in Booked : cancelConflicting(v)
  \/ \E v \in Booked, to \in {"completed", "no_show"} : closeOut(v, to)
  \/ \E v \in Booked, t \in Starts : rescheduleAppointment(v, t)
  \/ Wait
  \/ \E d \in Telephone, v \in Booked : Press(d, v)
  \/ \E d \in Telephone : Noted(d)
  \/ \E v \in Visit : clearCallAttempt(v)
  \/ \E c \in Client : CallOwed(c) \/ CallLapsed(c)
  \/ \E m \in mark : clearCallMark(m.client, m.subject)

RoundsSpec == RoundsInit /\ [][RoundsNext]_roundsVars
-----------------------------------------------------------------------------
\* Reducing a client's debts to one loses none: whoever has a visit that the
\* salon took away, with nothing booked since and nothing ahead, is on the list
\* (owed.ts: "Two cancellations are still one phone call").
NoDebtIsForgotten ==
  \A c \in Client :
    c \in listOwedRebooks <=> \E v \in TakenAway(c) : ~\E o \in Of(c) : Pays(o, v)

\* A client rung as lapsed may have been in all the same, on a visit nobody
\* closed; such a visit is then on the list of what is still open, or running
\* (unfinished.ts: three readers are wrong because of eleven taps).  Else it
\* was called off, or missed before the year the report looks back on.
SilenceIsOnTheScreen ==
  \A weeks \in Window : \A c \in listLapsedClients(weeks) : \A v \in Of(c) :
    visit[v].startAt \in now - weeks .. now =>
      \/ visit[v].status \in SlotFreeing \/ v \in listUnfinished(weeks) \/ End(v) >= now
      \/ visit[v].status \in Missed /\ DateOf(visit[v].startAt) < DateOf(now) - Reliability

\* A call that still counts on the lapsed list was made about this absence:
\* after the visit the client has not been back since (A-077).
TheCallIsAboutThisAbsence ==
  \A weeks \in Window : \A c \in listLapsedClients(weeks) : \A m \in marksOf(c, "lapsed") :
    ~isCallStale(m, weeks) => m.at > lastVisit(c)

\* A row of the call-down that reads as rung was rung about the day it is on,
\* though the visit was moved between the calls (call-down.ts: "its old attempt
\* must not follow it").
TheCallIsAboutThisDay ==
  \A v \in Booked :
    tried(v) => \E a \in attempt : a.visit = v /\ a.heard = DateOf(visit[v].startAt)

RoundsMissNobody == NoDebtIsForgotten /\ SilenceIsOnTheScreen
CallsAreAboutThis == TheCallIsAboutThisAbsence /\ TheCallIsAboutThisDay
ListsMissNobody == RoundsMissNobody /\ CallsAreAboutThis

\* The call shown on an owed row was made after the cancel it is about.
TheCallIsAboutThisDebt ==
  \A c \in listOwedRebooks : \A m \in marksOf(c, Debt(c)) : m.at > visit[Debt(c)].tappedAt
=============================================================================
