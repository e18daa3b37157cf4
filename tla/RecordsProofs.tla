--------------------------- MODULE RecordsProofs ---------------------------
(***************************************************************************)
(* The records of the clients, for any number of them.                     *)
(*                                                                         *)
(* The notes and the merges of records (Clients), for any records, rows,   *)
(* desks, visitors and facts: of two saves made from one version of a note *)
(* the second is refused, and a merge nothing ran beside loses nothing.    *)
(*                                                                         *)
(* And the lists the salon telephones from (Rounds), for any visits,       *)
(* clients, starts and windows: nobody who is owed a call is missed, and   *)
(* a call that counts was about what the list now says.                    *)
(*                                                                         *)
(* And a column running late (RunningLate), for any visits, spans of work, *)
(* claims and pushes: who is shown late waits for somebody, and only what  *)
(* somebody does makes anybody later.                                      *)
(***************************************************************************)
EXTENDS Clients, Rounds, RunningLate, SequenceTheorems, FiniteSetTheorems, WellFoundedInduction, TLAPS

-----------------------------------------------------------------------------
\* The lists: what a visit is, in the order things happened to it.

VisitsAreRows ==
  /\ now \in 0 .. MaxNow
  /\ visit \in [Visit -> VisitRow \cup {NoVisit}]

\* A row was written before it was cancelled.
CreatedFirst ==
  \A v \in Booked :
    /\ visit[v].createdAt < now /\ visit[v].createdAt <= visit[v].tappedAt
    /\ visit[v].status \in SlotFreeing => visit[v].createdAt < visit[v].tappedAt

\* A call is noted under the day the client heard.
CallsSayTheDay ==
  /\ ringing = [d \in Telephone |-> ringing[d]]
  /\ \A a \in attempt : a.heard = a.forDay
  /\ \A d \in Telephone : \A a \in ringing[d] : a.heard = a.forDay

MarksAreTimed == \A m \in mark : m.at \in Nat

RoundsInv == VisitsAreRows /\ CreatedFirst /\ CallsSayTheDay /\ MarksAreTimed

LEMMA RowIsRow ==
  ASSUME RoundsConstants, VisitsAreRows, NEW v \in Booked
  PROVE  v \in Visit /\ visit[v] \in VisitRow
  BY DEF RoundsConstants, VisitsAreRows, Booked
LEMMA RowWritten ==
  ASSUME RoundsConstants, VisitsAreRows, CreatedFirst, Moment, NEW v \in Visit, NEW r \in VisitRow,
         visit' = [visit EXCEPT ![v] = r], r.createdAt <= now, r.createdAt <= r.tappedAt,
         r.status \in SlotFreeing => r.createdAt < r.tappedAt
  PROVE  VisitsAreRows' /\ CreatedFirst'
<1>1. now \in 0 .. MaxNow /\ MaxNow \in Nat /\ now < MaxNow /\ now' = now + 1
  BY DEF VisitsAreRows, RoundsConstants, Moment
<1>2. /\ visit' \in [Visit -> VisitRow \cup {NoVisit}] /\ visit'[v] = r
      /\ \A w \in Visit \ {v} : visit'[w] = visit[w]
  BY DEF VisitsAreRows
<1>3. VisitsAreRows'
  BY <1>1, <1>2 DEF VisitsAreRows
<1>4. ASSUME NEW w \in Booked'
      PROVE  /\ visit'[w].createdAt < now' /\ visit'[w].createdAt <= visit'[w].tappedAt
             /\ visit'[w].status \in SlotFreeing => visit'[w].createdAt < visit'[w].tappedAt
  <2>1. w \in Visit /\ visit'[w] # NoVisit
    BY <1>4 DEF Booked
  <2>2. CASE w = v
    <3>1. r.createdAt \in 0 .. MaxNow
      BY DEF VisitRow
    <3> QED BY <2>2, <3>1, <1>1, <1>2
  <2>3. CASE w # v
    <3>1. w \in Booked /\ visit'[w] = visit[w]
      BY <2>1, <2>3, <1>2 DEF Booked
    <3>2. visit[w] \in VisitRow
      BY <3>1, RowIsRow
    <3>3. visit[w].createdAt \in 0 .. MaxNow
      BY <3>2 DEF VisitRow
    <3>4. /\ visit[w].createdAt < now /\ visit[w].createdAt <= visit[w].tappedAt
          /\ visit[w].status \in SlotFreeing => visit[w].createdAt < visit[w].tappedAt
      BY <3>1 DEF CreatedFirst
    <3> QED BY <3>1, <3>3, <3>4, <1>1
  <2> QED BY <2>2, <2>3
<1>5. CreatedFirst'
  BY <1>4 DEF CreatedFirst
<1> QED BY <1>3, <1>5

LEMMA RowsStand ==
  ASSUME RoundsConstants, VisitsAreRows, CreatedFirst, Moment \/ UNCHANGED now, UNCHANGED visit
  PROVE  VisitsAreRows' /\ CreatedFirst'
<1>1. now \in 0 .. MaxNow /\ MaxNow \in Nat /\ now' \in 0 .. MaxNow /\ now <= now'
  BY DEF VisitsAreRows, RoundsConstants, Moment
<1>2. VisitsAreRows'
  BY <1>1 DEF VisitsAreRows
<1>3. ASSUME NEW w \in Booked'
      PROVE  /\ visit'[w].createdAt < now' /\ visit'[w].createdAt <= visit'[w].tappedAt
             /\ visit'[w].status \in SlotFreeing => visit'[w].createdAt < visit'[w].tappedAt
  <2>1. w \in Booked /\ visit' = visit
    BY DEF Booked
  <2>2. visit[w] \in VisitRow
    BY <2>1, RowIsRow
  <2>3. visit[w].createdAt \in 0 .. MaxNow
    BY <2>2 DEF VisitRow
  <2> QED BY <2>1, <2>3, <1>1 DEF CreatedFirst
<1> QED BY <1>2, <1>3 DEF CreatedFirst

LEMMA QuietlyKeeps ==
  ASSUME CallsSayTheDay, MarksAreTimed, UNCHANGED <<attempt, mark, ringing>>
  PROVE  CallsSayTheDay' /\ MarksAreTimed'
  BY DEF CallsSayTheDay, MarksAreTimed

LEMMA BookingKeeps ==
  ASSUME RoundsInv, RoundsConstants, NEW v \in Visit, NEW c \in Client, NEW t \in Starts, bookVisit(v, c, t)
  PROVE  RoundsInv'
<1> DEFINE r == [client |-> c, startAt |-> t, createdAt |-> now, status |-> "booked",
                 tappedAt |-> now, salon |-> FALSE]
<1>1. now \in 0 .. MaxNow /\ now <= now
  BY DEF RoundsInv, VisitsAreRows, RoundsConstants
<1>2. r \in VisitRow
  BY <1>1 DEF VisitRow, AppointmentStatus
<1>3. r.createdAt = now /\ r.tappedAt = now /\ r.status \notin SlotFreeing
  BY DEF SlotFreeing
<1>4. visit' = [visit EXCEPT ![v] = r] /\ Moment /\ UNCHANGED <<attempt, mark, ringing>>
  BY DEF bookVisit, Quietly
<1> HIDE DEF r
<1> QED BY <1>1, <1>2, <1>3, <1>4, RowWritten, QuietlyKeeps DEF RoundsInv

LEMMA MarkKeeps ==
  ASSUME RoundsInv, RoundsConstants, NEW v \in Booked, NEW to \in AppointmentStatus, NEW salon \in BOOLEAN,
         Moment, Mark(v, to, salon), Quietly
  PROVE  RoundsInv'
<1> DEFINE o == visit[v]
           r == [o EXCEPT !.status = to, !.tappedAt = now, !.salon = salon]
<1>1. o \in VisitRow /\ v \in Visit /\ now \in 0 .. MaxNow
  BY RowIsRow DEF RoundsInv, VisitsAreRows
<1>2. o.createdAt < now /\ o.createdAt \in 0 .. MaxNow
  BY <1>1 DEF RoundsInv, CreatedFirst, VisitRow
<1>3. r \in VisitRow /\ r.createdAt = o.createdAt /\ r.tappedAt = now
  <2> HIDE DEF o
  <2> QED BY <1>1 DEF VisitRow
<1>4. visit' = [visit EXCEPT ![v] = r] /\ UNCHANGED <<attempt, mark, ringing>>
  BY <1>1 DEF Mark, Quietly, RoundsInv, VisitsAreRows
<1> HIDE DEF r, o
<1>5. r.createdAt <= now /\ r.createdAt < r.tappedAt /\ r.createdAt <= r.tappedAt
  BY ONLY <1>1, <1>2, <1>3
<1> QED BY <1>1, <1>3, <1>4, <1>5, RowWritten, QuietlyKeeps DEF RoundsInv

LEMMA MoveKeeps ==
  ASSUME RoundsInv, RoundsConstants, NEW v \in Booked, NEW t \in Starts, rescheduleAppointment(v, t)
  PROVE  RoundsInv'
<1> DEFINE o == visit[v]
           r == [o EXCEPT !.startAt = t]
<1>1. o \in VisitRow /\ v \in Visit /\ now \in 0 .. MaxNow
  BY RowIsRow DEF RoundsInv, VisitsAreRows
<1>2. /\ o.createdAt < now /\ o.createdAt <= o.tappedAt
      /\ o.status \in SlotFreeing => o.createdAt < o.tappedAt
      /\ o.createdAt \in 0 .. MaxNow
  BY <1>1 DEF RoundsInv, CreatedFirst, VisitRow
<1>3. /\ r \in VisitRow /\ r.createdAt = o.createdAt /\ r.tappedAt = o.tappedAt /\ r.status = o.status
  <2> HIDE DEF o
  <2> QED BY <1>1 DEF VisitRow
<1>4. visit' = [visit EXCEPT ![v] = r] /\ Moment /\ UNCHANGED <<attempt, mark, ringing>>
  BY DEF rescheduleAppointment, Quietly
<1> HIDE DEF r, o
<1>5. r.createdAt <= now
  BY ONLY <1>1, <1>2, <1>3
<1> QED BY <1>1, <1>2, <1>3, <1>4, <1>5, RowWritten, QuietlyKeeps DEF RoundsInv

LEMMA NotingKeeps ==
  ASSUME RoundsInv, RoundsConstants, Noting, CallsSayTheDay', MarksAreTimed'
  PROVE  RoundsInv'
  BY RowsStand DEF RoundsInv, Noting

LEMMA CallsKeep ==
  ASSUME RoundsInv, RoundsConstants,
         \/ \E d \in Telephone, v \in Booked : Press(d, v)
         \/ \E d \in Telephone : Noted(d)
         \/ \E v \in Visit : clearCallAttempt(v)
  PROVE  RoundsInv'
<1>1. Noting /\ mark' = mark
  BY DEF Press, Noted, clearCallAttempt
<1>2. MarksAreTimed'
  BY <1>1 DEF RoundsInv, MarksAreTimed
<1>3. CallsSayTheDay'
  <2>1. ASSUME NEW d \in Telephone, NEW v \in Booked, Press(d, v) PROVE CallsSayTheDay'
    <3> DEFINE call == [visit |-> v, forDay |-> DateOf(visit[v].startAt), heard |-> DateOf(visit[v].startAt)]
    <3>1. ringing' = [ringing EXCEPT ![d] = {call}] /\ attempt' = attempt
      BY <2>1 DEF Press, recordCallAttempt
    <3>2. call.heard = call.forDay
      OBVIOUS
    <3> HIDE DEF call
    <3> QED BY <3>1, <3>2 DEF RoundsInv, CallsSayTheDay
  <2>2. ASSUME NEW d \in Telephone, Noted(d) PROVE CallsSayTheDay'
    BY <2>2 DEF Noted, RoundsInv, CallsSayTheDay
  <2>3. ASSUME NEW v \in Visit, clearCallAttempt(v) PROVE CallsSayTheDay'
    BY <2>3 DEF clearCallAttempt, RoundsInv, CallsSayTheDay
  <2> QED BY <2>1, <2>2, <2>3
<1> QED BY <1>1, <1>2, <1>3, NotingKeeps

LEMMA MarkingKeeps ==
  ASSUME RoundsInv, RoundsConstants,
         \/ \E c \in Client : CallOwed(c) \/ CallLapsed(c)
         \/ \E m \in mark : clearCallMark(m.client, m.subject)
  PROVE  RoundsInv'
<1>1. /\ Noting /\ UNCHANGED <<attempt, ringing>>
      /\ \/ \E c, subject : mark' = (mark \ marksOf(c, subject))
                                      \cup {[client |-> c, subject |-> subject, at |-> now]}
         \/ mark' \subseteq mark
  BY DEF CallOwed, CallLapsed, recordCallMark, clearCallMark
<1>2. now \in Nat
  BY DEF RoundsInv, VisitsAreRows, RoundsConstants
<1>3. MarksAreTimed'
  BY <1>1, <1>2 DEF RoundsInv, MarksAreTimed
<1>4. CallsSayTheDay'
  BY <1>1 DEF RoundsInv, CallsSayTheDay
<1> QED BY <1>1, <1>3, <1>4, NotingKeeps

LEMMA RoundsStep ==
  ASSUME RoundsInv, RoundsConstants, [RoundsNext]_roundsVars
  PROVE  RoundsInv'
<1>1. ASSUME NEW v \in Booked, NEW to \in AppointmentStatus, NEW who \in Actor, transitionAppointment(v, to, who)
      PROVE  RoundsInv'
  BY <1>1, MarkKeeps DEF transitionAppointment
<1>2. ASSUME NEW v \in Booked, cancelConflicting(v) PROVE RoundsInv'
  <2>1. "cancelled" \in AppointmentStatus
    BY DEF AppointmentStatus
  <2> QED BY <1>2, <2>1, MarkKeeps DEF cancelConflicting
<1>3. ASSUME NEW v \in Booked, NEW to \in {"completed", "no_show"}, closeOut(v, to) PROVE RoundsInv'
  <2>1. to \in AppointmentStatus /\ "staff" \in Actor
    BY DEF AppointmentStatus, Actor
  <2> QED BY <1>3, <2>1, <1>1 DEF closeOut
<1>4. CASE Wait \/ UNCHANGED roundsVars
  BY <1>4, RowsStand, QuietlyKeeps DEF Wait, Quietly, roundsVars, RoundsInv
<1>5. CASE RoundsNext
  BY <1>1, <1>2, <1>3, <1>4, <1>5, BookingKeeps, MoveKeeps, CallsKeep, MarkingKeeps DEF RoundsNext
<1> QED BY <1>4, <1>5

\* Sets of numbers have a least one.
LEMMA LeastOf ==
  ASSUME NEW T \in SUBSET Nat, T # {}
  PROVE  \E x \in T : \A y \in T : x <= y
<1> DEFINE S == FiniteSubsetsOf(Nat)
           R == StrictSubsetOrdering(Nat)
           U == {1 .. x : x \in T}
<1>1. IsWellFoundedOn(R, S)
  BY FS_StrictSubsetOrderingWellFounded
<1>2. U \subseteq S /\ U # {}
  <2>1. ASSUME NEW x \in T PROVE 1 .. x \in S
    <3>1. IsFiniteSet(1 .. x) /\ 1 .. x \in SUBSET Nat
      BY FS_Interval
    <3> QED BY <3>1 DEF FiniteSubsetsOf
  <2> HIDE DEF S
  <2> QED BY <2>1
<1>3. ASSUME NEW x \in T, NEW y \in T, y < x PROVE <<1 .. y, 1 .. x>> \in R
  <2>1. 1 .. y \subseteq 1 .. x /\ x \in 1 .. x /\ x \notin 1 .. y
    BY <1>3
  <2> QED BY <2>1 DEF StrictSubsetOrdering
<1>4. \E u \in U : \A y \in U : <<y, u>> \notin R
  <2> HIDE DEF R, S, U
  <2> QED BY <1>1, <1>2, WFMin
<1>5. PICK x \in T : \A y \in T : <<1 .. y, 1 .. x>> \notin R
  BY <1>4
<1> HIDE DEF R, S, U
<1>6. ASSUME NEW y \in T PROVE x <= y
  <2>1. ~(y < x)
    BY <1>3, <1>5
  <2> QED BY <2>1
<1> QED BY <1>6

LEMMA GreatestOf ==
  ASSUME NEW n \in Nat, NEW T \in SUBSET (0 .. n), T # {}
  PROVE  \E x \in T : \A y \in T : y <= x
<1> DEFINE U == {n - x : x \in T}
<1>1. U \in SUBSET Nat /\ U # {}
  <2>1. ASSUME NEW x \in T PROVE n - x \in Nat
    <3>1. x \in 0 .. n
      OBVIOUS
    <3> QED BY <3>1
  <2> QED BY <2>1
<1>2. PICK u \in U : \A y \in U : u <= y
  BY <1>1, LeastOf
<1>3. PICK x \in T : u = n - x
  BY <1>2
<1>4. ASSUME NEW y \in T PROVE y <= x
  <2>1. u <= n - y
    BY <1>2
  <2> QED BY <2>1, <1>3
<1> QED BY <1>3, <1>4

\* A client's newest cancel stands for all of them.
LEMMA TheDebtIsTheNewest ==
  ASSUME RoundsInv, RoundsConstants, NEW c \in Client, TakenAway(c) # {}
  PROVE  Debt(c) \in TakenAway(c) /\ \A w \in TakenAway(c) : visit[w].tappedAt <= visit[Debt(c)].tappedAt
<1> DEFINE T == {visit[v].tappedAt : v \in TakenAway(c)}
<1>1. ASSUME NEW v \in TakenAway(c) PROVE visit[v].tappedAt \in 0 .. MaxNow
  <2>1. visit[v] \in VisitRow
    BY RowIsRow DEF TakenAway, Of, RoundsInv
  <2> QED BY <2>1 DEF VisitRow
<1>2. T \in SUBSET (0 .. MaxNow) /\ T # {} /\ MaxNow \in Nat
  BY <1>1 DEF RoundsConstants
<1>3. \E x \in T : \A y \in T : y <= x
  <2> HIDE DEF T
  <2> QED BY <1>2, GreatestOf
<1>4. \E v \in TakenAway(c) : \A w \in TakenAway(c) : visit[w].tappedAt <= visit[v].tappedAt
  BY <1>3
<1> HIDE DEF T
<1> QED BY <1>4 DEF Debt

LEMMA NobodyOwedIsForgotten ==
  ASSUME RoundsInv, RoundsConstants
  PROVE  NoDebtIsForgotten
<1> SUFFICES ASSUME NEW c \in Client
             PROVE  c \in listOwedRebooks <=> \E v \in TakenAway(c) : ~\E o \in Of(c) : Pays(o, v)
  BY DEF NoDebtIsForgotten
<1>1. c \in listOwedRebooks => \E v \in TakenAway(c) : ~\E o \in Of(c) : Pays(o, v)
  BY TheDebtIsTheNewest DEF listOwedRebooks
<1>2. ASSUME NEW v \in TakenAway(c), ~\E o \in Of(c) : Pays(o, v) PROVE c \in listOwedRebooks
  <2> DEFINE d == Debt(c)
  <2>1. d \in TakenAway(c) /\ visit[v].tappedAt <= visit[d].tappedAt
    BY TheDebtIsTheNewest
  <2> HIDE DEF d
  <2>2. ASSUME NEW o \in Of(c), Pays(o, d) PROVE FALSE
    <3>1. o # d /\ (visit[o].createdAt >= visit[d].tappedAt \/ Ahead(o))
      BY <2>2 DEF Pays
    <3>2. o \in Booked /\ v \in Booked /\ d \in Booked
      BY <2>1 DEF Of, TakenAway
    <3>3. /\ visit[o].createdAt \in 0 .. MaxNow /\ visit[d].tappedAt \in 0 .. MaxNow
          /\ visit[v].tappedAt \in 0 .. MaxNow
      <4>1. visit[o] \in VisitRow /\ visit[v] \in VisitRow /\ visit[d] \in VisitRow
        BY <3>2, RowIsRow DEF RoundsInv
      <4> QED BY <4>1 DEF VisitRow
    <3>4. CASE o = v
      <4>1. visit[v].status \in SlotFreeing /\ visit[v].createdAt < visit[v].tappedAt
        BY <3>2 DEF TakenAway, RoundsInv, CreatedFirst
      <4>2. ~Ahead(v)
        BY <4>1 DEF Ahead, Active
      <4> QED BY <3>1, <3>3, <3>4, <4>1, <4>2, <2>1
    <3>5. CASE o # v
      <4>1. visit[o].createdAt >= visit[v].tappedAt \/ Ahead(o)
        BY <3>1, <3>3, <2>1
      <4>2. Pays(o, v)
        BY <4>1, <3>5 DEF Pays
      <4> QED BY <4>2, <1>2
    <3> QED BY <3>4, <3>5
  <2>3. ~\E o \in Of(c) : Pays(o, Debt(c))
    BY <2>2 DEF d
  <2> QED BY <2>1, <2>3 DEF listOwedRebooks
<1> QED BY <1>1, <1>2

\* The last visit is the last one.
LEMMA LastVisitIsLast ==
  ASSUME RoundsInv, RoundsConstants, NEW c \in Client, Kept(c) # {}
  PROVE  lastVisit(c) \in 0 .. MaxNow /\ \A v \in Kept(c) : visit[v].startAt <= lastVisit(c)
<1> DEFINE T == {visit[v].startAt : v \in Kept(c)}
<1>1. ASSUME NEW v \in Kept(c) PROVE visit[v].startAt \in 0 .. MaxNow
  <2>1. visit[v] \in VisitRow
    BY RowIsRow DEF Kept, Of, RoundsInv
  <2> QED BY <2>1 DEF VisitRow, RoundsConstants
<1>2. T \in SUBSET (0 .. MaxNow) /\ T # {} /\ MaxNow \in Nat
  BY <1>1 DEF RoundsConstants
<1>3. \E x \in T : \A y \in T : y <= x
  <2> HIDE DEF T
  <2> QED BY <1>2, GreatestOf
<1>4. Max(T) \in T /\ \A y \in T : y <= Max(T)
  <2> HIDE DEF T
  <2>1. \E x \in T : \A y \in T : x >= y
    <3>1. \A x, y \in T : y <= x => x >= y
      BY <1>2
    <3> QED BY <3>1, <1>3
  <2>2. Max(T) \in T /\ \A y \in T : Max(T) >= y
    BY <2>1 DEF Max
  <2> QED BY <2>2, <1>2
<1>5. lastVisit(c) = Max(T)
  BY DEF lastVisit
<1>6. \A v \in Kept(c) : visit[v].startAt \in T
  OBVIOUS
<1> HIDE DEF T
<1> QED BY <1>2, <1>4, <1>5, <1>6

LEMMA SilenceIsSeen ==
  ASSUME RoundsInv, RoundsConstants
  PROVE  SilenceIsOnTheScreen
<1> SUFFICES ASSUME NEW weeks \in Window, NEW c \in listLapsedClients(weeks), NEW v \in Of(c),
                    visit[v].startAt \in now - weeks .. now
             PROVE  \/ visit[v].status \in SlotFreeing \/ v \in listUnfinished(weeks) \/ End(v) >= now
                    \/ visit[v].status \in Missed /\ DateOf(visit[v].startAt) < DateOf(now) - Reliability
  BY DEF SilenceIsOnTheScreen
<1>1. v \in Booked /\ weeks \in Nat /\ now \in Nat /\ c \in Client
  BY DEF Of, RoundsConstants, RoundsInv, VisitsAreRows, listLapsedClients
<1>2. visit[v] \in VisitRow
  BY <1>1, RowIsRow DEF RoundsInv
<1>3. visit[v].startAt \in Nat /\ visit[v].status \in AppointmentStatus
  BY <1>2 DEF VisitRow, RoundsConstants
<1>4. visit[v].status # "completed"
  <2>1. SUFFICES ASSUME visit[v].status = "completed" PROVE FALSE
    OBVIOUS
  <2>2. v \in Kept(c) /\ lastVisit(c) < now - weeks
    BY <2>1 DEF Kept, listLapsedClients
  <2>3. visit[v].startAt <= lastVisit(c) /\ lastVisit(c) \in Int
    BY <1>1, <2>2, LastVisitIsLast
  <2> QED BY <1>1, <1>3, <2>2, <2>3
<1>5. CASE visit[v].status \in Pushable
  <2>1. End(v) \in Nat /\ End(v) >= now - weeks
    BY <1>1, <1>3 DEF End
  <2> QED BY <1>1, <1>5, <2>1 DEF listUnfinished
<1>6. CASE visit[v].status = "no_show"
  <2>1. ~(DateOf(visit[v].startAt) >= DateOf(now) - Reliability)
    BY <1>6 DEF listLapsedClients, Missed
  <2>2. DateOf(visit[v].startAt) \in Int /\ DateOf(now) \in Int /\ Reliability \in Int
    BY <1>1, <1>3 DEF DateOf, RoundsConstants
  <2> QED BY <1>6, <2>1, <2>2 DEF Missed
<1> QED BY <1>3, <1>4, <1>5, <1>6 DEF AppointmentStatus, Pushable, SlotFreeing

LEMMA CallsAreOfThis ==
  ASSUME RoundsInv, RoundsConstants
  PROVE  CallsAreAboutThis
<1>1. TheCallIsAboutThisAbsence
  <2> SUFFICES ASSUME NEW weeks \in Window, NEW c \in listLapsedClients(weeks), NEW m \in marksOf(c, "lapsed"),
                      ~isCallStale(m, weeks)
               PROVE  m.at > lastVisit(c)
    BY DEF TheCallIsAboutThisAbsence
  <2>1. m.at \in Nat /\ weeks \in Nat /\ now \in Nat
    BY DEF marksOf, RoundsInv, MarksAreTimed, VisitsAreRows, RoundsConstants
  <2>2. lastVisit(c) < now - weeks /\ lastVisit(c) \in Int
    BY LastVisitIsLast DEF listLapsedClients
  <2>3. ~(now - m.at > weeks)
    BY DEF isCallStale
  <2> QED BY <2>1, <2>2, <2>3
<1>2. TheCallIsAboutThisDay
  BY DEF TheCallIsAboutThisDay, tried, RoundsInv, CallsSayTheDay
<1> QED BY <1>1, <1>2 DEF CallsAreAboutThis

\* The lists the salon telephones from, for any clients, visits, starts and
\* windows: whoever is owed a call is listed though her cancels are one row
\* (owed.ts), a lapsed client who may have been in is on the screen of visits
\* nobody closed (lapsed.ts, unfinished.ts), and a call that counts was about
\* this absence and this day (call-marks.ts, call-down.ts).
THEOREM TheListsMissNobody ==
  ASSUME RoundsConstants
  PROVE  RoundsSpec => []ListsMissNobody
<1>1. RoundsInit => RoundsInv
  BY DEF RoundsInit, RoundsInv, RoundsConstants, VisitsAreRows, CreatedFirst, CallsSayTheDay, MarksAreTimed, Booked
<1>2. RoundsInv /\ [RoundsNext]_roundsVars => RoundsInv'
  BY RoundsStep
<1>3. RoundsInv => ListsMissNobody
  BY NobodyOwedIsForgotten, SilenceIsSeen, CallsAreOfThis DEF ListsMissNobody, RoundsMissNobody
<1> QED
  BY <1>1, <1>2, <1>3, PTL DEF RoundsSpec

-----------------------------------------------------------------------------
\* The records: what holds of the tables and of a request in hand, of any
\* values of the tables.

LiveIn(cl, c) == cl[c].who # Nobody /\ cl[c].merged = Nobody

\* What the merges carry, and that no record is merged before it is written
\* and no row has a client before it is written.
Carried(cl, ro, ver) ==
  /\ \A c \in ClientId : cl[c].merged # Nobody => LiveIn(cl, cl[c].merged)
  /\ \A r \in ClientRow : ro[r].client # Nobody => LiveIn(cl, ro[r].client)
  /\ \A c \in ClientId : cl[c].note = IF Len(ver[c]) = 0 THEN {} ELSE ver[c][Len(ver[c])].text
  /\ \A c \in ClientId : cl[c].who = Nobody => cl[c].merged = Nobody
  /\ \A r \in ClientRow : ro[r].status = "none" => ro[r].client = Nobody

OnARecord == {"opening", "page", "saving", "writing", "merging", "moved", "kept"}
AMerge == {"merging", "moved", "kept"}

\* What a request has read still stands.
FreshIn(q, cl, ro) ==
  /\ q.at \in {"attaching", "booking"} /\ q.on # Nobody => LiveIn(cl, q.on)
  /\ q.at = "attaching" => \A r \in q.rows : ro[r].status # "none"
  /\ q.at \in AMerge => /\ LiveIn(cl, q.on) /\ LiveIn(cl, q.from) /\ q.on # q.from
                        /\ q.shown = cl[q.on].note /\ q.text = cl[q.from].note
  /\ q.at \in {"moved", "kept"} => /\ q.rows = {r \in ClientRow : ro[r].client = q.from}
                                  /\ q.tombs = {c \in ClientId : cl[c].merged = q.from}

\* A save about to be written is of the newest version: its desk has the lock.
AtWork(q, ver) ==
  /\ q.at \in OnARecord => q.on \in ClientId
  /\ q.at \in AMerge => q.from \in ClientId
  /\ q.at = "writing" => q.base = Len(ver[q.on])

HeldBy(q) ==
  CASE q.at \in {"saving", "writing"} -> {q.on}
    [] q.at = "moved" -> q.tombs
    [] q.at = "kept" -> q.tombs \cup {q.on}
    [] OTHER -> {}

LocksExclude == \A d, e \in Reception : d # e => Held(d) \cap Held(e) = {}
DesksAtWork == \A d \in Reception : AtWork(desk[d], version)
NobodyOvertaken ==
  ~overtaken =>
    /\ Carried(client, row, version)
    /\ \A d \in Reception : FreshIn(desk[d], client, row)
    /\ \A v \in Visitor : visitor[v].client # Nobody => LiveIn(client, visitor[v].client)

RecordsInv == RecordsTypeOK /\ LocksExclude /\ DesksAtWork /\ SavesFollowTheirBase /\ NobodyOvertaken

ClientT == [who : Person \cup {Nobody}, note : SUBSET Fact, merged : Id]
VersionT == [text : SUBSET Fact, base : Nat \cup {Merge}]
RowT == [client : Id, status : {"none", "booked", "no_show"}]
RequestT ==
  [at : {"idle", "opening", "page", "saving", "writing", "merging", "moved", "kept", "attaching", "booking"},
   on : Id, from : Id, base : Nat, shown : SUBSET Fact, text : SUBSET Fact,
   rows : SUBSET ClientRow, tombs : SUBSET ClientId]
VisitorT == [who : Person \cup {Nobody}, client : Id]

LEMMA TypesAre ==
  RecordsTypeOK <=> /\ client \in [ClientId -> ClientT] /\ version \in [ClientId -> Seq(VersionT)]
                    /\ row \in [ClientRow -> RowT] /\ desk \in [Reception -> RequestT] /\ visitor \in [Visitor -> VisitorT]
                    /\ requests \in Nat /\ overtaken \in BOOLEAN
  BY DEF RecordsTypeOK, ClientT, VersionT, RowT, RequestT, VisitorT

LEMMA TypesNext ==
  RecordsTypeOK' <=> /\ client' \in [ClientId -> ClientT] /\ version' \in [ClientId -> Seq(VersionT)]
                     /\ row' \in [ClientRow -> RowT] /\ desk' \in [Reception -> RequestT] /\ visitor' \in [Visitor -> VisitorT]
                     /\ requests' \in Nat /\ overtaken' \in BOOLEAN
  BY DEF RecordsTypeOK, ClientT, VersionT, RowT, RequestT, VisitorT

LEMMA HoldsNothing ==
  ASSUME NEW q, q.at \notin {"saving", "writing", "moved", "kept"}
  PROVE  HeldBy(q) = {}
  BY DEF HeldBy

LEMMA HeldOf == \A d : Held(d) = HeldBy(desk[d])
  BY DEF Held, HeldBy

LEMMA HeldNext == \A d : Held(d)' = HeldBy(desk'[d])
  BY DEF Held, HeldBy

LEMMA IdleIsRequest ==
  /\ idle \in RequestT /\ idle.at = "idle"
  /\ \A ver, cl, ro : AtWork(idle, ver) /\ FreshIn(idle, cl, ro)
  BY DEF idle, RequestT, Id, AtWork, FreshIn, OnARecord, AMerge

\* One desk goes on, and the tables stand.
LEMMA DeskMoves ==
  ASSUME RecordsInv, NEW d \in Reception, NEW q \in RequestT, desk' = [desk EXCEPT ![d] = q],
         AtWork(q, version), ~overtaken => FreshIn(q, client, row),
         \A e \in Reception \ {d} : Held(e) \cap HeldBy(q) = {},
         UNCHANGED <<client, version, row, visitor, overtaken>>, requests' \in Nat
  PROVE  RecordsInv'
<1>1. /\ desk' \in [Reception -> RequestT] /\ desk'[d] = q
      /\ \A e \in Reception \ {d} : desk'[e] = desk[e]
  BY TypesAre DEF RecordsInv
<1>2. RecordsTypeOK'
  BY <1>1, TypesAre, TypesNext DEF RecordsInv
<1>3. LocksExclude'
  <2>1. ASSUME NEW x \in Reception, NEW y \in Reception, x # y PROVE HeldBy(desk'[x]) \cap HeldBy(desk'[y]) = {}
    <3>1. CASE x # d /\ y # d
      BY <2>1, <3>1, <1>1, HeldOf DEF RecordsInv, LocksExclude
    <3>2. CASE x = d \/ y = d
      BY <2>1, <3>2, <1>1, HeldOf
    <3> QED BY <3>1, <3>2
  <2>2. \A x, y \in Reception : x # y => Held(x)' \cap Held(y)' = {}
    BY <2>1, HeldNext
  <2> QED BY <2>2 DEF LocksExclude
<1>4. DesksAtWork'
  BY <1>1 DEF RecordsInv, DesksAtWork
<1>5. SavesFollowTheirBase'
  BY DEF RecordsInv, SavesFollowTheirBase, latest
<1>6. NobodyOvertaken'
  BY <1>1 DEF RecordsInv, NobodyOvertaken
<1> QED BY <1>2, <1>3, <1>4, <1>5, <1>6 DEF RecordsInv

\* The same, of a request that holds no lock.
LEMMA DeskReads ==
  ASSUME RecordsInv, NEW d \in Reception, NEW q \in RequestT, desk' = [desk EXCEPT ![d] = q],
         q.at \notin {"saving", "writing", "moved", "kept"},
         AtWork(q, version), ~overtaken => FreshIn(q, client, row),
         unchangedButDesk, requests' \in Nat
  PROVE  RecordsInv'
  BY DeskMoves, HoldsNothing DEF unchangedButDesk

LEMMA BeginsTypes == ASSUME RecordsInv, Begins \/ UNCHANGED requests PROVE requests' \in Nat
  BY TypesAre DEF RecordsInv, Begins

LEMMA ResolvedIsARecord ==
  ASSUME RecordsInv, NEW c \in ClientId
  PROVE  /\ resolveTombstones(c) \in ClientId /\ client[resolveTombstones(c)].note \in SUBSET Fact
         /\ ~overtaken /\ client[c].who # Nobody => LiveIn(client, resolveTombstones(c))
<1>1. client[c] \in ClientT
  BY TypesAre DEF RecordsInv
<1>2. resolveTombstones(c) \in ClientId
  BY <1>1 DEF ClientT, Id, resolveTombstones
<1>3. client[resolveTombstones(c)] \in ClientT
  BY <1>2, TypesAre DEF RecordsInv
<1>4. client[resolveTombstones(c)].note \in SUBSET Fact
  BY <1>3 DEF ClientT
<1>5. ASSUME ~overtaken, client[c].who # Nobody PROVE LiveIn(client, resolveTombstones(c))
  <2>1. Carried(client, row, version)
    BY <1>5 DEF RecordsInv, NobodyOvertaken
  <2> QED BY <1>5, <2>1 DEF Carried, resolveTombstones, LiveIn
<1> QED BY <1>2, <1>4, <1>5

LEMMA OpenPageKeeps ==
  ASSUME RecordsInv, NEW d \in Reception, NEW c \in ClientId, OpenPage(d, c)
  PROVE  RecordsInv'
<1> DEFINE r == resolveTombstones(c)
           q == [idle EXCEPT !.at = "opening", !.on = r, !.shown = client[r].note]
<1>1. r \in ClientId /\ client[r].note \in SUBSET Fact
  BY ResolvedIsARecord
<1>2. desk' = [desk EXCEPT ![d] = q] /\ unchangedButDesk /\ requests' \in Nat
  BY BeginsTypes DEF OpenPage
<1> HIDE DEF r
<1>3. q \in RequestT /\ q.at = "opening" /\ q.on = r
  BY <1>1 DEF idle, RequestT, Id
<1> HIDE DEF q
<1>4. AtWork(q, version) /\ FreshIn(q, client, row)
  BY <1>1, <1>3 DEF AtWork, FreshIn, OnARecord, AMerge
<1> QED BY <1>2, <1>3, <1>4, DeskReads

LEMMA LoadVersionKeeps ==
  ASSUME RecordsInv, NEW d \in Reception, LoadVersion(d)
  PROVE  RecordsInv'
<1> DEFINE o == desk[d]
           q == [o EXCEPT !.at = "page", !.base = latest(o.on)]
<1>1. o \in RequestT /\ o.at = "opening" /\ o.on \in ClientId
  BY TypesAre DEF RecordsInv, LoadVersion, DesksAtWork, AtWork, OnARecord
<1>2. latest(o.on) \in Nat
  BY <1>1, TypesAre, LenProperties DEF latest, RecordsInv
<1>3. desk' = [desk EXCEPT ![d] = q] /\ unchangedButDesk /\ requests' \in Nat
  BY BeginsTypes, TypesAre DEF LoadVersion, RecordsInv
<1> HIDE DEF o
<1>4. q \in RequestT /\ q.at = "page" /\ q.on = o.on
  BY <1>1, <1>2 DEF RequestT
<1> HIDE DEF q
<1>5. AtWork(q, version) /\ FreshIn(q, client, row)
  BY <1>1, <1>4 DEF AtWork, FreshIn, OnARecord, AMerge
<1> QED BY <1>3, <1>4, <1>5, DeskReads

LEMMA SubmitKeeps ==
  ASSUME RecordsInv, NEW d \in Reception, NEW text \in SUBSET Fact, Submit(d, text)
  PROVE  RecordsInv'
<1> DEFINE o == desk[d]
           q == [o EXCEPT !.at = "saving", !.text = text]
<1>1. o \in RequestT /\ o.at = "page" /\ o.on \in ClientId
  BY TypesAre DEF RecordsInv, Submit, DesksAtWork, AtWork, OnARecord
<1>2. desk' = [desk EXCEPT ![d] = q] /\ unchangedButDesk /\ requests' \in Nat
  BY BeginsTypes, TypesAre DEF Submit, RecordsInv
<1>3. \A e \in Reception \ {d} : Held(e) \cap {o.on} = {}
  BY DEF Submit, LocksFree
<1> HIDE DEF o
<1>4. q \in RequestT /\ q.at = "saving" /\ q.on = o.on
  BY <1>1 DEF RequestT
<1> HIDE DEF q
<1>5. AtWork(q, version) /\ FreshIn(q, client, row) /\ HeldBy(q) = {o.on}
  BY <1>1, <1>4 DEF AtWork, FreshIn, OnARecord, AMerge, HeldBy
<1> QED BY <1>2, <1>3, <1>4, <1>5, DeskMoves DEF unchangedButDesk

LEMMA CheckBaseKeeps ==
  ASSUME RecordsInv, NEW d \in Reception, CheckBase(d)
  PROVE  RecordsInv'
<1> DEFINE o == desk[d]
           c == o.on
           shown == IF latest(c) = 0 THEN {} ELSE version[c][latest(c)].text
           q == [o EXCEPT !.at = "writing"]
           p == [o EXCEPT !.at = "page", !.base = latest(c), !.text = {}, !.shown = shown]
<1>1. o \in RequestT /\ o.at = "saving" /\ c \in ClientId
  BY TypesAre DEF RecordsInv, CheckBase, DesksAtWork, AtWork, OnARecord
<1>2. /\ desk' = [desk EXCEPT ![d] = IF latest(c) = o.base THEN q ELSE p]
      /\ unchangedButDesk /\ requests' \in Nat
  BY BeginsTypes, TypesAre DEF CheckBase, RecordsInv
<1>3. latest(c) \in Nat /\ shown \in SUBSET Fact
  <2>1. version[c] \in Seq(VersionT)
    BY <1>1, TypesAre DEF RecordsInv
  <2>2. latest(c) \in Nat /\ (latest(c) # 0 => version[c][latest(c)] \in VersionT)
    BY <2>1, LenProperties, ElementOfSeq DEF latest
  <2> QED BY <2>2 DEF VersionT
<1>4. CASE latest(c) = o.base
  <2> HIDE DEF o, shown
  <2>1. q \in RequestT /\ q.at = "writing" /\ q.on = o.on /\ q.base = o.base
    BY <1>1 DEF RequestT
  <2>2. desk' = [desk EXCEPT ![d] = q]
    BY <1>2, <1>4
  <2> HIDE DEF q
  <2>3. AtWork(q, version) /\ FreshIn(q, client, row) /\ HeldBy(q) = {o.on}
    BY <1>1, <1>4, <2>1 DEF AtWork, FreshIn, OnARecord, AMerge, HeldBy, latest
  <2>4. HeldBy(q) = Held(d)
    BY <1>1, <2>3, HeldOf DEF HeldBy, o
  <2>5. \A e \in Reception \ {d} : Held(e) \cap HeldBy(q) = {}
    BY <2>4 DEF RecordsInv, LocksExclude
  <2> QED BY <1>2, <2>1, <2>2, <2>3, <2>5, DeskMoves DEF unchangedButDesk
<1>5. CASE latest(c) # o.base
  <2> HIDE DEF o, shown
  <2>1. p \in RequestT /\ p.at = "page" /\ p.on = o.on
    BY <1>1, <1>3 DEF RequestT
  <2>2. desk' = [desk EXCEPT ![d] = p]
    BY <1>2, <1>5
  <2> HIDE DEF p
  <2>3. AtWork(p, version) /\ FreshIn(p, client, row)
    BY <1>1, <2>1 DEF AtWork, FreshIn, OnARecord, AMerge
  <2> QED BY <1>2, <2>1, <2>2, <2>3, DeskReads
<1> QED BY <1>4, <1>5

LEMMA ReadBothKeeps ==
  ASSUME RecordsInv, NEW d \in Reception, NEW s \in ClientId, NEW l \in ClientId, ReadBoth(d, s, l)
  PROVE  RecordsInv'
<1> DEFINE m == client[s].note
           n == client[l].note
           q == [idle EXCEPT !.at = "merging", !.on = s, !.from = l, !.shown = m, !.text = n]
<1>1. m \in SUBSET Fact /\ n \in SUBSET Fact
  <2>1. client[s] \in ClientT /\ client[l] \in ClientT
    BY TypesAre DEF RecordsInv
  <2> QED BY <2>1 DEF ClientT
<1>2. /\ desk' = [desk EXCEPT ![d] = q] /\ unchangedButDesk /\ requests' \in Nat
      /\ s # l /\ LiveIn(client, s) /\ LiveIn(client, l)
  BY BeginsTypes DEF ReadBoth, LiveClient, LiveIn
<1> HIDE DEF m, n
<1>3. q \in RequestT /\ q.at = "merging" /\ q.on = s /\ q.from = l /\ q.shown = m /\ q.text = n
  BY <1>1 DEF idle, RequestT, Id
<1> HIDE DEF q
<1>4. AtWork(q, version)
  BY <1>3 DEF AtWork
<1>5. FreshIn(q, client, row)
  BY <1>2, <1>3 DEF FreshIn, AMerge, m, n
<1> QED BY <1>2, <1>3, <1>4, <1>5, DeskReads

LEMMA MoveRowsKeeps ==
  ASSUME RecordsInv, NEW d \in Reception, MoveRows(d)
  PROVE  RecordsInv'
<1> DEFINE o == desk[d]
           rows == rowsOf(desk[d].from)
           tombs == tombsOf(desk[d].from)
           q == [o EXCEPT !.at = "moved", !.rows = rows, !.tombs = tombs]
<1>0. o.at = "merging"
  BY DEF MoveRows
<1>1. o \in RequestT /\ o.at = "merging" /\ o.on \in ClientId /\ o.from \in ClientId
  BY <1>0, TypesAre DEF RecordsInv, DesksAtWork, AtWork, OnARecord, AMerge
<1>2. /\ desk' = [desk EXCEPT ![d] = q] /\ unchangedButDesk /\ requests' \in Nat
      /\ \A e \in Reception \ {d} : Held(e) \cap tombs = {}
  <2>1. UNCHANGED requests /\ unchangedButDesk
    BY DEF MoveRows
  <2>2. \A e \in Reception \ {d} : Held(e) \cap tombs = {}
    BY DEF MoveRows, LocksFree
  <2>3. desk' = [desk EXCEPT ![d].at = "moved", ![d].rows = rows, ![d].tombs = tombs]
    BY DEF MoveRows
  <2>4. desk \in [Reception -> RequestT]
    BY TypesAre DEF RecordsInv
  <2> HIDE DEF rows, tombs
  <2>5. desk' = [desk EXCEPT ![d] = q]
    BY <2>3, <2>4
  <2>6. requests' \in Nat
    BY <2>1, BeginsTypes
  <2> QED BY <2>1, <2>2, <2>5, <2>6
<1>3. rows \in SUBSET ClientRow /\ tombs \in SUBSET ClientId
  BY DEF rowsOf, tombsOf
<1>4. ~overtaken => FreshIn(o, client, row)
  BY DEF RecordsInv, NobodyOvertaken
<1> HIDE DEF o, rows, tombs
<1>5. /\ q \in RequestT /\ q.at = "moved" /\ q.on = o.on /\ q.from = o.from
      /\ q.shown = o.shown /\ q.text = o.text /\ q.rows = rows /\ q.tombs = tombs
  BY <1>1, <1>3 DEF RequestT
<1> HIDE DEF q
<1>6. AtWork(q, version) /\ HeldBy(q) = tombs
  BY <1>1, <1>5 DEF AtWork, HeldBy
<1>7. ~overtaken => FreshIn(q, client, row)
  <2>1. q.rows = {r \in ClientRow : row[r].client = q.from} /\ q.tombs = {c \in ClientId : client[c].merged = q.from}
    BY <1>5 DEF rows, tombs, rowsOf, tombsOf, o
  <2> QED BY <1>1, <1>4, <1>5, <2>1 DEF FreshIn, AMerge
<1> QED BY <1>2, <1>5, <1>6, <1>7, DeskMoves DEF unchangedButDesk

LEMMA KeepSurvivorKeeps ==
  ASSUME RecordsInv, NEW d \in Reception, KeepSurvivor(d)
  PROVE  RecordsInv'
<1> DEFINE o == desk[d]
           q == [o EXCEPT !.at = "kept"]
<1>1. o \in RequestT /\ o.at = "moved" /\ o.on \in ClientId /\ o.from \in ClientId
  BY TypesAre DEF RecordsInv, KeepSurvivor, DesksAtWork, AtWork, OnARecord, AMerge
<1>2. /\ desk' = [desk EXCEPT ![d] = q] /\ unchangedButDesk /\ requests' \in Nat
      /\ \A e \in Reception \ {d} : Held(e) \cap {o.on} = {}
  BY BeginsTypes, TypesAre DEF KeepSurvivor, RecordsInv, LocksFree
<1>3. \A e \in Reception \ {d} : Held(e) \cap o.tombs = {}
  <2>1. Held(d) = o.tombs
    BY <1>1, HeldOf DEF HeldBy
  <2> QED BY <2>1 DEF RecordsInv, LocksExclude
<1>4. ~overtaken => FreshIn(o, client, row)
  BY DEF RecordsInv, NobodyOvertaken
<1> HIDE DEF o
<1>5. /\ q \in RequestT /\ q.at = "kept" /\ q.on = o.on /\ q.from = o.from
      /\ q.shown = o.shown /\ q.text = o.text /\ q.rows = o.rows /\ q.tombs = o.tombs
  BY <1>1 DEF RequestT
<1> HIDE DEF q
<1>6. AtWork(q, version) /\ HeldBy(q) = o.tombs \cup {o.on}
  BY <1>1, <1>5 DEF AtWork, HeldBy
<1>7. ~overtaken => FreshIn(q, client, row)
  BY <1>1, <1>4, <1>5 DEF FreshIn, AMerge
<1>8. \A e \in Reception \ {d} : Held(e) \cap HeldBy(q) = {}
  BY <1>2, <1>3, <1>6
<1> QED BY <1>2, <1>5, <1>6, <1>7, <1>8, DeskMoves DEF unchangedButDesk

LEMMA LeaveKeeps ==
  ASSUME RecordsInv, NEW d \in Reception, Leave(d)
  PROVE  RecordsInv'
  BY IdleIsRequest, BeginsTypes, DeskReads DEF Leave

LEMMA AttachableKeeps ==
  ASSUME RecordsInv, NEW d \in Reception, NEW r \in ClientRow, NEW c \in Id, LoadAttachable(d, r, c)
  PROVE  RecordsInv'
<1> DEFINE was == row[r].client
           q == [idle EXCEPT !.at = "attaching", !.on = c, !.from = was, !.rows = {r}]
<1>1. was \in Id
  <2>1. row[r] \in RowT
    BY TypesAre DEF RecordsInv
  <2> QED BY <2>1 DEF RowT
<1>2. /\ desk' = [desk EXCEPT ![d] = q] /\ unchangedButDesk /\ requests' \in Nat
      /\ c # Nobody => LiveIn(client, c)
      /\ row[r].status # "none"
  BY BeginsTypes DEF LoadAttachable, LiveClient, LiveIn, unused
<1> HIDE DEF was
<1>3. q \in RequestT /\ q.at = "attaching" /\ q.on = c /\ q.rows = {r}
  BY <1>1 DEF idle, RequestT, Id
<1> HIDE DEF q
<1>4. AtWork(q, version) /\ FreshIn(q, client, row)
  BY <1>2, <1>3 DEF AtWork, FreshIn, OnARecord, AMerge
<1> QED BY <1>2, <1>3, <1>4, DeskReads

LEMMA PanelKeeps ==
  ASSUME RecordsInv, NEW d \in Reception, NEW q \in RequestT, desk' = [desk EXCEPT ![d] = q],
         q.at = "booking", ~overtaken /\ q.on # Nobody => LiveIn(client, q.on),
         unchangedButDesk, Begins
  PROVE  RecordsInv'
<1>1. AtWork(q, version) /\ (~overtaken => FreshIn(q, client, row))
  BY DEF AtWork, FreshIn, OnARecord, AMerge
<1>2. requests' \in Nat
  BY BeginsTypes
<1> QED BY <1>1, <1>2, DeskReads

LEMMA PickClientKeeps ==
  ASSUME RecordsInv, NEW d \in Reception, NEW c \in Id, PickClient(d, c)
  PROVE  RecordsInv'
<1>1. CASE c = Nobody
  <2> DEFINE q == [idle EXCEPT !.at = "booking"]
  <2>1. q \in RequestT /\ q.at = "booking" /\ q.on = Nobody
    BY DEF idle, RequestT, Id
  <2>2. desk' = [desk EXCEPT ![d] = q] /\ unchangedButDesk /\ Begins
    BY <1>1 DEF PickClient
  <2> HIDE DEF q
  <2> QED BY <2>1, <2>2, PanelKeeps
<1>2. CASE c # Nobody
  <2> DEFINE r == resolveTombstones(c)
             q == [idle EXCEPT !.at = "booking", !.on = r]
  <2>1. c \in ClientId /\ client[c].who # Nobody
    BY <1>2 DEF Id, PickClient
  <2>2. r \in ClientId /\ (~overtaken => LiveIn(client, r))
    BY <2>1, ResolvedIsARecord
  <2>3. desk' = [desk EXCEPT ![d] = q] /\ unchangedButDesk /\ Begins
    BY <1>2 DEF PickClient
  <2> HIDE DEF r
  <2>4. q \in RequestT /\ q.at = "booking" /\ q.on = r
    BY <2>2 DEF idle, RequestT, Id
  <2> HIDE DEF q
  <2> QED BY <2>2, <2>3, <2>4, PanelKeeps
<1> QED BY <1>1, <1>2
\* A desk's step that changes the tables.
LEMMA TablesMove ==
  ASSUME RecordsInv, NEW d \in Reception, NEW q \in RequestT, desk' = [desk EXCEPT ![d] = q], q.at \in {"idle", "page"},
         AtWork(q, version'), \A e \in Reception \ {d} : AtWork(desk[e], version'),
         client' \in [ClientId -> ClientT], version' \in [ClientId -> Seq(VersionT)], row' \in [ClientRow -> RowT],
         UNCHANGED <<visitor, requests>>, overtaken' \in BOOLEAN, SavesFollowTheirBase',
         ~overtaken' => /\ Carried(client', row', version')
                        /\ \A e \in Reception \ {d} : FreshIn(desk[e], client', row')
                        /\ \A v \in Visitor : visitor[v].client # Nobody => LiveIn(client', visitor[v].client)
  PROVE  RecordsInv'
<1>1. /\ desk' \in [Reception -> RequestT] /\ desk'[d] = q
      /\ \A e \in Reception \ {d} : desk'[e] = desk[e]
  BY TypesAre DEF RecordsInv
<1>2. RecordsTypeOK'
  BY <1>1, TypesAre, TypesNext DEF RecordsInv
<1>3. LocksExclude'
  <2>0. HeldBy(q) = {}
    BY HoldsNothing
  <2>1. ASSUME NEW x \in Reception, NEW y \in Reception, x # y PROVE HeldBy(desk'[x]) \cap HeldBy(desk'[y]) = {}
    <3>1. CASE x # d /\ y # d
      BY <2>1, <3>1, <1>1, HeldOf DEF RecordsInv, LocksExclude
    <3>2. CASE x = d \/ y = d
      BY <2>0, <2>1, <3>2, <1>1
    <3> QED BY <3>1, <3>2
  <2>2. \A x, y \in Reception : x # y => Held(x)' \cap Held(y)' = {}
    BY <2>1, HeldNext
  <2> QED BY <2>2 DEF LocksExclude
<1>4. DesksAtWork'
  BY <1>1 DEF DesksAtWork
<1>5. NobodyOvertaken'
  <2>1. FreshIn(q, client', row')
    BY DEF FreshIn, AMerge
  <2> QED BY <1>1, <2>1 DEF NobodyOvertaken
<1> QED BY <1>2, <1>3, <1>4, <1>5 DEF RecordsInv

\* Nobody at work on what is committed had read it before a merge, or for one.
LEMMA Apart ==
  ASSUME NEW d, NEW cs, NEW merges \in BOOLEAN, ~Overtakes(d, cs, merges), NEW e \in Reception \ {d},
         desk[e].at \notin {"idle", "opening", "page"}, merges \/ desk[e].at \in AMerge,
         NEW c \in cs, c # Nobody
  PROVE  c # desk[e].on /\ c # desk[e].from
  BY DEF Overtakes, UnderWay, Read, Merging, AMerge

LEMMA Appended ==
  ASSUME NEW ver \in [ClientId -> Seq(VersionT)], NEW c \in ClientId, NEW v \in VersionT,
         NEW new, new = [ver EXCEPT ![c] = Append(@, v)]
  PROVE  /\ new \in [ClientId -> Seq(VersionT)] /\ Len(ver[c]) \in Nat /\ Len(new[c]) = Len(ver[c]) + 1
         /\ new[c][Len(ver[c]) + 1] = v /\ \A i \in 1 .. Len(ver[c]) : new[c][i] = ver[c][i]
         /\ \A x \in ClientId \ {c} : new[x] = ver[x]
<1>1. ver[c] \in Seq(VersionT) /\ new[c] = Append(ver[c], v)
  OBVIOUS
<1>2. /\ Append(ver[c], v) \in Seq(VersionT) /\ Len(Append(ver[c], v)) = Len(ver[c]) + 1
      /\ \A i \in 1 .. Len(ver[c]) : Append(ver[c], v)[i] = ver[c][i]
      /\ Append(ver[c], v)[Len(ver[c]) + 1] = v
  BY <1>1, AppendProperties
<1>3. Len(ver[c]) \in Nat
  BY <1>1, LenProperties
<1>4. new \in [ClientId -> Seq(VersionT)] /\ \A x \in ClientId \ {c} : new[x] = ver[x]
  BY <1>1, <1>2
<1> QED BY <1>1, <1>2, <1>3, <1>4

\* A version on top, of the newest one or of a merge.
LEMMA BasesFollow ==
  ASSUME RecordsInv, NEW c \in ClientId, NEW v \in VersionT, v.base \in {latest(c), Merge},
         version' = [version EXCEPT ![c] = Append(@, v)]
  PROVE  SavesFollowTheirBase'
<1>1. /\ Len(version[c]) \in Nat /\ Len(version'[c]) = Len(version[c]) + 1
      /\ version'[c][Len(version[c]) + 1] = v /\ \A i \in 1 .. Len(version[c]) : version'[c][i] = version[c][i]
      /\ \A x \in ClientId \ {c} : version'[x] = version[x]
  BY Appended, TypesAre DEF RecordsInv
<1>2. \A x \in ClientId : \A i \in 1 .. Len(version[x]) : version[x][i].base \in {i - 1, Merge}
  BY DEF RecordsInv, SavesFollowTheirBase, latest
<1>3. ASSUME NEW i \in 1 .. Len(version'[c]) PROVE version'[c][i].base \in {i - 1, Merge}
  <2>1. i \in 1 .. Len(version[c]) \/ i = Len(version[c]) + 1
    BY <1>1
  <2>2. CASE i \in 1 .. Len(version[c])
    BY <1>1, <1>2, <2>2
  <2>3. CASE i = Len(version[c]) + 1
    <3>1. version'[c][i] = v /\ Len(version[c]) = i - 1
      BY <1>1, <2>3
    <3> QED BY <3>1 DEF latest
  <2> QED BY <2>1, <2>2, <2>3
<1>4. \A x \in ClientId : \A i \in 1 .. Len(version'[x]) : version'[x][i].base \in {i - 1, Merge}
  BY <1>1, <1>2, <1>3
<1> QED BY <1>4 DEF SavesFollowTheirBase, latest

LEMMA SaveNoteKeeps ==
  ASSUME RecordsInv, ClientsConstants, NEW d \in Reception, SaveNote(d)
  PROVE  RecordsInv'
<1> DEFINE o == desk[d]
           c == desk[d].on
           v == [text |-> desk[d].text, base |-> desk[d].base]
           r == [client[c] EXCEPT !.note = desk[d].text]
           q == [o EXCEPT !.at = "page", !.shown = o.text, !.text = {}]
<1>1. o \in RequestT /\ o.at = "writing" /\ c \in ClientId /\ o.base = Len(version[c])
  BY TypesAre DEF RecordsInv, SaveNote, DesksAtWork, AtWork, OnARecord
<1>2. v \in VersionT /\ v.base = latest(c) /\ v.text = o.text
  BY <1>1 DEF VersionT, RequestT, latest
<1>3. /\ desk' = [desk EXCEPT ![d] = q] /\ version' = [version EXCEPT ![c] = Append(@, v)]
      /\ client' = [client EXCEPT ![c] = r]
      /\ overtaken' = (overtaken \/ Overtakes(d, {c}, FALSE)) /\ UNCHANGED <<row, visitor, requests>>
  BY TypesAre DEF SaveNote, RecordsInv
<1>4. /\ r \in ClientT /\ r.note = o.text /\ r.who = client[c].who /\ r.merged = client[c].merged
  <2>1. client[c] \in ClientT /\ o.text \in SUBSET Fact
    BY <1>1, TypesAre DEF RecordsInv, RequestT
  <2> QED BY <2>1 DEF ClientT
<1>5. q \in RequestT /\ q.at = "page" /\ q.on = c
  <2> HIDE DEF o
  <2> QED BY <1>1 DEF RequestT, o
<1> HIDE DEF o, c, v, r, q
<1>6. client' \in [ClientId -> ClientT] /\ client'[c] = r /\ \A x \in ClientId \ {c} : client'[x] = client[x]
  BY <1>1, <1>3, <1>4, TypesAre DEF RecordsInv
<1>7. /\ version' \in [ClientId -> Seq(VersionT)] /\ Len(version[c]) \in Nat
      /\ Len(version'[c]) = Len(version[c]) + 1 /\ version'[c][Len(version[c]) + 1] = v
      /\ \A x \in ClientId \ {c} : version'[x] = version[x]
  BY <1>1, <1>2, <1>3, Appended, TypesAre DEF RecordsInv
<1>8. SavesFollowTheirBase'
  BY <1>1, <1>2, <1>3, BasesFollow
<1>9. \A e \in Reception \ {d} : AtWork(desk[e], version')
  <2> SUFFICES ASSUME NEW e \in Reception \ {d} PROVE AtWork(desk[e], version')
    OBVIOUS
  <2>1. AtWork(desk[e], version)
    BY DEF RecordsInv, DesksAtWork
  <2>2. desk[e].at = "writing" => desk[e].on # c
    <3>1. Held(d) = {c} /\ (desk[e].at = "writing" => Held(e) = {desk[e].on})
      BY <1>1, HeldOf DEF HeldBy, o, c
    <3> QED BY <3>1 DEF RecordsInv, LocksExclude
  <2>3. desk[e].at = "writing" => version'[desk[e].on] = version[desk[e].on]
    BY <2>1, <2>2, <1>7 DEF AtWork, OnARecord
  <2> QED BY <2>1, <2>3 DEF AtWork
<1>10. AtWork(q, version')
  BY <1>1, <1>5 DEF AtWork, AMerge, OnARecord
<1>11. \A x \in ClientId : /\ client'[x].who = client[x].who /\ client'[x].merged = client[x].merged
                           /\ x # c => client'[x].note = client[x].note
  BY <1>4, <1>6
<1>12. ASSUME ~overtaken'
       PROVE  /\ Carried(client', row', version')
              /\ \A e \in Reception \ {d} : FreshIn(desk[e], client', row')
              /\ \A x \in Visitor : visitor[x].client # Nobody => LiveIn(client', visitor[x].client)
  <2>1. /\ ~overtaken /\ ~Overtakes(d, {c}, FALSE) /\ row' = row
        /\ Carried(client, row, version)
        /\ \A e \in Reception : FreshIn(desk[e], client, row)
        /\ \A x \in Visitor : visitor[x].client # Nobody => LiveIn(client, visitor[x].client)
    BY <1>3, <1>12 DEF RecordsInv, NobodyOvertaken
  <2>2. \A x \in ClientId : LiveIn(client', x) = LiveIn(client, x)
    BY <1>11 DEF LiveIn
  <2>3. \A x : LiveIn(client, x) /\ x \in ClientId => LiveIn(client', x)
    BY <2>2
  <2>4. /\ \A x \in ClientId : client[x].merged \in Id
        /\ \A x \in ClientRow : row[x].client \in Id
        /\ \A x \in Visitor : visitor[x].client \in Id
        /\ \A x \in Reception : desk[x].on \in Id /\ desk[x].from \in Id
    BY TypesAre DEF RecordsInv, ClientT, RowT, VisitorT, RequestT
  <2>5. Carried(client', row', version')
    <3>1. \A x \in ClientId : client'[x].merged # Nobody => LiveIn(client', client'[x].merged)
      BY <2>1, <2>2, <2>4, <1>11 DEF Carried, Id
    <3>2. \A x \in ClientRow : row[x].client # Nobody => LiveIn(client', row[x].client)
      BY <2>1, <2>2, <2>4 DEF Carried, Id
    <3>3. \A x \in ClientId : client'[x].note = IF Len(version'[x]) = 0 THEN {} ELSE version'[x][Len(version'[x])].text
      <4>1. client'[c].note = version'[c][Len(version'[c])].text /\ Len(version'[c]) # 0
        BY <1>2, <1>4, <1>6, <1>7
      <4>2. \A x \in ClientId \ {c} : client'[x].note = client[x].note /\ version'[x] = version[x]
        BY <1>7, <1>11
      <4> QED BY <4>1, <4>2, <2>1 DEF Carried
    <3>4. \A x \in ClientId : client'[x].who = Nobody => client'[x].merged = Nobody
      BY <2>1, <1>11 DEF Carried
    <3> QED BY <3>1, <3>2, <3>3, <3>4, <2>1 DEF Carried
  <2>6. ASSUME NEW e \in Reception \ {d} PROVE FreshIn(desk[e], client', row')
    <3>1. FreshIn(desk[e], client, row) /\ AtWork(desk[e], version) /\ desk[e].on \in Id
      BY <2>1, <2>4 DEF RecordsInv, DesksAtWork
    <3>2. desk[e].at \in AMerge => c # desk[e].on /\ c # desk[e].from
      <4>1. c # Nobody
        BY <1>1 DEF ClientsConstants
      <4>2. AMerge \cap {"idle", "opening", "page"} = {}
        BY DEF AMerge
      <4> QED BY <4>1, <4>2, <2>1, Apart
    <3>3. {x \in ClientId : client'[x].merged = desk[e].from} = {x \in ClientId : client[x].merged = desk[e].from}
      BY <1>11
    <3> QED BY <3>1, <3>2, <3>3, <2>1, <2>2, <1>11 DEF FreshIn, AtWork, Id, AMerge, OnARecord
  <2>7. \A x \in Visitor : visitor[x].client # Nobody => LiveIn(client', visitor[x].client)
    BY <2>1, <2>2, <2>4 DEF Id
  <2> QED BY <2>5, <2>6, <2>7
<1>13. overtaken' \in BOOLEAN /\ row' \in [ClientRow -> RowT]
  BY <1>3, TypesAre DEF RecordsInv
<1> QED BY <1>3, <1>5, <1>6, <1>7, <1>8, <1>9, <1>10, <1>12, <1>13, TablesMove

\* What a merge does to one record and to one row.
LEMMA BuriedOf ==
  ASSUME RecordsInv, NEW d \in Reception, desk[d].on \in ClientId
  PROVE  /\ buried(d) \in [ClientId -> ClientT]
         /\ \A x \in ClientId :
              /\ buried(d)[x].who = client[x].who
              /\ buried(d)[x].note = IF x = desk[d].on THEN mergeNotes(d) ELSE client[x].note
              /\ buried(d)[x].merged = IF x \in desk[d].tombs \cup {desk[d].from}
                                      THEN desk[d].on ELSE client[x].merged
<1> DEFINE s == desk[d].on
           t == desk[d].tombs \cup {desk[d].from}
<1>1. mergeNotes(d) \in SUBSET Fact /\ s \in Id
  <2>1. desk[d] \in RequestT
    BY TypesAre DEF RecordsInv
  <2>2. desk[d].shown \in SUBSET Fact /\ desk[d].text \in SUBSET Fact
    BY <2>1 DEF RequestT
  <2> QED BY <2>2 DEF mergeNotes, Id
<1>2. buried(d) = [x \in ClientId |-> buried(d)[x]]
  BY DEF buried
<1>3. ASSUME NEW x \in ClientId
      PROVE  /\ buried(d)[x] \in ClientT /\ buried(d)[x].who = client[x].who
             /\ buried(d)[x].note = IF x = s THEN mergeNotes(d) ELSE client[x].note
             /\ buried(d)[x].merged = IF x \in t THEN s ELSE client[x].merged
  <2>1. client[x] \in ClientT
    BY TypesAre DEF RecordsInv
  <2>2. buried(d)[x] = [client[x] EXCEPT !.note = IF x = s THEN mergeNotes(d) ELSE client[x].note,
                                         !.merged = IF x \in t THEN s ELSE client[x].merged]
    BY DEF buried
  <2> DEFINE n == IF x = s THEN mergeNotes(d) ELSE client[x].note
             m == IF x \in t THEN s ELSE client[x].merged
  <2>3. n \in SUBSET Fact /\ m \in Id
    BY <2>1, <1>1 DEF ClientT
  <2> HIDE DEF n, m
  <2>4. buried(d)[x] = [client[x] EXCEPT !.note = n, !.merged = m]
    BY <2>2 DEF n, m
  <2>5. buried(d)[x] \in ClientT /\ buried(d)[x].who = client[x].who /\ buried(d)[x].note = n /\ buried(d)[x].merged = m
    BY <2>1, <2>3, <2>4 DEF ClientT
  <2> QED BY <2>5 DEF n, m
<1> QED BY <1>2, <1>3

LEMMA MovedOf ==
  ASSUME RecordsInv, NEW d \in Reception, desk[d].on \in ClientId
  PROVE  /\ moved(d) \in [ClientRow -> RowT]
         /\ \A r \in ClientRow : /\ moved(d)[r].client = IF r \in desk[d].rows THEN desk[d].on ELSE row[r].client
                          /\ moved(d)[r].status = row[r].status
<1>1. ASSUME NEW r \in ClientRow
      PROVE  /\ moved(d)[r] \in RowT
             /\ moved(d)[r].client = IF r \in desk[d].rows THEN desk[d].on ELSE row[r].client
             /\ moved(d)[r].status = row[r].status
  <2>1. row[r] \in RowT
    BY TypesAre DEF RecordsInv
  <2>2. moved(d)[r] = IF r \in desk[d].rows THEN [row[r] EXCEPT !.client = desk[d].on] ELSE row[r]
    BY DEF moved
  <2> QED BY <2>1, <2>2 DEF RowT, Id
<1>2. moved(d) = [r \in ClientRow |-> moved(d)[r]]
  BY DEF moved
<1> QED BY <1>1, <1>2

\* A merge nobody ran beside: the record s stays, l is buried, the tombstones t
\* and the rows w that pointed at l are pointed at s.
MergeOf(s, l, t, w, notes) ==
  /\ s \in ClientId /\ l \in ClientId /\ s # l /\ LiveIn(client, s) /\ LiveIn(client, l)
  /\ t = {c \in ClientId : client[c].merged = l} /\ w = {r \in ClientRow : row[r].client = l}
  /\ \A x \in ClientId :
       /\ client'[x].who = client[x].who /\ client'[x].note = IF x = s THEN notes ELSE client[x].note
       /\ client'[x].merged = IF x \in t \cup {l} THEN s ELSE client[x].merged
  /\ \A r \in ClientRow : /\ row'[r].client = IF r \in w THEN s ELSE row[r].client
                   /\ row'[r].status = row[r].status

LEMMA MergeCarries ==
  ASSUME NEW s, NEW l, NEW t, NEW w, NEW notes, MergeOf(s, l, t, w, notes),
         Nobody \notin ClientId, Carried(client, row, version),
         \A x \in ClientId : client[x].merged \in Id,
         \A x \in ClientRow : row[x].client \in Id,
         \A x \in ClientId \ {s} : version'[x] = version[x],
         notes = IF Len(version'[s]) = 0 THEN {} ELSE version'[s][Len(version'[s])].text
  PROVE  /\ Carried(client', row', version')
         /\ \A x \in ClientId : LiveIn(client, x) /\ x # l => LiveIn(client', x)
<1> USE DEF MergeOf
<1>1. \A x \in ClientId : LiveIn(client, x) /\ x # l => LiveIn(client', x)
  <2>1. \A x \in t : client[x].merged # Nobody
    OBVIOUS
  <2> QED BY <2>1 DEF LiveIn
<1>2. LiveIn(client', s)
  BY <1>1
<1>3. ASSUME NEW x \in ClientId, client'[x].merged # Nobody PROVE LiveIn(client', client'[x].merged)
  <2>1. CASE x \in t \cup {l}
    BY <2>1, <1>2
  <2>2. CASE x \notin t \cup {l}
    <3>1. client'[x].merged = client[x].merged /\ client[x].merged # Nobody /\ client[x].merged \in ClientId
      BY <1>3, <2>2 DEF Id
    <3>3. client[x].merged # l
      BY <2>2
    <3> QED BY <3>1, <3>3, <1>1 DEF Carried
  <2> QED BY <2>1, <2>2
<1>4. ASSUME NEW r \in ClientRow, row'[r].client # Nobody PROVE LiveIn(client', row'[r].client)
  <2>1. CASE r \in w
    BY <2>1, <1>2
  <2>2. CASE r \notin w
    <3>1. row'[r].client = row[r].client /\ row[r].client # l /\ row[r].client \in ClientId
      BY <1>4, <2>2 DEF Id
    <3> QED BY <3>1, <1>1, <1>4 DEF Carried
  <2> QED BY <2>1, <2>2
<1>5. \A x \in ClientId : client'[x].note = IF Len(version'[x]) = 0 THEN {} ELSE version'[x][Len(version'[x])].text
  BY DEF Carried
<1>6. ASSUME NEW x \in ClientId, client'[x].who = Nobody PROVE client'[x].merged = Nobody
  <2>1. client[x].who = Nobody /\ client[x].merged = Nobody
    BY <1>6 DEF Carried
  <2>2. x # l /\ x \notin t
    BY <2>1 DEF LiveIn
  <2> QED BY <2>1, <2>2
<1>7. ASSUME NEW r \in ClientRow, row'[r].status = "none" PROVE row'[r].client = Nobody
  <2>1. row[r].client = Nobody
    BY <1>7 DEF Carried
  <2> QED BY <2>1
<1> QED BY <1>1, <1>3, <1>4, <1>5, <1>6, <1>7 DEF Carried

\* A request of neither of the two finds what it read.
LEMMA MergePassesBy ==
  ASSUME NEW s, NEW l, NEW t, NEW w, NEW notes, MergeOf(s, l, t, w, notes), Nobody \notin ClientId,
         \A x \in ClientId : LiveIn(client, x) /\ x # l => LiveIn(client', x),
         NEW q, FreshIn(q, client, row), q.on \in Id, q.rows \in SUBSET ClientRow,
         q.at \in AMerge => q.on \in ClientId /\ q.from \in ClientId,
         q.at \in AMerge \cup {"attaching", "booking"} => q.on # s /\ q.on # l /\ q.from # s /\ q.from # l
  PROVE  FreshIn(q, client', row')
<1> USE DEF MergeOf
<1>1. ASSUME q.at \in {"attaching", "booking"}, q.on # Nobody PROVE LiveIn(client', q.on)
  BY <1>1 DEF FreshIn, Id
<1>2. ASSUME q.at \in AMerge
      PROVE  /\ LiveIn(client', q.on) /\ LiveIn(client', q.from) /\ q.on # q.from
             /\ q.shown = client'[q.on].note /\ q.text = client'[q.from].note
  BY <1>2 DEF FreshIn
<1>3. ASSUME q.at \in {"moved", "kept"}
      PROVE  /\ q.rows = {r \in ClientRow : row'[r].client = q.from}
             /\ q.tombs = {c \in ClientId : client'[c].merged = q.from}
  <2>0. q.at \in AMerge
    BY <1>3 DEF AMerge
  <2>1. q.from # s /\ q.from # l /\ q.from # Nobody
    BY <2>0
  <2>2. \A r \in ClientRow : row'[r].client = q.from <=> row[r].client = q.from
    BY <2>1
  <2>3. \A c \in ClientId : client'[c].merged = q.from <=> client[c].merged = q.from
    BY <2>1 DEF LiveIn
  <2>4. q.rows = {r \in ClientRow : row[r].client = q.from} /\ q.tombs = {c \in ClientId : client[c].merged = q.from}
    BY <1>3 DEF FreshIn
  <2> QED BY <2>2, <2>3, <2>4
<1>4. ASSUME q.at = "attaching" PROVE \A r \in q.rows : row'[r].status # "none"
  BY <1>4 DEF FreshIn
<1> QED BY <1>1, <1>2, <1>3, <1>4 DEF FreshIn

LEMMA ApartFromMerge ==
  ASSUME NEW d, NEW s, NEW l, ~Overtakes(d, {s, l}, TRUE), NEW e \in Reception \ {d}, s # Nobody, l # Nobody,
         desk[e].at \notin {"idle", "opening", "page"}
  PROVE  desk[e].on # s /\ desk[e].on # l /\ desk[e].from # s /\ desk[e].from # l
  BY DEF Overtakes, UnderWay, Read

LEMMA BuryLoserKeeps ==
  ASSUME RecordsInv, ClientsConstants, NEW d \in Reception, BuryLoser(d)
  PROVE  RecordsInv'
<1> DEFINE s == desk[d].on
           l == desk[d].from
           t == desk[d].tombs
           w == desk[d].rows
           v == [text |-> mergeNotes(d), base |-> Merge]
<1>0. desk[d].at = "kept"
  BY DEF BuryLoser
<1>1. desk[d] \in RequestT /\ s \in ClientId /\ l \in ClientId /\ Nobody \notin ClientId
  BY <1>0, TypesAre DEF RecordsInv, DesksAtWork, AtWork, OnARecord, AMerge, ClientsConstants
<1>2. /\ client' = buried(d) /\ row' = moved(d)
      /\ version' = IF desk[d].text = {} THEN version ELSE [version EXCEPT ![s] = Append(@, v)]
      /\ overtaken' = (overtaken \/ Overtakes(d, {s, l}, TRUE))
      /\ desk' = [desk EXCEPT ![d] = idle] /\ UNCHANGED <<visitor, requests>>
  BY DEF BuryLoser
<1>3. v \in VersionT /\ v.base = Merge /\ v.text = mergeNotes(d) /\ mergeNotes(d) = desk[d].shown \cup desk[d].text
  BY <1>1 DEF mergeNotes, RequestT, VersionT
<1>4. /\ client' \in [ClientId -> ClientT]
      /\ \A x \in ClientId : /\ client'[x].who = client[x].who
                             /\ client'[x].note = IF x = s THEN mergeNotes(d) ELSE client[x].note
                             /\ client'[x].merged = IF x \in t \cup {l} THEN s ELSE client[x].merged
  BY <1>1, <1>2, BuriedOf
<1>5. /\ row' \in [ClientRow -> RowT]
      /\ \A r \in ClientRow : /\ row'[r].client = IF r \in w THEN s ELSE row[r].client
                       /\ row'[r].status = row[r].status
  BY <1>1, <1>2, MovedOf
<1> HIDE DEF v
<1>6. /\ version' \in [ClientId -> Seq(VersionT)] /\ \A x \in ClientId \ {s} : version'[x] = version[x]
      /\ desk[d].text = {} => version' = version
      /\ desk[d].text # {} => /\ Len(version'[s]) # 0
                             /\ version'[s][Len(version'[s])] = v
  <2>1. CASE desk[d].text = {}
    BY <2>1, <1>2, TypesAre DEF RecordsInv
  <2>2. CASE desk[d].text # {}
    <3>1. version' = [version EXCEPT ![s] = Append(@, v)]
      BY <2>2, <1>2
    <3>2. /\ version' \in [ClientId -> Seq(VersionT)] /\ Len(version[s]) \in Nat
          /\ Len(version'[s]) = Len(version[s]) + 1 /\ version'[s][Len(version[s]) + 1] = v
          /\ \A x \in ClientId \ {s} : version'[x] = version[x]
      BY <3>1, <1>1, <1>3, Appended, TypesAre DEF RecordsInv
    <3> QED BY <2>2, <3>2
  <2> QED BY <2>1, <2>2
<1>7. SavesFollowTheirBase'
  <2>1. CASE desk[d].text = {}
    BY <2>1, <1>6 DEF RecordsInv, SavesFollowTheirBase, latest
  <2>2. CASE desk[d].text # {}
    BY <2>2, <1>1, <1>2, <1>3, BasesFollow
  <2> QED BY <2>1, <2>2
<1>8. \A e \in Reception \ {d} : AtWork(desk[e], version')
  <2> SUFFICES ASSUME NEW e \in Reception \ {d} PROVE AtWork(desk[e], version')
    OBVIOUS
  <2>1. AtWork(desk[e], version)
    BY DEF RecordsInv, DesksAtWork
  <2>2. desk[e].at = "writing" => desk[e].on # s
    <3>1. s \in Held(d) /\ (desk[e].at = "writing" => Held(e) = {desk[e].on})
      BY <1>0, HeldOf DEF HeldBy
    <3> QED BY <3>1 DEF RecordsInv, LocksExclude
  <2>3. desk[e].at = "writing" => version'[desk[e].on] = version[desk[e].on]
    BY <2>1, <2>2, <1>6 DEF AtWork, OnARecord
  <2> QED BY <2>1, <2>3 DEF AtWork
<1>9. ASSUME ~overtaken'
      PROVE  /\ Carried(client', row', version')
             /\ \A e \in Reception \ {d} : FreshIn(desk[e], client', row')
             /\ \A x \in Visitor : visitor[x].client # Nobody => LiveIn(client', visitor[x].client)
  <2>1. /\ ~overtaken /\ ~Overtakes(d, {s, l}, TRUE)
        /\ Carried(client, row, version)
        /\ \A e \in Reception : FreshIn(desk[e], client, row)
        /\ \A x \in Visitor : visitor[x].client # Nobody => LiveIn(client, visitor[x].client)
    BY <1>2, <1>9 DEF RecordsInv, NobodyOvertaken
  <2>2. /\ \A x \in ClientId : client[x].merged \in Id
        /\ \A x \in ClientRow : row[x].client \in Id
        /\ \A x \in Visitor : visitor[x].client \in Id
        /\ \A x \in Reception : desk[x].on \in Id /\ desk[x].rows \in SUBSET ClientRow
    BY TypesAre DEF RecordsInv, ClientT, RowT, VisitorT, RequestT
  <2>3. /\ LiveIn(client, s) /\ LiveIn(client, l) /\ s # l
        /\ desk[d].shown = client[s].note /\ desk[d].text = client[l].note
        /\ w = {r \in ClientRow : row[r].client = l} /\ t = {c \in ClientId : client[c].merged = l}
    <3>1. FreshIn(desk[d], client, row)
      BY <2>1
    <3> QED BY <3>1, <1>0 DEF FreshIn, AMerge
  <2>4. mergeNotes(d) = IF Len(version'[s]) = 0 THEN {} ELSE version'[s][Len(version'[s])].text
    <3>1. CASE desk[d].text = {}
      <4>1. mergeNotes(d) = client[s].note
        BY <3>1, <1>3, <2>3
      <4>2. client[s].note = IF Len(version[s]) = 0 THEN {} ELSE version[s][Len(version[s])].text
        BY <1>1, <2>1 DEF Carried
      <4> QED BY <3>1, <4>1, <4>2, <1>6
    <3>2. CASE desk[d].text # {}
      BY <3>2, <1>3, <1>6
    <3> QED BY <3>1, <3>2
  <2> DEFINE notes == mergeNotes(d)
  <2> HIDE DEF s, l, t, w, notes
  <2>m. MergeOf(s, l, t, w, notes)
    BY <1>1, <1>4, <1>5, <2>3 DEF MergeOf, notes
  <2>n. notes = IF Len(version'[s]) = 0 THEN {} ELSE version'[s][Len(version'[s])].text
    BY <2>4 DEF notes
  <2>5. /\ Carried(client', row', version')
        /\ \A x \in ClientId : LiveIn(client, x) /\ x # l => LiveIn(client', x)
    BY <1>1, <1>6, <2>1, <2>2, <2>m, <2>n, MergeCarries
  <2>6. ASSUME NEW e \in Reception \ {d} PROVE FreshIn(desk[e], client', row')
    <3>1. /\ FreshIn(desk[e], client, row) /\ desk[e].on \in Id /\ desk[e].rows \in SUBSET ClientRow
          /\ desk[e].at \in AMerge => desk[e].on \in ClientId /\ desk[e].from \in ClientId
      BY <2>1, <2>2 DEF RecordsInv, DesksAtWork, AtWork, AMerge, OnARecord
    <3>2. s # Nobody /\ l # Nobody
      BY <1>1
    <3>3. ASSUME desk[e].at \in AMerge \cup {"attaching", "booking"}
          PROVE  desk[e].on # s /\ desk[e].on # l /\ desk[e].from # s /\ desk[e].from # l
      <4>1. desk[e].at \notin {"idle", "opening", "page"}
        BY <3>3 DEF AMerge
      <4> QED BY <4>1, <3>2, <2>1, ApartFromMerge
    <3> QED BY <3>1, <3>3, <1>1, <2>m, <2>5, MergePassesBy
  <2>7. ASSUME NEW x \in Visitor, visitor[x].client # Nobody PROVE LiveIn(client', visitor[x].client)
    <3>1. visitor[x].client \notin {s, l}
      BY <2>1 DEF Overtakes
    <3> QED BY <2>7, <3>1, <2>1, <2>2, <2>5 DEF Id
  <2> QED BY <2>5, <2>6, <2>7
<1>10. overtaken' \in BOOLEAN
  BY <1>2, TypesAre DEF RecordsInv, Overtakes
<1>11. idle \in RequestT /\ idle.at \in {"idle", "page"} /\ AtWork(idle, version')
  BY IdleIsRequest
<1> HIDE DEF s, l, t, w
<1> QED BY <1>2, <1>4, <1>5, <1>6, <1>7, <1>8, <1>9, <1>10, <1>11, TablesMove

\* Rows change hands, and the records stand.
LEMMA RowsChange ==
  ASSUME NEW q, FreshIn(q, client, row), UNCHANGED client,
         \A r \in ClientRow : row'[r].status = "none" => row[r].status = "none",
         q.rows \in SUBSET ClientRow,
         q.at \in AMerge => \A r \in ClientRow : row'[r].client = q.from <=> row[r].client = q.from
  PROVE  FreshIn(q, client', row')
<1>1. q.at \in {"moved", "kept"} => q.at \in AMerge
  BY DEF AMerge
<1>2. ASSUME q.at \in {"moved", "kept"} PROVE q.rows = {r \in ClientRow : row'[r].client = q.from}
  BY <1>1, <1>2 DEF FreshIn
<1>3. ASSUME q.at = "attaching" PROVE \A r \in q.rows : row'[r].status # "none"
  BY <1>3 DEF FreshIn
<1> QED BY <1>2, <1>3 DEF FreshIn

\* A request of the desk ends, and only rows changed.
LEMMA DeskTurnsRows ==
  ASSUME RecordsInv, NEW d \in Reception, desk' = [desk EXCEPT ![d] = idle], row' \in [ClientRow -> RowT],
         UNCHANGED <<client, version, visitor, requests>>, overtaken' \in BOOLEAN, overtaken => overtaken',
         \A r \in ClientRow : row'[r].status = "none" => row[r].status = "none",
         ~overtaken' =>
           /\ \A r \in ClientRow : row'[r].client # Nobody => LiveIn(client, row'[r].client)
           /\ \A r \in ClientRow : row'[r].status = "none" => row'[r].client = Nobody
           /\ \A e \in Reception \ {d} : desk[e].at \in AMerge =>
                \A r \in ClientRow : row'[r].client = desk[e].from <=> row[r].client = desk[e].from
  PROVE  RecordsInv'
<1>1. client' \in [ClientId -> ClientT] /\ version' \in [ClientId -> Seq(VersionT)] /\ \A e \in Reception : desk[e].rows \in SUBSET ClientRow
  BY TypesAre DEF RecordsInv, RequestT
<1>2. idle \in RequestT /\ idle.at \in {"idle", "page"} /\ AtWork(idle, version')
  BY IdleIsRequest
<1>3. SavesFollowTheirBase' /\ \A e \in Reception \ {d} : AtWork(desk[e], version')
  BY DEF RecordsInv, SavesFollowTheirBase, latest, DesksAtWork
<1>4. ASSUME ~overtaken'
      PROVE  /\ Carried(client', row', version')
             /\ \A e \in Reception \ {d} : FreshIn(desk[e], client', row')
             /\ \A v \in Visitor : visitor[v].client # Nobody => LiveIn(client', visitor[v].client)
  <2>1. /\ Carried(client, row, version)
        /\ \A e \in Reception : FreshIn(desk[e], client, row)
        /\ \A v \in Visitor : visitor[v].client # Nobody => LiveIn(client, visitor[v].client)
    BY <1>4 DEF RecordsInv, NobodyOvertaken
  <2>2. Carried(client', row', version')
    BY <1>4, <2>1 DEF Carried
  <2>3. \A e \in Reception \ {d} : FreshIn(desk[e], client', row')
    BY <1>1, <1>4, <2>1, RowsChange
  <2> QED BY <2>1, <2>2, <2>3
<1> QED BY <1>1, <1>2, <1>3, <1>4, TablesMove

LEMMA AttachKeeps ==
  ASSUME RecordsInv, ClientsConstants, NEW d \in Reception, Attach(d)
  PROVE  RecordsInv'
<1> DEFINE on == desk[d].on
           from == desk[d].from
           rows == desk[d].rows
<1>1. desk[d] \in RequestT /\ on \in Id /\ rows \in SUBSET ClientRow /\ Nobody \notin ClientId
  BY TypesAre DEF RecordsInv, RequestT, ClientsConstants
<1>2. /\ row' = [r \in ClientRow |-> IF r \in rows /\ row[r].client = from THEN [row[r] EXCEPT !.client = on] ELSE row[r]]
      /\ overtaken' = (overtaken \/ Overtakes(d, {on, from}, FALSE))
      /\ desk' = [desk EXCEPT ![d] = idle] /\ UNCHANGED <<client, version, visitor, requests>>
      /\ desk[d].at = "attaching"
  BY DEF Attach
<1> HIDE DEF on, from, rows
<1>3. ASSUME NEW r \in ClientRow
      PROVE  /\ row'[r] \in RowT /\ row'[r].status = row[r].status
             /\ row'[r].client = IF r \in rows /\ row[r].client = from THEN on ELSE row[r].client
  <2>1. row[r] \in RowT
    BY TypesAre DEF RecordsInv
  <2>2. row'[r] = IF r \in rows /\ row[r].client = from THEN [row[r] EXCEPT !.client = on] ELSE row[r]
    BY <1>2
  <2> QED BY <1>1, <2>1, <2>2 DEF RowT
<1>4. row' \in [ClientRow -> RowT]
  BY <1>2, <1>3
<1>5. overtaken' \in BOOLEAN /\ (overtaken => overtaken')
  BY <1>2, TypesAre DEF RecordsInv, Overtakes
<1>6. ASSUME ~overtaken'
      PROVE  /\ \A r \in ClientRow : row'[r].client # Nobody => LiveIn(client, row'[r].client)
             /\ \A r \in ClientRow : row'[r].status = "none" => row'[r].client = Nobody
             /\ \A e \in Reception \ {d} : desk[e].at \in AMerge =>
                  \A r \in ClientRow : row'[r].client = desk[e].from <=> row[r].client = desk[e].from
  <2>1. ~overtaken /\ ~Overtakes(d, {on, from}, FALSE)
    BY <1>2, <1>6
  <2>2. Carried(client, row, version) /\ FreshIn(desk[d], client, row)
    BY <2>1 DEF RecordsInv, NobodyOvertaken
  <2>3. (on # Nobody => LiveIn(client, on)) /\ \A r \in rows : row[r].status # "none"
    BY <1>2, <2>2 DEF FreshIn, on, rows
  <2>4. \A r \in ClientRow : row'[r].client # Nobody => LiveIn(client, row'[r].client)
    BY <1>3, <2>2, <2>3 DEF Carried
  <2>5. \A r \in ClientRow : row'[r].status = "none" => row'[r].client = Nobody
    BY <1>3, <2>2, <2>3 DEF Carried
  <2>6. ASSUME NEW e \in Reception \ {d}, desk[e].at \in AMerge PROVE desk[e].from # on /\ desk[e].from # from
    <3>1. desk[e].from \in ClientId /\ desk[e].at \notin {"idle", "opening", "page"}
      BY <2>6 DEF RecordsInv, DesksAtWork, AtWork, AMerge
    <3>2. ASSUME NEW c \in {on, from}, c # Nobody PROVE c # desk[e].from
      BY <2>1, <2>6, <3>1, <3>2, Apart
    <3> QED BY <1>1, <3>1, <3>2
  <2>7. \A e \in Reception \ {d} : desk[e].at \in AMerge =>
          \A r \in ClientRow : row'[r].client = desk[e].from <=> row[r].client = desk[e].from
    BY <1>3, <2>6
  <2> QED BY <2>4, <2>5, <2>7
<1> QED BY <1>2, <1>3, <1>4, <1>5, <1>6, DeskTurnsRows

LEMMA BookForKeeps ==
  ASSUME RecordsInv, ClientsConstants, NEW d \in Reception, NEW r \in ClientRow, BookFor(d, r)
  PROVE  RecordsInv'
<1> DEFINE on == desk[d].on
           v == [client |-> on, status |-> "booked"]
<1>1. desk[d] \in RequestT /\ on \in Id /\ Nobody \notin ClientId
  BY TypesAre DEF RecordsInv, RequestT, ClientsConstants
<1>2. /\ row' = [row EXCEPT ![r] = v] /\ row[r].status = "none"
      /\ overtaken' = (overtaken \/ Overtakes(d, {on}, FALSE))
      /\ desk' = [desk EXCEPT ![d] = idle] /\ UNCHANGED <<client, version, visitor, requests>>
      /\ desk[d].at = "booking"
  BY DEF BookFor, unused
<1>3. v \in RowT /\ v.client = on /\ v.status = "booked"
  BY <1>1 DEF RowT
<1> HIDE DEF on, v
<1>4. row' \in [ClientRow -> RowT] /\ row'[r] = v /\ \A x \in ClientRow \ {r} : row'[x] = row[x]
  BY <1>2, <1>3, TypesAre DEF RecordsInv
<1>5. overtaken' \in BOOLEAN /\ (overtaken => overtaken')
  BY <1>2, TypesAre DEF RecordsInv, Overtakes
<1>6. ASSUME ~overtaken'
      PROVE  /\ \A x \in ClientRow : row'[x].client # Nobody => LiveIn(client, row'[x].client)
             /\ \A x \in ClientRow : row'[x].status = "none" => row'[x].client = Nobody
             /\ \A e \in Reception \ {d} : desk[e].at \in AMerge =>
                  \A x \in ClientRow : row'[x].client = desk[e].from <=> row[x].client = desk[e].from
  <2>1. ~overtaken /\ ~Overtakes(d, {on}, FALSE)
    BY <1>2, <1>6
  <2>2. Carried(client, row, version) /\ FreshIn(desk[d], client, row)
    BY <2>1 DEF RecordsInv, NobodyOvertaken
  <2>3. (on # Nobody => LiveIn(client, on)) /\ row[r].client = Nobody
    BY <1>2, <2>2 DEF FreshIn, Carried, on
  <2>4. \A x \in ClientRow : row'[x].client # Nobody => LiveIn(client, row'[x].client)
    BY <1>3, <1>4, <2>2, <2>3 DEF Carried
  <2>5. \A x \in ClientRow : row'[x].status = "none" => row'[x].client = Nobody
    BY <1>3, <1>4, <2>2 DEF Carried
  <2>6. ASSUME NEW e \in Reception \ {d}, desk[e].at \in AMerge PROVE desk[e].from # on /\ desk[e].from # Nobody
    <3>1. desk[e].from \in ClientId /\ desk[e].at \notin {"idle", "opening", "page"}
      BY <2>6 DEF RecordsInv, DesksAtWork, AtWork, AMerge
    <3>2. ASSUME NEW c \in {on}, c # Nobody PROVE c # desk[e].from
      BY <2>1, <2>6, <3>1, <3>2, Apart
    <3> QED BY <1>1, <3>1, <3>2
  <2>7. \A e \in Reception \ {d} : desk[e].at \in AMerge =>
          \A x \in ClientRow : row'[x].client = desk[e].from <=> row[x].client = desk[e].from
    BY <1>3, <1>4, <2>3, <2>6
  <2> QED BY <2>4, <2>5, <2>7
<1>7. \A x \in ClientRow : row'[x].status = "none" => row[x].status = "none"
  BY <1>2, <1>4
<1> QED BY <1>2, <1>4, <1>5, <1>6, <1>7, DeskTurnsRows

\* A step of a client or of the chair: no desk moved.
LEMMA OthersMove ==
  ASSUME RecordsInv, UNCHANGED <<version, desk>>, client' \in [ClientId -> ClientT], row' \in [ClientRow -> RowT],
         visitor' \in [Visitor -> VisitorT], requests' \in Nat, overtaken' \in BOOLEAN,
         ~overtaken' => /\ Carried(client', row', version)
                        /\ \A e \in Reception : FreshIn(desk[e], client', row')
                        /\ \A v \in Visitor : visitor'[v].client # Nobody => LiveIn(client', visitor'[v].client)
  PROVE  RecordsInv'
<1>1. RecordsTypeOK'
  BY TypesAre, TypesNext DEF RecordsInv
<1>2. LocksExclude'
  BY HeldOf, HeldNext DEF RecordsInv, LocksExclude
<1>3. DesksAtWork' /\ SavesFollowTheirBase'
  BY DEF RecordsInv, DesksAtWork, SavesFollowTheirBase, latest
<1>4. NobodyOvertaken'
  BY DEF NobodyOvertaken
<1> QED BY <1>1, <1>2, <1>3, <1>4 DEF RecordsInv

\* The website's match is a live record, or nobody's.
LEMMA ReturningIsLive ==
  ASSUME RecordsInv, ClientsConstants, NEW p \in Person, NEW c \in findReturningClient(p)
  PROVE  c \in Id /\ (~overtaken /\ c # Nobody => LiveIn(client, c))
<1>1. \A x \in ClientId : client[x].merged \in Id
  BY TypesAre DEF RecordsInv, ClientT
<1>2. matches(p) \in SUBSET ClientId /\ p # Nobody /\ \A x \in matches(p) : client[x].who = p
  BY DEF matches, ClientsConstants
<1>3. CASE matches(p) = {}
  BY <1>3 DEF findReturningClient, Id
<1>4. CASE \E x \in matches(p) : LiveClient(x)
  BY <1>2, <1>4 DEF findReturningClient, Id, LiveClient, LiveIn
<1>5. CASE matches(p) # {} /\ ~\E x \in matches(p) : LiveClient(x)
  <2>1. PICK x \in matches(p) : c = client[x].merged
    BY <1>5 DEF findReturningClient
  <2>2. ~overtaken => Carried(client, row, version)
    BY DEF RecordsInv, NobodyOvertaken
  <2> QED BY <1>1, <1>2, <2>1, <2>2 DEF Carried
<1> QED BY <1>3, <1>4, <1>5

\* She is looked up, or leaves: one visitor, and no table.
LEMMA VisitorMoves ==
  ASSUME RecordsInv, NEW v \in Visitor, NEW x \in VisitorT, visitor' = [visitor EXCEPT ![v] = x],
         UNCHANGED <<client, version, row, desk, overtaken>>, requests' \in Nat,
         ~overtaken /\ x.client # Nobody => LiveIn(client, x.client)
  PROVE  RecordsInv'
<1>1. /\ visitor' \in [Visitor -> VisitorT] /\ visitor'[v] = x
      /\ \A u \in Visitor \ {v} : visitor'[u] = visitor[u]
  BY TypesAre DEF RecordsInv
<1>2. client' \in [ClientId -> ClientT] /\ row' \in [ClientRow -> RowT] /\ overtaken' \in BOOLEAN
  BY TypesAre DEF RecordsInv
<1>3. ~overtaken' => /\ Carried(client', row', version)
                     /\ \A e \in Reception : FreshIn(desk[e], client', row')
                     /\ \A u \in Visitor : visitor'[u].client # Nobody => LiveIn(client', visitor'[u].client)
  BY <1>1 DEF RecordsInv, NobodyOvertaken
<1> QED BY <1>1, <1>2, <1>3, OthersMove

LEMMA LookUpKeeps ==
  ASSUME RecordsInv, ClientsConstants, NEW v \in Visitor, NEW p \in Person, LookUp(v, p)
  PROVE  RecordsInv'
<1>1. PICK c \in findReturningClient(p) : visitor' = [visitor EXCEPT ![v] = [who |-> p, client |-> c]]
  BY DEF LookUp
<1> DEFINE x == [who |-> p, client |-> c]
<1>2. c \in Id /\ (~overtaken /\ c # Nobody => LiveIn(client, c))
  BY ReturningIsLive
<1>3. x \in VisitorT /\ x.client = c
  BY <1>2 DEF VisitorT
<1>4. requests' \in Nat /\ UNCHANGED <<client, version, row, desk, overtaken>> /\ visitor' = [visitor EXCEPT ![v] = x]
  BY <1>1, BeginsTypes DEF LookUp
<1> HIDE DEF x
<1> QED BY <1>2, <1>3, <1>4, VisitorMoves

LEMMA AwayIsVisitor == away \in VisitorT /\ away.client = Nobody
  BY DEF away, VisitorT, Id

LEMMA RefusedKeeps ==
  ASSUME RecordsInv, NEW v \in Visitor, TurnedAway(v)
  PROVE  RecordsInv'
<1>1. visitor' = [visitor EXCEPT ![v] = away] /\ UNCHANGED <<client, version, row, desk, overtaken>> /\ requests' \in Nat
  BY BeginsTypes DEF TurnedAway
<1> QED BY <1>1, AwayIsVisitor, VisitorMoves

LEMMA CreateClientKeeps ==
  ASSUME RecordsInv, ClientsConstants, NEW v \in Visitor, NEW c \in ClientId, CreateClient(v, c)
  PROVE  RecordsInv'
<1> DEFINE k == [client[c] EXCEPT !.who = visitor[v].who]
           x == [visitor[v] EXCEPT !.client = c]
<1>1. /\ client[c] \in ClientT /\ visitor[v] \in VisitorT /\ visitor[v].who # Nobody
      /\ client[c].who = Nobody /\ Nobody \notin ClientId
  BY TypesAre DEF RecordsInv, CreateClient, ClientsConstants
<1>2. /\ client' = [client EXCEPT ![c] = k] /\ visitor' = [visitor EXCEPT ![v] = x]
      /\ UNCHANGED <<version, row, desk, overtaken, requests>>
  BY TypesAre DEF CreateClient, RecordsInv
<1>3. /\ k \in ClientT /\ k.who # Nobody /\ k.note = client[c].note /\ k.merged = client[c].merged
      /\ x \in VisitorT /\ x.client = c
  BY <1>1 DEF ClientT, VisitorT, Id
<1> HIDE DEF k, x
<1>4. /\ client' \in [ClientId -> ClientT] /\ visitor' \in [Visitor -> VisitorT]
      /\ row' \in [ClientRow -> RowT] /\ requests' \in Nat /\ overtaken' \in BOOLEAN
  BY <1>2, <1>3, TypesAre DEF RecordsInv
<1>5. /\ client'[c] = k /\ visitor'[v] = x
      /\ \A y \in ClientId \ {c} : client'[y] = client[y]
      /\ \A y \in Visitor \ {v} : visitor'[y] = visitor[y]
  BY <1>2, TypesAre DEF RecordsInv
<1>6. ASSUME ~overtaken
      PROVE  /\ Carried(client', row', version)
             /\ \A e \in Reception : FreshIn(desk[e], client', row')
             /\ \A y \in Visitor : visitor'[y].client # Nobody => LiveIn(client', visitor'[y].client)
  <2>1. /\ Carried(client, row, version)
        /\ \A e \in Reception : FreshIn(desk[e], client, row)
        /\ \A y \in Visitor : visitor[y].client # Nobody => LiveIn(client, visitor[y].client)
    BY <1>6 DEF RecordsInv, NobodyOvertaken
  <2>2. /\ \A y \in ClientId : client'[y].note = client[y].note /\ client'[y].merged = client[y].merged
        /\ \A y \in ClientId : client'[y].who = Nobody => client[y].who = Nobody
    BY <1>1, <1>3, <1>5
  <2>3. \A y \in ClientId : LiveIn(client, y) => LiveIn(client', y)
    BY <1>1, <1>5 DEF LiveIn
  <2>4. LiveIn(client', c)
    BY <1>1, <1>3, <1>5, <2>1 DEF LiveIn, Carried
  <2>5. /\ \A y \in ClientId : client[y].merged \in Id
        /\ \A y \in ClientRow : row[y].client \in Id
        /\ \A y \in Visitor : visitor[y].client \in Id
        /\ \A e \in Reception : desk[e].on \in Id
    BY TypesAre DEF RecordsInv, ClientT, RowT, VisitorT, RequestT
  <2>6. Carried(client', row', version)
    <3>1. \A y \in ClientId : client'[y].merged # Nobody => LiveIn(client', client'[y].merged)
      BY <2>1, <2>2, <2>3, <2>5 DEF Carried, Id
    <3>2. \A r \in ClientRow : row'[r].client # Nobody => LiveIn(client', row'[r].client)
      BY <1>2, <2>1, <2>3, <2>5 DEF Carried, Id
    <3>3. \A y \in ClientId : client'[y].who = Nobody => client'[y].merged = Nobody
      BY <2>1, <2>2 DEF Carried
    <3> QED BY <3>1, <3>2, <3>3, <1>2, <2>1, <2>2 DEF Carried
  <2>7. ASSUME NEW e \in Reception PROVE FreshIn(desk[e], client', row')
    <3>1. /\ FreshIn(desk[e], client, row) /\ desk[e].on \in Id
          /\ desk[e].at \in AMerge => desk[e].on \in ClientId /\ desk[e].from \in ClientId
      BY <2>1, <2>5 DEF RecordsInv, DesksAtWork, AtWork, AMerge, OnARecord
    <3>2. \A y : {z \in ClientId : client'[z].merged = y} = {z \in ClientId : client[z].merged = y}
      BY <2>2
    <3>3. ASSUME desk[e].at \in {"attaching", "booking"}, desk[e].on # Nobody PROVE LiveIn(client', desk[e].on)
      BY <3>1, <3>3, <2>3 DEF FreshIn, Id
    <3>4. ASSUME desk[e].at \in AMerge
          PROVE  /\ LiveIn(client', desk[e].on) /\ LiveIn(client', desk[e].from) /\ desk[e].on # desk[e].from
                 /\ desk[e].shown = client'[desk[e].on].note /\ desk[e].text = client'[desk[e].from].note
      BY <3>1, <3>4, <2>2, <2>3 DEF FreshIn
    <3>5. ASSUME desk[e].at \in {"moved", "kept"}
          PROVE  /\ desk[e].rows = {r \in ClientRow : row'[r].client = desk[e].from}
                 /\ desk[e].tombs = {z \in ClientId : client'[z].merged = desk[e].from}
      BY <3>1, <3>2, <3>5, <1>2 DEF FreshIn
    <3>6. desk[e].at = "attaching" => \A r \in desk[e].rows : row'[r].status # "none"
      BY <3>1, <1>2 DEF FreshIn
    <3> QED BY <3>3, <3>4, <3>5, <3>6 DEF FreshIn
  <2>8. \A y \in Visitor : visitor'[y].client # Nobody => LiveIn(client', visitor'[y].client)
    BY <1>3, <1>5, <2>1, <2>3, <2>4, <2>5 DEF Id
  <2> QED BY <2>6, <2>7, <2>8
<1> QED BY <1>2, <1>4, <1>6, OthersMove

LEMMA BookHerselfKeeps ==
  ASSUME RecordsInv, ClientsConstants, NEW v \in Visitor, NEW r \in ClientRow, BookHerself(v, r)
  PROVE  RecordsInv'
<1> DEFINE c == visitor[v].client
           k == [client |-> c, status |-> "booked"]
<1>1. c \in Id /\ c # Nobody /\ row[r].status = "none" /\ Nobody \notin ClientId
  BY TypesAre DEF RecordsInv, BookHerself, VisitorT, unused, ClientsConstants
<1>2. /\ row' = [row EXCEPT ![r] = k] /\ visitor' = [visitor EXCEPT ![v] = away]
      /\ overtaken' = (overtaken \/ \E e \in Reception : Merging(e) /\ c \in Read(e))
      /\ UNCHANGED <<client, version, desk, requests>>
  BY DEF BookHerself
<1>3. k \in RowT /\ k.client = c /\ k.status = "booked"
  BY <1>1 DEF RowT
<1> HIDE DEF c, k
<1>4. /\ row' \in [ClientRow -> RowT] /\ visitor' \in [Visitor -> VisitorT] /\ client' \in [ClientId -> ClientT]
      /\ requests' \in Nat /\ overtaken' \in BOOLEAN
  BY <1>2, <1>3, AwayIsVisitor, TypesAre DEF RecordsInv
<1>5. /\ row'[r] = k /\ visitor'[v] = away
      /\ \A x \in ClientRow \ {r} : row'[x] = row[x]
      /\ \A x \in Visitor \ {v} : visitor'[x] = visitor[x]
  BY <1>2, TypesAre DEF RecordsInv
<1>6. ASSUME ~overtaken'
      PROVE  /\ Carried(client', row', version)
             /\ \A e \in Reception : FreshIn(desk[e], client', row')
             /\ \A x \in Visitor : visitor'[x].client # Nobody => LiveIn(client', visitor'[x].client)
  <2>1. /\ Carried(client, row, version)
        /\ \A e \in Reception : FreshIn(desk[e], client, row)
        /\ \A x \in Visitor : visitor[x].client # Nobody => LiveIn(client, visitor[x].client)
        /\ \A e \in Reception : Merging(e) => c \notin Read(e)
    BY <1>2, <1>6 DEF RecordsInv, NobodyOvertaken
  <2>2. LiveIn(client, c) /\ row[r].client = Nobody
    BY <1>1, <2>1 DEF Carried, c
  <2>3. Carried(client', row', version)
    BY <1>2, <1>3, <1>5, <2>1, <2>2 DEF Carried
  <2>4. ASSUME NEW e \in Reception PROVE FreshIn(desk[e], client', row')
    <3>1. desk[e].at \in AMerge => desk[e].from # c /\ desk[e].from # Nobody
      BY <1>1, <2>1 DEF RecordsInv, DesksAtWork, AtWork, AMerge, Merging, Read
    <3>2. desk[e].at \in AMerge => \A x \in ClientRow : row'[x].client = desk[e].from <=> row[x].client = desk[e].from
      BY <1>3, <1>5, <2>2, <3>1
    <3>3. desk[e].rows \in SUBSET ClientRow /\ \A x \in ClientRow : row'[x].status = "none" => row[x].status = "none"
      BY <1>1, <1>5, TypesAre DEF RecordsInv, RequestT
    <3> QED BY <1>2, <2>1, <3>2, <3>3, RowsChange
  <2>5. \A x \in Visitor : visitor'[x].client # Nobody => LiveIn(client', visitor'[x].client)
    BY <1>2, <1>5, <2>1, AwayIsVisitor
  <2> QED BY <2>3, <2>4, <2>5
<1> QED BY <1>2, <1>4, <1>6, OthersMove

LEMMA MarkNoShowKeeps ==
  ASSUME RecordsInv, NEW r \in ClientRow, MarkNoShow(r)
  PROVE  RecordsInv'
<1> DEFINE k == [row[r] EXCEPT !.status = "no_show"]
<1>1. /\ row' = [row EXCEPT ![r] = k] /\ row[r].status = "booked" /\ row[r] \in RowT
      /\ UNCHANGED <<client, version, desk, visitor, overtaken, requests>>
  BY TypesAre DEF MarkNoShow, RecordsInv
<1>2. k \in RowT /\ k.client = row[r].client /\ k.status = "no_show"
  BY <1>1 DEF RowT
<1> HIDE DEF k
<1>3. /\ row' \in [ClientRow -> RowT] /\ client' \in [ClientId -> ClientT] /\ visitor' \in [Visitor -> VisitorT]
      /\ requests' \in Nat /\ overtaken' \in BOOLEAN
  BY <1>1, <1>2, TypesAre DEF RecordsInv
<1>4. \A x \in ClientRow : /\ row'[x].client = row[x].client
                           /\ row'[x].status = "none" <=> row[x].status = "none"
  BY <1>1, <1>2, TypesAre DEF RecordsInv
<1>5. ASSUME ~overtaken
      PROVE  /\ Carried(client', row', version)
             /\ \A e \in Reception : FreshIn(desk[e], client', row')
             /\ \A x \in Visitor : visitor'[x].client # Nobody => LiveIn(client', visitor'[x].client)
  <2>1. /\ Carried(client, row, version)
        /\ \A e \in Reception : FreshIn(desk[e], client, row)
        /\ \A x \in Visitor : visitor[x].client # Nobody => LiveIn(client, visitor[x].client)
    BY <1>5 DEF RecordsInv, NobodyOvertaken
  <2>2. Carried(client', row', version)
    BY <1>1, <1>4, <2>1 DEF Carried
  <2>3. \A e \in Reception : FreshIn(desk[e], client', row')
    BY <1>1, <1>4, <2>1, RowsChange, TypesAre DEF RecordsInv, RequestT
  <2> QED BY <1>1, <2>1, <2>2, <2>3
<1> QED BY <1>1, <1>3, <1>5, OthersMove

LEMMA RecordsStutter ==
  ASSUME RecordsInv, UNCHANGED recordVars
  PROVE  RecordsInv'
<1>1. /\ client' \in [ClientId -> ClientT] /\ row' \in [ClientRow -> RowT] /\ visitor' \in [Visitor -> VisitorT]
      /\ requests' \in Nat /\ overtaken' \in BOOLEAN
  BY TypesAre DEF RecordsInv, recordVars
<1>2. ~overtaken' => /\ Carried(client', row', version)
                     /\ \A e \in Reception : FreshIn(desk[e], client', row')
                     /\ \A x \in Visitor : visitor'[x].client # Nobody => LiveIn(client', visitor'[x].client)
  BY DEF RecordsInv, NobodyOvertaken, recordVars
<1> QED BY <1>1, <1>2, OthersMove DEF recordVars

LEMMA RecordsStep == ClientsConstants /\ RecordsInv /\ [RecordsNext]_recordVars => RecordsInv'
<1> SUFFICES ASSUME ClientsConstants, RecordsInv, [RecordsNext]_recordVars PROVE RecordsInv'
  OBVIOUS
<1>1. ASSUME NEW d \in Reception, DeskStep(d) PROVE RecordsInv'
  <2>1. CASE \E c \in ClientId : OpenPage(d, c)
    BY <2>1, OpenPageKeeps
  <2>2. CASE LoadVersion(d) \/ CheckBase(d) \/ SaveNote(d)
    BY <2>2, LoadVersionKeeps, CheckBaseKeeps, SaveNoteKeeps
  <2>3. CASE \E text \in SUBSET Fact : Submit(d, text)
    BY <2>3, SubmitKeeps
  <2>4. CASE \E s, l \in ClientId : ReadBoth(d, s, l)
    BY <2>4, ReadBothKeeps
  <2>5. CASE MoveRows(d) \/ KeepSurvivor(d) \/ BuryLoser(d)
    BY <2>5, MoveRowsKeeps, KeepSurvivorKeeps, BuryLoserKeeps
  <2>6. CASE \E r \in ClientRow, c \in Id : LoadAttachable(d, r, c)
    BY <2>6, AttachableKeeps
  <2>7. CASE \E c \in Id : PickClient(d, c)
    BY <2>7, PickClientKeeps
  <2>8. CASE Attach(d) \/ \E r \in ClientRow : BookFor(d, r)
    BY <2>8, AttachKeeps, BookForKeeps
  <2>9. CASE Leave(d)
    BY <2>9, LeaveKeeps
  <2> QED BY <1>1, <2>1, <2>2, <2>3, <2>4, <2>5, <2>6, <2>7, <2>8, <2>9 DEF DeskStep
<1>2. ASSUME NEW v \in Visitor, VisitorStep(v) PROVE RecordsInv'
  BY <1>2, LookUpKeeps, CreateClientKeeps, BookHerselfKeeps, RefusedKeeps DEF VisitorStep
<1>3. CASE \E r \in ClientRow : MarkNoShow(r)
  BY <1>3, MarkNoShowKeeps
<1>4. CASE UNCHANGED recordVars
  BY <1>4, RecordsStutter
<1> QED BY <1>1, <1>2, <1>3, <1>4 DEF RecordsNext

LEMMA RecordsStart == ClientsConstants /\ RecordsInit => RecordsInv
<1> SUFFICES ASSUME ClientsConstants, RecordsInit PROVE RecordsInv
  OBVIOUS
<1>1. \A c \in ClientId : client[c] \in [who : Person \cup {Nobody}, note : {{}}, merged : {Nobody}]
  BY DEF RecordsInit
<1>2. \A c \in ClientId : version[c] = << >> /\ Len(version[c]) = 0
  BY DEF RecordsInit
<1>3. RecordsTypeOK
  <2>1. client \in [ClientId -> ClientT]
    BY DEF RecordsInit, ClientT, Id
  <2>2. version \in [ClientId -> Seq(VersionT)]
    BY EmptySeq DEF RecordsInit
  <2>3. row \in [ClientRow -> RowT] /\ visitor \in [Visitor -> VisitorT]
    BY AwayIsVisitor DEF RecordsInit, RowT, Id
  <2>4. desk \in [Reception -> RequestT]
    BY IdleIsRequest DEF RecordsInit
  <2> QED BY <2>1, <2>2, <2>3, <2>4, TypesAre DEF RecordsInit
<1>4. \A d \in Reception : desk[d] = idle
  BY DEF RecordsInit
<1>5. LocksExclude
  BY <1>4, HeldOf, HoldsNothing, IdleIsRequest DEF LocksExclude
<1>6. DesksAtWork
  BY <1>4, IdleIsRequest DEF DesksAtWork
<1>7. SavesFollowTheirBase
  BY <1>2 DEF SavesFollowTheirBase, latest
<1>8. NobodyOvertaken
  <2>1. Carried(client, row, version)
    BY <1>1, <1>2 DEF Carried, RecordsInit
  <2>2. \A v \in Visitor : visitor[v].client = Nobody
    BY AwayIsVisitor DEF RecordsInit
  <2> QED BY <1>4, <2>1, <2>2, IdleIsRequest DEF NobodyOvertaken
<1> QED BY <1>3, <1>5, <1>6, <1>7, <1>8 DEF RecordsInv

\* The client records, for any clients, rows, desks and visitors, whatever the
\* threshold and however many versions and requests: of two saves made from one
\* version of a note the second is refused, and as long as no merge ran beside
\* another request on the same records, one hop finds the survivor, every row
\* is on a live record, and a note is its newest version (clients.ts).
THEOREM TheRecordsLoseNothing ==
  ASSUME ClientsConstants
  PROVE  RecordsSpec => []RecordsLoseNothing
<1>1. RecordsInit => RecordsInv
  BY RecordsStart
<1>2. RecordsInv /\ [RecordsNext]_recordVars => RecordsInv'
  BY RecordsStep
<1>3. RecordsInv => RecordsLoseNothing
  BY DEF RecordsInv, RecordsLoseNothing, MergesCarryEverything, NobodyOvertaken, Carried, LiveClient, LiveIn, latest
<1> QED
  BY <1>1, <1>2, <1>3, PTL DEF RecordsSpec

-----------------------------------------------------------------------------
\* The column running late: what its visits, its claim and its hour are.

ColumnIsTyped ==
  /\ hour \in Int
  /\ queue \in [Appt -> Visits]
  /\ late \in [minutes : Nat, claimedAt : Int, pushedOff : Nat]

\* Of some sets of members of a finite set one has no member to spare.
LEMMA SmallestSet ==
  ASSUME NEW S, IsFiniteSet(S), NEW B \in SUBSET SUBSET S, B # {}
  PROVE  \E T \in B : \A x \in T : T \ {x} \notin B
<1> DEFINE R == StrictSubsetOrdering(S)
           F == FiniteSubsetsOf(S)
<1>1. IsWellFoundedOn(R, F)
  BY FS_StrictSubsetOrderingWellFounded
<1>2. B \subseteq F
  BY FS_Subset DEF FiniteSubsetsOf
<1>3. PICK T \in B : \A U \in B : <<U, T>> \notin R
  <2> HIDE DEF R, F
  <2> QED BY <1>1, <1>2, WFMin
<1>4. ASSUME NEW x \in T, T \ {x} \in B PROVE FALSE
  <2>1. <<T \ {x}, T>> \in R
    BY <1>4 DEF StrictSubsetOrdering
  <2> QED BY <1>3, <1>4, <2>1
<1> QED BY <1>4

\* In a row of finitely many somebody comes last.
LEMMA SomebodyIsLast ==
  ASSUME NEW S, IsFiniteSet(S), S # {}, NEW R,
         \A x, y \in S : x # y => <<x, y>> \in R \/ <<y, x>> \in R,
         \A x, y, z \in S : <<x, y>> \in R /\ <<y, z>> \in R => <<x, z>> \in R
  PROVE  \E m \in S : \A x \in S \ {m} : <<x, m>> \in R
<1> DEFINE Has(T) == \E m \in T : \A x \in T \ {m} : <<x, m>> \in R
           B == {T \in SUBSET S : T # {} /\ ~Has(T)}
<1> SUFFICES B = {}
  OBVIOUS
<1> SUFFICES ASSUME B # {} PROVE FALSE
  OBVIOUS
<1>1. PICK T \in B : \A x \in T : T \ {x} \notin B
  <2>1. B \in SUBSET SUBSET S
    OBVIOUS
  <2> HIDE DEF B
  <2> QED BY <2>1, SmallestSet
<1>2. T \in SUBSET S /\ T # {} /\ ~Has(T)
  OBVIOUS
<1>3. PICK x \in T : TRUE
  BY <1>2
<1>4. CASE T \ {x} = {}
  BY <1>2, <1>3, <1>4
<1>5. CASE T \ {x} # {}
  <2>1. Has(T \ {x})
    BY <1>1, <1>2, <1>5
  <2>2. PICK m \in T \ {x} : \A y \in (T \ {x}) \ {m} : <<y, m>> \in R
    BY <2>1
  <2>3. CASE <<x, m>> \in R
    BY <2>2, <2>3, <1>2
  <2>4. CASE <<m, x>> \in R
    <3>1. \A y \in T \ {x} : <<y, x>> \in R
      BY <2>2, <2>4, <1>2
    <3> QED BY <3>1, <1>2
  <2> QED BY <2>3, <2>4, <2>2, <1>2
<1> QED BY <1>4, <1>5

\* Finitely many numbers have a greatest and a least.
LEMMA MaxIsGreatest ==
  ASSUME NEW S \in SUBSET Int, IsFiniteSet(S), S # {}
  PROVE  Max(S) \in S /\ \A x \in S : x <= Max(S)
<1> DEFINE R == {p \in Int \X Int : p[1] < p[2]}
<1>1. \A x, y \in Int : <<x, y>> \in R <=> x < y
  OBVIOUS
<1>2. \E m \in S : \A x \in S \ {m} : <<x, m>> \in R
  <2>1. \A x, y \in S : x # y => <<x, y>> \in R \/ <<y, x>> \in R
    BY <1>1
  <2>2. \A x, y, z \in S : <<x, y>> \in R /\ <<y, z>> \in R => <<x, z>> \in R
    BY <1>1
  <2> HIDE DEF R
  <2> QED BY <2>1, <2>2, SomebodyIsLast
<1> HIDE DEF R
<1>3. \E m \in S : \A x \in S : m >= x
  <2>1. PICK m \in S : \A x \in S \ {m} : <<x, m>> \in R
    BY <1>2
  <2>2. \A x \in S : x = m \/ x < m
    BY <1>1, <2>1
  <2> QED BY <2>2
<1>4. Max(S) \in S /\ \A x \in S : Max(S) >= x
  BY <1>3 DEF Max
<1> QED BY <1>4

LEMMA MinIsLeast ==
  ASSUME NEW S \in SUBSET Int, IsFiniteSet(S), S # {}
  PROVE  Min(S) \in S /\ \A x \in S : Min(S) <= x
<1> DEFINE R == {p \in Int \X Int : p[2] < p[1]}
<1>1. \A x, y \in Int : <<x, y>> \in R <=> y < x
  OBVIOUS
<1>2. \E m \in S : \A x \in S \ {m} : <<x, m>> \in R
  <2>1. \A x, y \in S : x # y => <<x, y>> \in R \/ <<y, x>> \in R
    BY <1>1
  <2>2. \A x, y, z \in S : <<x, y>> \in R /\ <<y, z>> \in R => <<x, z>> \in R
    BY <1>1
  <2> HIDE DEF R
  <2> QED BY <2>1, <2>2, SomebodyIsLast
<1> HIDE DEF R
<1>3. \E m \in S : \A x \in S : m <= x
  <2>1. PICK m \in S : \A x \in S \ {m} : <<x, m>> \in R
    BY <1>2
  <2>2. \A x \in S : x = m \/ m < x
    BY <1>1, <2>1
  <2> QED BY <2>2
<1> QED BY <1>3 DEF Min

LEMMA OfTwo ==
  \A x, y \in Int :
    /\ Max({x, y}) = IF x <= y THEN y ELSE x
    /\ Min({x, y}) = IF x <= y THEN x ELSE y
<1> TAKE x, y \in Int
<1>1. IsFiniteSet({x})
  BY FS_Singleton
<1>2. IsFiniteSet({x} \cup {y})
  BY <1>1, FS_AddElement
<1>3. {x} \cup {y} = {x, y}
  OBVIOUS
<1> DEFINE two == {x, y}
<1>4. two \in SUBSET Int /\ IsFiniteSet(two) /\ two # {}
  BY <1>2, <1>3
<1>5. /\ Max(two) \in two /\ \A z \in two : z <= Max(two)
      /\ Min(two) \in two /\ \A z \in two : Min(two) <= z
  <2> HIDE DEF two
  <2> QED BY <1>4, MaxIsGreatest, MinIsLeast
<1> QED BY <1>5

\* A visit works finitely many spans, and at least one.
LEMMA SpansAreNumbers ==
  ASSUME NEW v \in Visits
  PROVE  /\ IsFiniteSet(Blocks(v)) /\ Blocks(v) # {}
         /\ \A x \in Blocks(v) : x.start \in Int /\ x.end \in Int
         /\ occupiesStart(v) \in Int
         /\ \E x \in Blocks(v) : x.start = occupiesStart(v)
         /\ \A x \in Blocks(v) : occupiesStart(v) <= x.start
         /\ occupiesEnd(v) \in Int
         /\ \E x \in Blocks(v) : x.end = occupiesEnd(v)
         /\ \A x \in Blocks(v) : x.end <= occupiesEnd(v)
         /\ v.startAt < occupiesEnd(v)
<1>1. /\ v.startAt \in Int /\ IsFiniteSet(v.parts) /\ v.parts # {}
      /\ \A part \in v.parts : part[1] \in Int /\ part[2] \in Int
  BY DEF Visits, WorkedParts
<1>2. IsFiniteSet(Blocks(v)) /\ Blocks(v) # {}
  <2> DEFINE f == [part \in v.parts |-> [start |-> v.startAt + part[1], end |-> v.startAt + part[2]]]
  <2>1. f \in Surjection(v.parts, Blocks(v))
    BY DEF Surjection, Blocks
  <2>2. IsFiniteSet(Blocks(v))
    <3> HIDE DEF f
    <3> QED BY <1>1, <2>1, FS_Surjection
  <2> QED BY <2>2, <1>1 DEF Blocks
<1>3. \A x \in Blocks(v) : x.start \in Int /\ x.end \in Int
  BY <1>1 DEF Blocks
<1> DEFINE starts == {b.start : b \in Blocks(v)}
           ends == {b.end : b \in Blocks(v)}
<1>4. starts \in SUBSET Int /\ IsFiniteSet(starts) /\ starts # {}
  <2> DEFINE f == [b \in Blocks(v) |-> b.start]
  <2>1. f \in Surjection(Blocks(v), starts)
    BY DEF Surjection
  <2>2. IsFiniteSet(starts)
    <3> HIDE DEF f, starts
    <3> QED BY <1>2, <2>1, FS_Surjection
  <2> QED BY <2>2, <1>2, <1>3
<1>5. ends \in SUBSET Int /\ IsFiniteSet(ends) /\ ends # {}
  <2> DEFINE f == [b \in Blocks(v) |-> b.end]
  <2>1. f \in Surjection(Blocks(v), ends)
    BY DEF Surjection
  <2>2. IsFiniteSet(ends)
    <3> HIDE DEF f, ends
    <3> QED BY <1>2, <2>1, FS_Surjection
  <2> QED BY <2>2, <1>2, <1>3
<1>6. /\ Min(starts) \in starts /\ \A x \in starts : Min(starts) <= x
      /\ Max(ends) \in ends /\ \A x \in ends : x <= Max(ends)
  <2> HIDE DEF starts, ends
  <2> QED BY <1>4, <1>5, MaxIsGreatest, MinIsLeast
<1>7. /\ occupiesStart(v) \in starts /\ \A x \in starts : occupiesStart(v) <= x
      /\ occupiesEnd(v) \in ends /\ \A x \in ends : x <= occupiesEnd(v)
  BY <1>6 DEF occupiesStart, occupiesEnd
<1>8. v.startAt < occupiesEnd(v)
  <2>1. PICK part \in v.parts : part[2] > 0 /\ part[2] \in Int
    BY DEF Visits, WorkedParts
  <2> DEFINE x == [start |-> v.startAt + part[1], end |-> v.startAt + part[2]]
  <2>2. x \in Blocks(v) /\ x.end = v.startAt + part[2]
    BY DEF Blocks
  <2>3. x.end <= occupiesEnd(v) /\ occupiesEnd(v) \in Int
    BY <2>2, <1>5, <1>7
  <2> QED BY <1>1, <2>1, <2>2, <2>3
<1> QED BY <1>2, <1>3, <1>4, <1>5, <1>7, <1>8

LEMMA AfterBufferIsNumber ==
  ASSUME NEW v \in Visits
  PROVE  AfterBuffer(v) \in Int
<1>1. occupiesEnd(v) \in Int /\ v.endAt \in Int
  BY SpansAreNumbers DEF Visits
<1> DEFINE over == occupiesEnd(v) - v.endAt
<1>2. over \in Int
  BY <1>1
<1>3. Max({0, over}) \in {0, over}
  <2>1. 0 \in Int
    OBVIOUS
  <2> HIDE DEF over
  <2> QED BY <1>2, <2>1, OfTwo, Zenon
<1> QED BY <1>2, <1>3 DEF AfterBuffer

\* The visits of a column stand in one order.
LEMMA OneOrder ==
  ASSUME RunningLateConstants, ColumnIsTyped
  PROVE  /\ \A a, b \in Appt : a # b => Before(a, b) \/ Before(b, a)
         /\ \A a, b, c \in Appt : Before(a, b) /\ Before(b, c) => Before(a, c)
         /\ \A a \in Appt : ~Before(a, a)
         /\ \A a, b \in Appt : Before(a, b) => occupiesStart(queue[a]) <= occupiesStart(queue[b])
<1> DEFINE s(a) == occupiesStart(queue[a])
           t(a) == queue[a].startAt
<1>1. \A a \in Appt : s(a) \in Int /\ t(a) \in Int /\ a \in Nat
  BY SpansAreNumbers DEF ColumnIsTyped, RunningLateConstants, Visits
<1>2. \A a, b \in Appt : Before(a, b) <=> s(a) < s(b) \/ (s(a) = s(b) /\ (t(a) < t(b) \/ (t(a) = t(b) /\ a < b)))
  BY DEF Before, ReadBefore
<1> HIDE DEF s, t
<1>3. \A a, b \in Appt : a # b => Before(a, b) \/ Before(b, a)
  BY <1>1, <1>2
<1>4. \A a, b, c \in Appt : Before(a, b) /\ Before(b, c) => Before(a, c)
  BY <1>1, <1>2
<1>5. \A a \in Appt : ~Before(a, a)
  BY <1>1, <1>2
<1>6. \A a, b \in Appt : Before(a, b) => s(a) <= s(b)
  BY <1>1, <1>2
<1> QED BY <1>3, <1>4, <1>5, <1>6 DEF s

\* What can hold a client up is finitely many instants.
LEMMA BusyIsNumbers ==
  ASSUME RunningLateConstants, ColumnIsTyped, NEW a \in Appt, NEW f,
         \A c \in chain : Before(c, a) => f[c] \in Int
  PROVE  busyUntil(a, f) \in SUBSET Int /\ IsFiniteSet(busyUntil(a, f))
<1>1. IsFiniteSet(Appt) /\ \A b \in Appt : queue[b] \in Visits
  BY DEF RunningLateConstants, ColumnIsTyped
<1>2. freeFrom \in SUBSET Int /\ IsFiniteSet(freeFrom)
  <2> DEFINE g == [b \in checkout |-> queue[b].endedAt + AfterBuffer(queue[b])]
  <2>1. checkout \in SUBSET Appt
    BY DEF checkout
  <2>2. g \in Surjection(checkout, freeFrom)
    BY DEF Surjection, freeFrom
  <2>3. IsFiniteSet(checkout)
    BY <1>1, <2>1, FS_Subset
  <2>4. IsFiniteSet(freeFrom)
    <3> HIDE DEF g
    <3> QED BY <2>2, <2>3, FS_Surjection
  <2>5. \A b \in checkout : queue[b].endedAt + AfterBuffer(queue[b]) \in Int
    BY <1>1, <2>1, AfterBufferIsNumber DEF Visits
  <2> QED BY <2>4, <2>5 DEF freeFrom
<1> DEFINE start == occupiesStart(queue[a])
           earlier == {c \in chain : Before(c, a)}
           held(b) == {y \in Blocks(queue[b]) : WaitsFor(y, start)}
           ends(b) == {x.end + f[b] : x \in held(b)}
           all == {ends(b) : b \in earlier}
<1>3. earlier \in SUBSET Appt /\ IsFiniteSet(earlier)
  <2>1. earlier \in SUBSET Appt
    BY DEF chain
  <2> QED BY <1>1, <2>1, FS_Subset
<1>4. ASSUME NEW b \in earlier PROVE ends(b) \in SUBSET Int /\ IsFiniteSet(ends(b))
  <2>1. b \in chain /\ Before(b, a) /\ queue[b] \in Visits
    BY <1>1, <1>3
  <2>2. f[b] \in Int
    BY <2>1
  <2>3. IsFiniteSet(Blocks(queue[b])) /\ \A x \in Blocks(queue[b]) : x.end \in Int
    BY <2>1, SpansAreNumbers
  <2>4. IsFiniteSet(held(b))
    <3>1. held(b) \in SUBSET Blocks(queue[b])
      OBVIOUS
    <3> HIDE DEF held
    <3> QED BY <2>3, <3>1, FS_Subset
  <2> DEFINE g == [x \in held(b) |-> x.end + f[b]]
  <2>5. g \in Surjection(held(b), ends(b))
    BY DEF Surjection
  <2>6. IsFiniteSet(ends(b))
    <3> HIDE DEF g, held, ends
    <3> QED BY <2>4, <2>5, FS_Surjection
  <2>7. \A x \in held(b) : x.end + f[b] \in Int
    BY <2>2, <2>3
  <2> QED BY <2>6, <2>7
<1>5. IsFiniteSet(all)
  <2> DEFINE g == [b \in earlier |-> ends(b)]
  <2>1. g \in Surjection(earlier, all)
    <3> HIDE DEF ends, earlier
    <3> QED BY DEF Surjection
  <2> HIDE DEF g, all, earlier
  <2> QED BY <1>3, <2>1, FS_Surjection
<1>6. \A T \in all : IsFiniteSet(T) /\ T \in SUBSET Int
  <2> HIDE DEF ends, earlier
  <2> QED BY <1>4
<1>7. IsFiniteSet(UNION all) /\ UNION all \in SUBSET Int
  <2> HIDE DEF all
  <2> QED BY <1>5, <1>6, FS_UNION
<1>8. busyUntil(a, f) = freeFrom \cup UNION all
  BY DEF busyUntil
<1> HIDE DEF all
<1> QED BY <1>2, <1>7, <1>8, FS_Union

\* A delay is cut to the claim, and never less than nothing.
Capped(most, waits) == IF waits >= most THEN most ELSE IF waits <= 0 THEN 0 ELSE waits

LEMMA DelayIsCapped ==
  ASSUME RunningLateConstants, ColumnIsTyped, NEW a \in Appt, NEW f,
         \A c \in chain : Before(c, a) => f[c] \in Int
  PROVE  /\ busyUntil(a, f) \in SUBSET Int
         /\ a \in head => delayOf(a, f) = late.minutes + late.pushedOff
         /\ a \notin head /\ busyUntil(a, f) = {} => delayOf(a, f) = late.minutes
         /\ a \notin head /\ busyUntil(a, f) # {} =>
              \E w \in busyUntil(a, f) :
                /\ \A x \in busyUntil(a, f) : x <= w
                /\ delayOf(a, f) = Capped(late.minutes, w - occupiesStart(queue[a]))
<1> DEFINE busy == busyUntil(a, f)
           waits == Max(busy) - occupiesStart(queue[a])
<1>1. late.minutes \in Nat /\ late.pushedOff \in Nat
  BY DEF ColumnIsTyped
<1>2. occupiesStart(queue[a]) \in Int
  BY SpansAreNumbers DEF ColumnIsTyped
<1>3. busy \in SUBSET Int /\ IsFiniteSet(busy)
  BY BusyIsNumbers
<1>4. a \in head => delayOf(a, f) = late.minutes + late.pushedOff
  BY DEF delayOf
<1>5. a \notin head /\ busy = {} => delayOf(a, f) = late.minutes
  BY DEF delayOf
<1>6. ASSUME a \notin head, busy # {}
      PROVE  \E w \in busy : /\ \A x \in busy : x <= w
                              /\ delayOf(a, f) = Capped(late.minutes, w - occupiesStart(queue[a]))
  <2>1. Max(busy) \in busy /\ Max(busy) \in Int /\ \A x \in busy : x <= Max(busy)
    <3> HIDE DEF busy
    <3> QED BY <1>3, <1>6, MaxIsGreatest
  <2>2. waits \in Int
    BY <2>1, <1>2
  <2>3. delayOf(a, f) = Min({late.minutes, Max({0, waits})})
    BY <1>6 DEF delayOf
  <2> HIDE DEF waits
  <2>4. Max({0, waits}) = IF waits <= 0 THEN 0 ELSE waits
    BY <2>2, OfTwo
  <2> DEFINE most == Max({0, waits})
  <2>5. most \in Nat
    BY <2>2, <2>4
  <2> HIDE DEF most
  <2>6. Min({late.minutes, most}) = IF most >= late.minutes THEN late.minutes ELSE most
    <3>1. Min({late.minutes, most}) = IF late.minutes <= most THEN late.minutes ELSE most
      <4>1. late.minutes \in Int /\ most \in Int
        BY <1>1, <2>5
      <4> QED BY <4>1, OfTwo, Zenon
    <3> QED BY <3>1, <1>1, <2>5
  <2>7. delayOf(a, f) = Capped(late.minutes, waits)
    <3>1. delayOf(a, f) = IF most >= late.minutes THEN late.minutes ELSE most
      BY <2>3, <2>6 DEF most
    <3>2. most = IF waits <= 0 THEN 0 ELSE waits
      BY <2>4 DEF most
    <3> QED BY <3>1, <3>2, <2>2, <1>1 DEF Capped
  <2> HIDE DEF busy
  <2> QED BY <2>1, <2>7 DEF waits
<1> QED BY <1>3, <1>4, <1>5, <1>6

\* A delay is a number, and follows from those of the clients before.
LEMMA DelayIsNumber ==
  ASSUME RunningLateConstants, ColumnIsTyped, NEW a \in Appt, NEW f,
         \A c \in chain : Before(c, a) => f[c] \in Int
  PROVE  delayOf(a, f) \in Int
<1>1. late.minutes \in Nat /\ late.pushedOff \in Nat
  BY DEF ColumnIsTyped
<1>2. occupiesStart(queue[a]) \in Int
  BY SpansAreNumbers DEF ColumnIsTyped
<1> QED BY <1>1, <1>2, DelayIsCapped DEF Capped

LEMMA DelayFollows ==
  ASSUME NEW a, NEW f, NEW g, \A c \in chain : Before(c, a) => f[c] = g[c]
  PROVE  delayOf(a, f) = delayOf(a, g)
<1>1. busyUntil(a, f) = busyUntil(a, g)
  BY DEF busyUntil
<1> QED BY <1>1 DEF delayOf

\* Each client's delay exists: the cascade ends.
LEMMA DelaysExist ==
  ASSUME RunningLateConstants, ColumnIsTyped
  PROVE  \E f \in [chain -> Int] : f = [a \in chain |-> delayOf(a, f)]
<1> DEFINE Closed(D) == \A a \in D, c \in chain : Before(c, a) => c \in D
           Solves(D, f) == f \in [D -> Int] /\ \A a \in D : f[a] = delayOf(a, f)
           B == {D \in SUBSET chain : Closed(D) /\ ~\E f : Solves(D, f)}
<1>1. IsFiniteSet(chain) /\ chain \in SUBSET Appt
  <2>1. chain \in SUBSET Appt
    BY DEF chain
  <2> QED BY <2>1, FS_Subset DEF RunningLateConstants
<1>2. B = {}
  <2> SUFFICES ASSUME B # {} PROVE FALSE
    OBVIOUS
  <2>1. PICK D \in B : \A x \in D : D \ {x} \notin B
    <3>1. B \in SUBSET SUBSET chain
      OBVIOUS
    <3> HIDE DEF B
    <3> QED BY <1>1, <3>1, SmallestSet
  <2>2. D \in SUBSET chain /\ Closed(D) /\ ~\E f : Solves(D, f)
    OBVIOUS
  <2>3. CASE D = {}
    <3>1. Solves(D, [a \in {} |-> 0])
      BY <2>3
    <3> HIDE DEF Solves
    <3> QED BY <2>2, <3>1
  <2>4. CASE D # {}
    <3> DEFINE R == {p \in Appt \X Appt : Before(p[1], p[2])}
    <3>1. \A x, y \in Appt : <<x, y>> \in R <=> Before(x, y)
      OBVIOUS
    <3>2. IsFiniteSet(D) /\ D \in SUBSET Appt
      BY <1>1, <2>2, FS_Subset
    <3>3. /\ \A x, y \in D : x # y => <<x, y>> \in R \/ <<y, x>> \in R
          /\ \A x, y, z \in D : <<x, y>> \in R /\ <<y, z>> \in R => <<x, z>> \in R
      <4> HIDE DEF R
      <4> QED BY <3>1, <3>2, OneOrder
    <3>4. PICK m \in D : \A x \in D \ {m} : <<x, m>> \in R
      <4> HIDE DEF R
      <4> QED BY <2>4, <3>2, <3>3, SomebodyIsLast
    <3>5. \A x \in D : ~Before(m, x)
      <4> SUFFICES ASSUME NEW x \in D, Before(m, x) PROVE FALSE
        OBVIOUS
      <4>1. x # m
        BY <3>2, OneOrder
      <4>2. Before(x, m)
        BY <3>1, <3>2, <3>4, <4>1
      <4>3. Before(m, m)
        BY <3>2, <4>2, OneOrder
      <4> QED BY <3>2, <4>3, OneOrder
    <3> HIDE DEF R
    <3> DEFINE E == D \ {m}
    <3>6. E \in SUBSET chain /\ Closed(E)
      <4>1. ASSUME NEW a \in E, NEW c \in chain, Before(c, a) PROVE c \in E
        <5>1. c \in D
          BY <2>2, <4>1
        <5> QED BY <3>5, <4>1, <5>1
      <4> QED BY <2>2, <4>1
    <3>7. \E f : Solves(E, f)
      BY <2>1, <3>6
    <3>8. PICK f : f \in [E -> Int] /\ \A a \in E : f[a] = delayOf(a, f)
      BY <3>7
    <3> DEFINE g == [a \in D |-> IF a = m THEN delayOf(m, f) ELSE f[a]]
    <3>9. ASSUME NEW a \in D PROVE \A c \in chain : Before(c, a) => c \in E /\ f[c] = g[c]
      <4> SUFFICES ASSUME NEW c \in chain, Before(c, a) PROVE c \in E /\ f[c] = g[c]
        OBVIOUS
      <4>1. c \in D
        BY <2>2
      <4>2. c # m
        BY <3>5
      <4> QED BY <4>1, <4>2
    <3>10. ASSUME NEW a \in D PROVE delayOf(a, f) = delayOf(a, g)
      <4> HIDE DEF g
      <4> QED BY <3>9, DelayFollows
    <3>11. delayOf(m, f) \in Int
      <4>1. \A c \in chain : Before(c, m) => f[c] \in Int
        BY <3>8, <3>9
      <4> QED BY <3>2, <4>1, DelayIsNumber
    <3>12. ASSUME NEW a \in D PROVE g[a] = delayOf(a, f)
      BY <3>8
    <3>13. g \in [D -> Int]
      BY <3>8, <3>11
    <3> HIDE DEF g
    <3>14. Solves(D, g)
      BY <3>10, <3>12, <3>13
    <3> HIDE DEF Solves
    <3> QED BY <2>2, <3>14
  <2> QED BY <2>3, <2>4
<1>3. Closed(chain)
  OBVIOUS
<1>4. PICK f : Solves(chain, f)
  <2> HIDE DEF Solves, Closed
  <2> QED BY <1>2, <1>3
<1>5. f = [a \in chain |-> delayOf(a, f)]
  BY <1>4
<1> QED BY <1>4, <1>5

\* What the column shows is that cascade.
LEMMA TheDelaysCascade ==
  ASSUME RunningLateConstants, ColumnIsTyped, late.minutes # 0
  PROVE  /\ DOMAIN projectedDelays = chain
         /\ \A a \in chain : projectedDelays[a] \in Int /\ projectedDelays[a] = delayOf(a, projectedDelays)
<1> DEFINE delay == CHOOSE f : f = [a \in chain |-> delayOf(a, f)]
<1>1. projectedDelays = delay
  BY DEF projectedDelays
<1>2. delay = [a \in chain |-> delayOf(a, delay)]
  <2> DEFINE Cascade(f) == [a \in chain |-> delayOf(a, f)]
  <2>1. \E f : f = Cascade(f)
    BY DelaysExist
  <2>2. delay = CHOOSE f : f = Cascade(f)
    OBVIOUS
  <2>3. delay = Cascade(delay)
    <3> HIDE DEF Cascade, delay
    <3> QED BY <2>1, <2>2
  <2> QED BY <2>3
<1> HIDE DEF delay
<1>3. \A a \in chain : delay[a] = delayOf(a, delay)
  BY <1>2
<1>4. chain \in SUBSET Appt /\ IsFiniteSet(chain)
  <2>1. chain \in SUBSET Appt
    BY DEF chain
  <2> QED BY <2>1, FS_Subset DEF RunningLateConstants
<1> DEFINE Bad == {a \in chain : delay[a] \notin Int}
<1>5. Bad = {}
  <2> SUFFICES ASSUME Bad # {} PROVE FALSE
    OBVIOUS
  <2> DEFINE R == {p \in Appt \X Appt : Before(p[2], p[1])}
  <2>1. \A x, y \in Appt : <<x, y>> \in R <=> Before(y, x)
    OBVIOUS
  <2>2. IsFiniteSet(Bad) /\ Bad \in SUBSET Appt
    <3>1. Bad \in SUBSET chain
      OBVIOUS
    <3> HIDE DEF Bad
    <3> QED BY <1>4, <3>1, FS_Subset
  <2>3. /\ \A x, y \in Bad : x # y => <<x, y>> \in R \/ <<y, x>> \in R
        /\ \A x, y, z \in Bad : <<x, y>> \in R /\ <<y, z>> \in R => <<x, z>> \in R
    <3> HIDE DEF R, Bad
    <3> QED BY <2>1, <2>2, OneOrder
  <2>4. PICK m \in Bad : \A x \in Bad \ {m} : <<x, m>> \in R
    <3> HIDE DEF R, Bad
    <3> QED BY <2>2, <2>3, SomebodyIsLast
  <2>5. ASSUME NEW c \in chain, Before(c, m) PROVE delay[c] \in Int
    <3> SUFFICES ASSUME c \in Bad PROVE FALSE
      OBVIOUS
    <3>1. m \in Appt /\ c \in Appt /\ ~Before(m, m)
      BY <2>2, OneOrder
    <3>2. c # m
      BY <2>5, <3>1
    <3>3. Before(m, c)
      BY <2>1, <2>4, <3>1, <3>2
    <3>4. Before(m, m)
      <4> HIDE DEF Bad, R
      <4> QED BY <2>5, <3>1, <3>3, OneOrder
    <3> QED BY <3>1, <3>4
  <2>6. delayOf(m, delay) \in Int
    <3>1. m \in Appt
      BY <2>2
    <3> HIDE DEF Bad, R
    <3> QED BY <2>5, <3>1, DelayIsNumber
  <2>7. m \in chain /\ delay[m] \notin Int
    OBVIOUS
  <2> QED BY <1>3, <2>6, <2>7
<1>6. DOMAIN delay = chain
  BY <1>2
<1> QED BY <1>1, <1>3, <1>5, <1>6

\* Who is late waits for somebody who is there.
LEMMA LateForAReason ==
  ASSUME RunningLateConstants, ColumnIsTyped
  PROVE  NobodyWaitsForAnEmptyChair
<1> SUFFICES ASSUME NEW a \in Appt, lateness[a] > 0, a \notin head,
                    ~(checkout = {} /\ \A b \in chain \ {a} : Before(a, b))
             PROVE  LET begins == occupiesStart(queue[a]) + lateness[a] IN
                    \E b \in Appt \ {a} :
                      \/ /\ isPushable(b)
                         /\ \E x \in Blocks(queue[b]) :
                              x.start <= occupiesStart(queue[a]) /\ x.end + lateness[b] >= begins
                      \/ queue[b].status = "completed" /\ queue[b].endedAt + AfterBuffer(queue[b]) >= begins
  BY DEF NobodyWaitsForAnEmptyChair
<1> DEFINE d == projectedDelays
           busy == busyUntil(a, d)
           start == occupiesStart(queue[a])
<1>1. a \in DOMAIN d /\ lateness[a] = d[a]
  BY DEF lateness
<1>2. late.minutes # 0
  BY <1>1 DEF projectedDelays
<1>3. /\ DOMAIN d = chain
      /\ \A b \in chain : d[b] \in Int /\ d[b] = delayOf(b, d)
  BY <1>2, TheDelaysCascade
<1>4. \A b \in chain : b \in Appt /\ lateness[b] = d[b]
  BY <1>3 DEF lateness, chain
<1>5. a \in chain /\ \A b \in chain : isPushable(b)
  BY <1>1, <1>3 DEF chain, inChain, inChair, isPushable
<1>6. delayOf(a, d) > 0 /\ delayOf(a, d) = lateness[a]
  BY <1>1, <1>3, <1>5
<1> HIDE DEF d
<1>7. ASSUME busy = {} PROVE FALSE
  <2>1. checkout = {}
    BY <1>7 DEF busyUntil, freeFrom
  <2>2. PICK b \in chain \ {a} : ~Before(a, b)
    BY <2>1
  <2>3. Before(b, a) /\ occupiesStart(queue[b]) <= start
    BY <2>2, <1>4, OneOrder
  <2>4. queue[b] \in Visits
    BY <2>2, <1>4 DEF ColumnIsTyped
  <2>5. PICK x \in Blocks(queue[b]) : x.start = occupiesStart(queue[b])
    BY <2>4, SpansAreNumbers
  <2>6. x.end + d[b] \in busy
    BY <2>2, <2>3, <2>5 DEF busyUntil, WaitsFor
  <2> QED BY <1>7, <2>6
<1>8. PICK w \in busy : w >= start + lateness[a]
  <2>1. \A c \in chain : Before(c, a) => d[c] \in Int
    BY <1>3
  <2>2. PICK w \in busy : delayOf(a, d) = Capped(late.minutes, w - start)
    BY <1>7, <2>1, DelayIsCapped
  <2>3. w \in Int /\ start \in Int /\ late.minutes \in Nat
    BY <2>1, DelayIsCapped, SpansAreNumbers DEF ColumnIsTyped
  <2> QED BY <1>6, <2>2, <2>3 DEF Capped
<1>9. CASE w \in freeFrom
  <2>1. PICK b \in checkout : w = queue[b].endedAt + AfterBuffer(queue[b])
    BY <1>9 DEF freeFrom
  <2>2. b \in Appt /\ queue[b].status = "completed"
    BY DEF checkout
  <2>3. b # a
    BY <1>5, <2>2 DEF isPushable
  <2> QED BY <1>8, <2>1, <2>2, <2>3
<1>10. CASE w \notin freeFrom
  <2>1. PICK b \in {c \in chain : Before(c, a)} :
             \E x \in {y \in Blocks(queue[b]) : WaitsFor(y, start)} : w = x.end + d[b]
    BY <1>8, <1>10 DEF busyUntil
  <2>2. PICK x \in Blocks(queue[b]) : x.start <= start /\ w = x.end + d[b]
    BY <2>1 DEF WaitsFor
  <2>3. b \in Appt /\ isPushable(b) /\ lateness[b] = d[b]
    BY <2>1, <1>4, <1>5
  <2>4. b # a
    BY <2>1, OneOrder
  <2> QED BY <1>8, <2>2, <2>3, <2>4
<1> QED BY <1>9, <1>10

\* Every tap leaves the column a column.
LEMMA ColumnStaysTyped ==
  ASSUME RunningLateConstants, ColumnIsTyped, [LateNext]_lateVars
  PROVE  ColumnIsTyped'
<1>1. CASE HourPasses
  BY <1>1 DEF HourPasses, ColumnIsTyped
<1>2. ASSUME NEW a \in Appt, NEW to \in {"checked_in", "in_progress", "completed", "no_show", "cancelled"},
             MoveOn(a, to)
      PROVE  ColumnIsTyped'
  <2> DEFINE ended == IF to = "completed" THEN hour ELSE queue[a].endedAt
             new == [status |-> to, startAt |-> queue[a].startAt, endAt |-> queue[a].endAt,
                     parts |-> queue[a].parts, endedAt |-> ended]
  <2>1. /\ hour' = hour /\ late' = late
        /\ queue' = [queue EXCEPT ![a].status = to, ![a].endedAt = ended]
    BY <1>2 DEF MoveOn, ColumnIsTyped
  <2>2. queue[a] \in Visits /\ hour \in Int /\ queue \in [Appt -> Visits]
    BY DEF ColumnIsTyped
  <2>3. ended \in Int
    BY <2>2 DEF Visits
  <2> HIDE DEF ended
  <2>4. queue'[a] = new
    BY <2>1, <2>2 DEF Visits
  <2>5. new \in Visits
    BY <2>2, <2>3 DEF Visits, Status
  <2>6. DOMAIN queue' = Appt /\ \A b \in Appt \ {a} : queue'[b] = queue[b]
    BY <2>1, <2>2
  <2>7. queue' = [b \in Appt |-> queue'[b]]
    BY <2>1, <2>2
  <2> HIDE DEF new
  <2>8. queue' \in [Appt -> Visits]
    BY <2>2, <2>4, <2>5, <2>6, <2>7
  <2> QED BY <2>1, <2>8 DEF ColumnIsTyped
<1>3. ASSUME NEW minutes \in Claims \cup {0}, setRunningLate(minutes) PROVE ColumnIsTyped'
  <2>1. minutes \in Nat /\ hour \in Int /\ late \in [minutes : Nat, claimedAt : Int, pushedOff : Nat]
    BY DEF RunningLateConstants, ColumnIsTyped
  <2>2. late' \in [minutes : Nat, claimedAt : Int, pushedOff : Nat]
    <3>1. CASE minutes = 0
      <4>1. late' = NoClaim
        BY <1>3, <3>1 DEF setRunningLate
      <4> QED BY <4>1 DEF NoClaim
    <3>2. CASE minutes # 0
      <4>1. late' = [late EXCEPT !.minutes = minutes, !.claimedAt = hour]
        BY <1>3, <3>2 DEF setRunningLate
      <4> QED BY <2>1, <4>1
    <3> QED BY <3>1, <3>2
  <2> QED BY <1>3, <2>2 DEF setRunningLate, ColumnIsTyped
<1>4. ASSUME NEW from, NEW m \in Shift, pushColumn(from, m) PROVE ColumnIsTyped'
  <2>1. m \in Nat /\ late \in [minutes : Nat, claimedAt : Int, pushedOff : Nat]
    BY DEF RunningLateConstants, ColumnIsTyped
  <2>2. hour' = hour /\ late' = workedOff(m)
    BY <1>4 DEF pushColumn
  <2>3. workedOff(m) \in [minutes : Nat, claimedAt : Int, pushedOff : Nat]
    <3>1. CASE m >= late.minutes
      BY <3>1 DEF workedOff, NoClaim
    <3>2. CASE ~(m >= late.minutes)
      <4>1. late.minutes - m \in Nat /\ late.pushedOff + m \in Nat
        BY <2>1, <3>2
      <4>2. workedOff(m) = [late EXCEPT !.minutes = late.minutes - m, !.pushedOff = late.pushedOff + m]
        BY <3>2, <2>1 DEF workedOff
      <4> QED BY <2>1, <4>1, <4>2
    <3> QED BY <3>1, <3>2
  <2>4. ASSUME NEW a \in Appt PROVE [queue[a] EXCEPT !.startAt = @ + m, !.endAt = @ + m] \in Visits
    <3> DEFINE v == queue[a]
    <3>1. v \in Visits
      BY DEF ColumnIsTyped
    <3> HIDE DEF v
    <3>2. v.startAt + m \in Int /\ v.endAt + m \in Int
      BY <2>1, <3>1 DEF Visits
    <3>3. [v EXCEPT !.startAt = v.startAt + m, !.endAt = v.endAt + m] \in Visits
      BY <3>1, <3>2 DEF Visits
    <3>4. [v EXCEPT !.startAt = @ + m, !.endAt = @ + m]
            = [v EXCEPT !.startAt = v.startAt + m, !.endAt = v.endAt + m]
      BY <3>1 DEF Visits
    <3> QED BY <3>3, <3>4 DEF v
  <2>5. queue' \in [Appt -> Visits]
    BY <1>4, <2>4 DEF pushColumn, ColumnIsTyped
  <2> QED BY <2>2, <2>3, <2>5 DEF ColumnIsTyped
<1>5. CASE UNCHANGED lateVars
  BY <1>5 DEF lateVars, ColumnIsTyped
<1> QED BY <1>1, <1>2, <1>3, <1>4, <1>5 DEF LateNext

\* Nobody was checked out later than now.
ColumnInv == ColumnIsTyped /\ \A a \in Appt : queue[a].status = "completed" => queue[a].endedAt <= hour

LEMMA ColumnStays ==
  ASSUME RunningLateConstants, ColumnInv, [LateNext]_lateVars
  PROVE  ColumnInv'
<1>1. ColumnIsTyped /\ ColumnIsTyped'
  BY ColumnStaysTyped DEF ColumnInv
<1>2. hour \in Int /\ queue \in [Appt -> Visits]
  BY <1>1 DEF ColumnIsTyped
<1> SUFFICES ASSUME NEW a \in Appt, queue'[a].status = "completed" PROVE queue'[a].endedAt <= hour'
  BY <1>1 DEF ColumnInv
<1>3. queue[a] \in Visits /\ (queue[a].status = "completed" => queue[a].endedAt <= hour)
  BY <1>2 DEF ColumnInv
<1>4. CASE HourPasses
  BY <1>2, <1>3, <1>4 DEF HourPasses, Visits
<1>5. ASSUME NEW b \in Appt, NEW to, MoveOn(b, to) PROVE queue'[a].endedAt <= hour'
  <2>1. /\ hour' = hour
        /\ queue' = [queue EXCEPT ![b].status = to, ![b].endedAt = IF to = "completed" THEN hour ELSE @]
    BY <1>5 DEF MoveOn
  <2>2. CASE a # b
    BY <1>2, <1>3, <2>1, <2>2
  <2>3. CASE a = b /\ to = "completed"
    BY <1>2, <1>3, <2>1, <2>3 DEF Visits
  <2>4. CASE a = b /\ to # "completed"
    BY <1>2, <1>3, <2>1, <2>4 DEF Visits
  <2> QED BY <2>2, <2>3, <2>4
<1>6. ASSUME NEW minutes, setRunningLate(minutes) PROVE queue'[a].endedAt <= hour'
  BY <1>3, <1>6 DEF setRunningLate
<1>7. ASSUME NEW from, NEW m, pushColumn(from, m) PROVE queue'[a].endedAt <= hour'
  BY <1>2, <1>3, <1>7 DEF pushColumn, pushed, isPushable, Visits
<1>8. CASE UNCHANGED lateVars
  BY <1>3, <1>8 DEF lateVars
<1> QED BY <1>4, <1>5, <1>6, <1>7, <1>8 DEF LateNext

\* What holds of the lateness shown, claim or no claim.
InOneOrder ==
  /\ \A a, b \in Appt : a # b => Before(a, b) \/ Before(b, a)
  /\ \A a, b, c \in Appt : Before(a, b) /\ Before(b, c) => Before(a, c)
  /\ \A a \in Appt : ~Before(a, a)
  /\ \A a, b \in Appt : Before(a, b) => occupiesStart(queue[a]) <= occupiesStart(queue[b])
HeldUp(a) ==
  LET busy == busyUntil(a, lateness)  start == occupiesStart(queue[a]) IN
  /\ busy \in SUBSET Int
  /\ a \in head => lateness[a] = late.minutes + late.pushedOff
  /\ a \notin head /\ busy = {} => lateness[a] = late.minutes
  /\ a \notin head /\ busy # {} =>
       \E w \in busy : (\A x \in busy : x <= w) /\ lateness[a] = Capped(late.minutes, w - start)
LatenessIs ==
  /\ lateness = [a \in Appt |-> lateness[a]]
  /\ \A a \in Appt : lateness[a] \in Int /\ lateness[a] >= 0
  /\ \A a \in Appt : late.minutes = 0 \/ a \notin chain => lateness[a] = 0
  /\ late.minutes # 0 => \A a \in chain : HeldUp(a)
ColumnFacts == ColumnInv /\ InOneOrder /\ LatenessIs

LEMMA ColumnFactsHold == RunningLateConstants /\ ColumnInv => ColumnFacts
<1> SUFFICES ASSUME RunningLateConstants, ColumnInv PROVE InOneOrder /\ LatenessIs
  BY DEF ColumnFacts
<1>1. ColumnIsTyped /\ InOneOrder
  BY OneOrder DEF ColumnInv, InOneOrder
<1>2. lateness = [a \in Appt |-> lateness[a]]
  BY DEF lateness
<1>3. CASE late.minutes = 0
  <2>1. \A a \in Appt : lateness[a] = 0
    BY <1>3 DEF lateness, projectedDelays
  <2> QED BY <1>1, <1>2, <1>3, <2>1 DEF LatenessIs
<1>4. CASE late.minutes # 0
  <2> DEFINE d == projectedDelays
  <2>1. DOMAIN d = chain /\ \A a \in chain : d[a] \in Int /\ d[a] = delayOf(a, d)
    BY <1>1, <1>4, TheDelaysCascade
  <2>2. \A a \in Appt : lateness[a] = IF a \in chain THEN d[a] ELSE 0
    BY <2>1 DEF lateness
  <2> HIDE DEF d
  <2>3. chain \in SUBSET Appt
    BY DEF chain
  <2>4. \A a \in chain : lateness[a] = d[a]
    BY <2>2, <2>3
  <2>5. ASSUME NEW a \in chain PROVE HeldUp(a) /\ lateness[a] >= 0
    <3>1. lateness[a] = delayOf(a, lateness)
      <4>1. delayOf(a, d) = delayOf(a, lateness)
        BY <2>4, DelayFollows
      <4> QED BY <2>1, <2>4, <4>1
    <3>2. a \in Appt /\ \A c \in chain : Before(c, a) => lateness[c] \in Int
      BY <2>1, <2>3, <2>4
    <3>3. HeldUp(a)
      BY <1>1, <3>1, <3>2, DelayIsCapped DEF HeldUp
    <3>4. late.minutes \in Nat /\ late.pushedOff \in Nat /\ occupiesStart(queue[a]) \in Int
      BY <1>1, <3>2, SpansAreNumbers DEF ColumnIsTyped
    <3>5. lateness[a] >= 0
      BY <3>3, <3>4 DEF HeldUp, Capped
    <3> QED BY <3>3, <3>5
  <2>6. \A a \in Appt : lateness[a] \in Int /\ lateness[a] >= 0
    BY <2>1, <2>2, <2>5
  <2> QED BY <1>1, <1>2, <1>4, <2>2, <2>5, <2>6 DEF LatenessIs
<1> QED BY <1>3, <1>4

\* Of some visits of the column one comes first.
LEMMA SomebodyIsFirst ==
  ASSUME RunningLateConstants, InOneOrder, NEW T \in SUBSET Appt, T # {}
  PROVE  \E m \in T : \A x \in T : ~Before(x, m)
<1> DEFINE R == {p \in Appt \X Appt : Before(p[2], p[1])}
<1>1. \A x, y \in Appt : <<x, y>> \in R <=> Before(y, x)
  OBVIOUS
<1> HIDE DEF R
<1>2. /\ \A x, y \in T : x # y => <<x, y>> \in R \/ <<y, x>> \in R
      /\ \A x, y, z \in T : <<x, y>> \in R /\ <<y, z>> \in R => <<x, z>> \in R
  BY <1>1 DEF InOneOrder
<1>3. IsFiniteSet(T)
  BY FS_Subset DEF RunningLateConstants
<1>4. PICK m \in T : \A x \in T \ {m} : <<x, m>> \in R
  BY <1>2, <1>3, SomebodyIsLast
<1>5. \A x \in T \ {m} : Before(m, x)
  BY <1>1, <1>4
<1>6. ASSUME NEW x \in T, Before(x, m) PROVE FALSE
  <2>1. x # m /\ Before(m, x)
    BY <1>5, <1>6 DEF InOneOrder
  <2> QED BY <1>6, <2>1 DEF InOneOrder
<1> QED BY <1>6

\* A longer wait is no shorter delay.
LEMMA CappedGrows ==
  ASSUME NEW most \in Nat, NEW x \in Int, NEW y \in Int, x <= y
  PROVE  Capped(most, x) <= Capped(most, y) /\ Capped(most, x) \in Nat /\ Capped(most, x) <= most
BY DEF Capped

LEMMA TimeDelaysNobody ==
  ASSUME RunningLateConstants, ColumnFacts, ColumnFacts', [LateNext]_lateVars, hour' # hour, Seated,
         NEW a \in Appt, inChain(a)'
  PROVE  lateness'[a] <= lateness[a]
<1>1. /\ hour' = hour + 1 /\ queue' = queue /\ late' = late
      /\ hour \in Int /\ queue \in [Appt -> Visits]
      /\ late.minutes \in Nat /\ late.pushedOff \in Nat
  <2>1. HourPasses
    BY DEF LateNext, MoveOn, setRunningLate, pushColumn, lateVars
  <2> QED BY <2>1 DEF HourPasses, ColumnFacts, ColumnInv, ColumnIsTyped
<1>2. PICK h \in head : queue[h].status = "in_progress" /\ \A b \in chain \ {h} : Before(h, b)
  BY DEF Seated
<1>3. checkout' = checkout
  <2>1. \A b \in Appt : queue[b].status = "completed" => queue[b].endedAt <= hour /\ queue[b].endedAt <= hour + 1
    BY <1>1 DEF ColumnFacts, ColumnInv, Visits
  <2> QED BY <1>1, <2>1 DEF checkout, ReadBefore
<1>4. h \in Appt /\ checkout = {}
  BY <1>2 DEF head
<1>5. head' = head
  <2>1. \A b \in Appt : queue[b].status = "in_progress" => inChair(b) /\ inChair(b)'
    BY <1>1 DEF inChair
  <2>2. {b \in {c \in Appt : inChair(c)} : queue[b].status = "in_progress"}
          = {b \in Appt : queue[b].status = "in_progress"}
    BY <2>1
  <2>3. {b \in {c \in Appt : inChair(c)'} : queue[b].status = "in_progress"}
          = {b \in Appt : queue[b].status = "in_progress"}
    BY <2>1
  <2>4. h \in {b \in Appt : queue[b].status = "in_progress"}
    BY <1>2, <1>4
  <2> DEFINE first == {b \in Appt : queue[b].status = "in_progress"}
             lastSat == {b \in first : \A c \in first :
                          \/ queue[c].startAt < queue[b].startAt
                          \/ queue[c].startAt = queue[b].startAt /\ b <= c}
  <2>5. first # {}
    BY <2>4
  <2>6. head = lastSat
    BY <1>4, <2>2, <2>5 DEF head
  <2>7. head' = lastSat
    BY <1>1, <1>3, <1>4, <2>3, <2>5 DEF head
  <2> QED BY <2>6, <2>7
<1>6. chain' \in SUBSET chain /\ h \in chain'
  <2>1. ASSUME NEW b \in Appt, inChain(b)' PROVE inChain(b)
    <3>1. queue[b] \in Visits /\ queue[b].startAt \in Int
      BY <1>1 DEF Visits
    <3>2. occupiesEnd(queue[b]) \in Int /\ queue[b].startAt < occupiesEnd(queue[b])
      BY <3>1, SpansAreNumbers
    <3> QED BY <1>1, <2>1, <3>1, <3>2 DEF inChain, inChair, isPushable
  <2>2. inChain(h)'
    BY <1>1, <1>2 DEF inChain, inChair
  <2> QED BY <1>4, <2>1, <2>2 DEF chain
<1>7. /\ \A b, c \in Appt : Before(b, c)' <=> Before(b, c)
      /\ freeFrom = {} /\ freeFrom' = {}
  BY <1>1, <1>3, <1>4 DEF Before, ReadBefore, freeFrom
<1>8. chain \in SUBSET Appt
  BY DEF chain
<1> DEFINE was == lateness
           is == lateness'
           Bad == {b \in chain' : is[b] > was[b]}
<1>9. \A b \in Appt : was[b] \in Int /\ is[b] \in Int
  BY DEF ColumnFacts, LatenessIs
<1>10. CASE late.minutes = 0
  BY <1>1, <1>10 DEF ColumnFacts, LatenessIs
<1>11. CASE late.minutes # 0
  <2> SUFFICES ASSUME Bad # {} PROVE FALSE
    BY <1>9 DEF chain
  <2>1. PICK m \in Bad : \A x \in Bad : ~Before(x, m)
    <3>1. Bad \in SUBSET Appt /\ InOneOrder
      BY <1>6, <1>8 DEF ColumnFacts
    <3> HIDE DEF Bad
    <3> QED BY <3>1, SomebodyIsFirst
  <2>2. m \in chain' /\ m \in chain /\ m \in Appt /\ is[m] > was[m]
    BY <1>6, <1>8
  <2>3. \A b \in chain' : Before(b, m) => is[b] <= was[b]
    BY <2>1, <1>6, <1>8, <1>9
  <2> HIDE DEF Bad
  <2> DEFINE start == occupiesStart(queue[m])
             held == busyUntil(m, was)
             holds == busyUntil(m, was)'
  <2>4. /\ HeldUp(m) /\ HeldUp(m)'
        /\ start \in Int /\ \A b \in Appt : \A x \in Blocks(queue[b]) : x.end \in Int
    <3>1. LatenessIs /\ LatenessIs' /\ late'.minutes # 0
      BY <1>1, <1>11 DEF ColumnFacts
    <3>2. HeldUp(m)
      BY <1>11, <2>2, <3>1 DEF LatenessIs
    <3>3. HeldUp(m)'
      BY <2>2, <3>1 DEF LatenessIs
    <3>4. start \in Int /\ \A b \in Appt : \A x \in Blocks(queue[b]) : x.end \in Int
      BY <1>1, <2>2, SpansAreNumbers
    <3> QED BY <3>2, <3>3, <3>4
  <2>5. m \notin head
    BY <1>1, <1>5, <2>2, <2>4, <1>9 DEF HeldUp
  <2>6. held = UNION {{x.end + was[b] : x \in {y \in Blocks(queue[b]) : WaitsFor(y, start)}} :
                        b \in {c \in chain : Before(c, m)}}
    BY <1>7 DEF busyUntil
  <2>7. holds = UNION {{x.end + is[b] : x \in {y \in Blocks(queue[b]) : WaitsFor(y, start)}} :
                         b \in {c \in chain' : Before(c, m)}}
    <3>1. {c \in chain' : Before(c, m)'} = {c \in chain' : Before(c, m)}
      BY <1>6, <1>7, <1>8, <2>2
    <3> QED BY <1>1, <1>7, <3>1 DEF busyUntil, WaitsFor
  <2>8. holds # {}
    <3>1. h # m /\ Before(h, m)
      BY <1>2, <2>2, <2>5
    <3>2. occupiesStart(queue[h]) <= start
      BY <1>4, <2>2, <3>1 DEF ColumnFacts, InOneOrder
    <3>3. PICK x \in Blocks(queue[h]) : x.start = occupiesStart(queue[h])
      BY <1>1, <1>4, SpansAreNumbers
    <3>4. x.end + is[h] \in holds
      BY <1>6, <2>7, <3>1, <3>2, <3>3 DEF WaitsFor
    <3> QED BY <3>4
  <2>9. PICK w \in holds : is[m] = Capped(late.minutes, w - start)
    BY <1>1, <1>5, <2>4, <2>5, <2>8 DEF HeldUp
  <2>10. PICK b \in chain' : Before(b, m) /\ \E x \in Blocks(queue[b]) : WaitsFor(x, start) /\ w = x.end + is[b]
    BY <2>7, <2>9
  <2>11. PICK x \in Blocks(queue[b]) : WaitsFor(x, start) /\ w = x.end + is[b]
    BY <2>10
  <2>12. x.end + was[b] \in held
    BY <1>6, <2>6, <2>10, <2>11
  <2>13. PICK v \in held : x.end + was[b] <= v /\ was[m] = Capped(late.minutes, v - start)
    BY <2>4, <2>5, <2>12 DEF HeldUp
  <2>14. x.end \in Int /\ was[b] \in Int /\ is[b] \in Int /\ is[b] <= was[b] /\ v \in Int
    BY <1>6, <1>8, <1>9, <2>3, <2>4, <2>10, <2>11, <2>13 DEF HeldUp
  <2>15. w - start \in Int /\ v - start \in Int /\ w - start <= v - start
    BY <2>4, <2>11, <2>13, <2>14
  <2>16. is[m] <= was[m]
    BY <1>1, <2>9, <2>13, <2>15, CappedGrows
  <2> QED BY <1>9, <2>2, <2>16
<1> QED BY <1>10, <1>11

\* A visit moved is every span of it moved.
Moved(v, m) == [v EXCEPT !.startAt = @ + m, !.endAt = @ + m]

LEMMA MovedSpans ==
  ASSUME NEW v \in Visits, NEW m \in Nat
  PROVE  LET w == Moved(v, m) IN
         /\ w \in Visits /\ w.startAt = v.startAt + m /\ w.endAt = v.endAt + m /\ w.status = v.status
         /\ w.endedAt = v.endedAt
         /\ \A x \in Blocks(v) : [start |-> x.start + m, end |-> x.end + m] \in Blocks(w)
         /\ \A y \in Blocks(w) : \E x \in Blocks(v) : y = [start |-> x.start + m, end |-> x.end + m]
         /\ occupiesStart(w) = occupiesStart(v) + m
         /\ occupiesEnd(w) = occupiesEnd(v) + m
<1> DEFINE w == Moved(v, m)
<1>1. /\ v.startAt \in Int /\ v.endAt \in Int
      /\ w.startAt = v.startAt + m /\ w.endAt = v.endAt + m /\ w.status = v.status
      /\ w.endedAt = v.endedAt /\ w.parts = v.parts
      /\ \A part \in v.parts : part[1] \in Int /\ part[2] \in Int
  BY DEF Visits, WorkedParts, Moved
<1>2. w = [v EXCEPT !.startAt = v.startAt + m, !.endAt = v.endAt + m]
  BY DEF Moved, Visits
<1>3. w \in Visits
  <2>1. v.startAt + m \in Int /\ v.endAt + m \in Int
    BY <1>1
  <2> QED BY <1>2, <2>1 DEF Visits
<1> HIDE DEF w
<1>4. ASSUME NEW x \in Blocks(v) PROVE [start |-> x.start + m, end |-> x.end + m] \in Blocks(w)
  <2>1. PICK part \in v.parts : x = [start |-> v.startAt + part[1], end |-> v.startAt + part[2]]
    BY DEF Blocks
  <2>2. /\ x.start + m = w.startAt + part[1]
        /\ x.end + m = w.startAt + part[2]
    BY <1>1, <2>1
  <2> QED BY <1>1, <2>2 DEF Blocks
<1>5. ASSUME NEW y \in Blocks(w) PROVE \E x \in Blocks(v) : y = [start |-> x.start + m, end |-> x.end + m]
  <2>1. PICK part \in v.parts : y = [start |-> w.startAt + part[1], end |-> w.startAt + part[2]]
    BY <1>1 DEF Blocks
  <2> DEFINE x == [start |-> v.startAt + part[1], end |-> v.startAt + part[2]]
  <2>2. x \in Blocks(v)
    BY DEF Blocks
  <2>3. x.start + m = w.startAt + part[1] /\ x.end + m = w.startAt + part[2]
    BY <1>1
  <2> QED BY <2>1, <2>2, <2>3
<1>6. occupiesStart(w) = occupiesStart(v) + m
  <2>1. PICK x \in Blocks(v) : x.start = occupiesStart(v)
    BY SpansAreNumbers
  <2>2. PICK y \in Blocks(w) : y.start = occupiesStart(w)
    BY <1>3, SpansAreNumbers
  <2>3. occupiesStart(w) <= x.start + m
    BY <1>3, <1>4, SpansAreNumbers
  <2>4. PICK z \in Blocks(v) : y.start = z.start + m
    BY <1>5
  <2>5. occupiesStart(v) <= z.start /\ z.start \in Int /\ occupiesStart(v) \in Int /\ occupiesStart(w) \in Int
    BY <1>3, SpansAreNumbers
  <2> QED BY <2>1, <2>2, <2>3, <2>4, <2>5
<1>7. occupiesEnd(w) = occupiesEnd(v) + m
  <2>1. PICK x \in Blocks(v) : x.end = occupiesEnd(v)
    BY SpansAreNumbers
  <2>2. PICK y \in Blocks(w) : y.end = occupiesEnd(w)
    BY <1>3, SpansAreNumbers
  <2>3. x.end + m <= occupiesEnd(w)
    BY <1>3, <1>4, SpansAreNumbers
  <2>4. PICK z \in Blocks(v) : y.end = z.end + m
    BY <1>5
  <2>5. z.end <= occupiesEnd(v) /\ z.end \in Int /\ occupiesEnd(v) \in Int /\ occupiesEnd(w) \in Int
    BY <1>3, SpansAreNumbers
  <2> QED BY <2>1, <2>2, <2>3, <2>4, <2>5
<1> QED BY <1>1, <1>3, <1>4, <1>5, <1>6, <1>7 DEF w

\* What a push takes off the claim it takes off everybody's delay.
LEMMA CappedLess ==
  ASSUME NEW most \in Nat, NEW m \in Nat, m < most, NEW x \in Int
  PROVE  Capped(most - m, x - m) = IF Capped(most, x) >= m THEN Capped(most, x) - m ELSE 0
BY DEF Capped

\* The push the property is about.
EverybodyBehindIsPushed(from, m) ==
  /\ from \in Int /\ m \in Nat /\ m > 0
  /\ late' = workedOff(m) /\ hour' = hour
  /\ pushed(from) = Waiting
  /\ \A a \in Waiting : queue'[a] = Moved(queue[a], m)
  /\ \A a \in Appt \ Waiting : queue'[a] = queue[a]

LEMMA ThePushIsClean ==
  ASSUME RunningLateConstants, ColumnFacts, [LateNext]_lateVars, hour' = hour, late' # late, Waiting # {},
         {a \in Appt : queue'[a].startAt # queue[a].startAt} = Waiting
  PROVE  \E from, m : EverybodyBehindIsPushed(from, m)
<1>1. \A a \in Appt : queue[a] \in Visits /\ queue[a].startAt \in Int
  BY DEF ColumnFacts, ColumnInv, ColumnIsTyped, Visits
<1>2. queue' # queue
  OBVIOUS
<1>3. PICK from, m : from \in Int /\ m \in Shift /\ pushColumn(from, m)
  BY <1>1, <1>2 DEF LateNext, HourPasses, MoveOn, setRunningLate, lateVars
<1>4. /\ m \in Nat /\ late' = workedOff(m) /\ pushed(from) \in SUBSET Appt
      /\ queue' = [a \in Appt |-> IF a \in pushed(from) THEN Moved(queue[a], m) ELSE queue[a]]
  BY <1>3 DEF pushColumn, RunningLateConstants, pushed, Moved
<1>5. \A a \in pushed(from) : a \in Appt /\ queue'[a] = Moved(queue[a], m) /\ queue'[a].startAt = queue[a].startAt + m
  BY <1>1, <1>4, MovedSpans
<1>6. \A a \in Appt \ pushed(from) : queue'[a] = queue[a]
  BY <1>4
<1>7. m > 0
  <2>1. m # 0
    <3> SUFFICES ASSUME m = 0 PROVE FALSE
      OBVIOUS
    <3>1. \A a \in Appt : queue'[a].startAt = queue[a].startAt
      BY <1>1, <1>5, <1>6
    <3> QED BY <3>1
  <2>2. m \in Nat
    BY <1>4
  <2> QED BY <2>1, <2>2
<1>8. pushed(from) = Waiting
  <2>1. \A a \in pushed(from) : queue'[a].startAt # queue[a].startAt
    <3>1. m \in Nat
      BY <1>4
    <3> QED BY <1>1, <1>5, <1>7, <3>1
  <2>2. pushed(from) \in SUBSET Appt
    BY <1>4
  <2> QED BY <1>6, <2>1, <2>2
<1>9. m \in Nat /\ late' = workedOff(m)
  BY <1>4
<1> QED BY <1>3, <1>5, <1>6, <1>7, <1>8, <1>9 DEF EverybodyBehindIsPushed

\* The chair, the chain and its order stand as they did.
LEMMA TheChainStands ==
  ASSUME RunningLateConstants, ColumnFacts, Seated, NEW from, NEW m, EverybodyBehindIsPushed(from, m),
         m < late.minutes
  PROVE  /\ chain' = chain /\ head' = head /\ freeFrom = {} /\ freeFrom' = {}
         /\ \A a, b \in chain : Before(a, b)' <=> Before(a, b)
         /\ \E h : h \in Appt /\ head = {h} /\ h \in chain /\ \A a \in chain \ {h} : Before(h, a)
<1>1. /\ hour' = hour /\ m \in Nat /\ m > 0 /\ pushed(from) = Waiting
      /\ late' = [late EXCEPT !.minutes = @ - m, !.pushedOff = @ + m]
      /\ hour \in Int /\ queue \in [Appt -> Visits]
      /\ late \in [minutes : Nat, claimedAt : Int, pushedOff : Nat]
  <2>1. /\ hour' = hour /\ m \in Nat /\ m > 0 /\ pushed(from) = Waiting /\ late' = workedOff(m)
    BY DEF EverybodyBehindIsPushed
  <2>2. /\ hour \in Int /\ queue \in [Appt -> Visits]
        /\ late \in [minutes : Nat, claimedAt : Int, pushedOff : Nat]
    BY DEF ColumnFacts, ColumnInv, ColumnIsTyped
  <2>3. ~(m >= late.minutes)
    BY <2>1, <2>2
  <2> QED BY <2>1, <2>2, <2>3 DEF workedOff
<1>2. PICK h \in head : queue[h].status = "in_progress" /\ \A b \in chain \ {h} : Before(h, b)
  BY DEF Seated
<1>3. h \in Appt /\ checkout = {} /\ h \in chain
  BY <1>2 DEF head, chain, inChain, inChair
<1> DEFINE serving == {b \in Appt : queue[b].status = "in_progress"}
           lastSat == {b \in serving : \A c \in serving :
                        \/ queue[c].startAt < queue[b].startAt
                        \/ queue[c].startAt = queue[b].startAt /\ b <= c}
<1>4. head = lastSat /\ h \in serving
  <2>1. {b \in {c \in Appt : inChair(c)} : queue[b].status = "in_progress"} = serving
    BY DEF inChair
  <2>2. h \in serving
    BY <1>2, <1>3
  <2> QED BY <1>3, <2>1, <2>2 DEF head
<1>5. head = {h}
  <2>1. \A b \in Appt : b \in Nat /\ queue[b].startAt \in Int
    BY <1>1 DEF Visits, RunningLateConstants
  <2> QED BY <1>2, <1>4, <2>1
<1>6. Waiting \in SUBSET Appt /\ Waiting = chain \ {h} /\ h \notin Waiting
  BY <1>5 DEF Waiting, chain
<1>7. serving = {h}
  <2> SUFFICES ASSUME NEW b \in serving, b # h PROVE FALSE
    BY <1>4
  <2>1. b \in Waiting
    BY <1>5 DEF Waiting, chain, inChain, inChair
  <2>2. isPushable(h) /\ isPushable(b) /\ b \in Appt
    BY <1>2, <1>3 DEF isPushable
  <2>3. b \in pushed(from) /\ h \notin pushed(from)
    BY <1>1, <1>6, <2>1
  <2>4. queue[b].startAt >= from /\ ~(queue[h].startAt >= from)
    BY <1>3, <2>2, <2>3 DEF pushed
  <2>5. \/ queue[b].startAt < queue[h].startAt
        \/ queue[b].startAt = queue[h].startAt
    BY <1>2, <1>4
  <2>6. from \in Int
    BY <1>1 DEF EverybodyBehindIsPushed
  <2>7. queue[b].startAt \in Int /\ queue[h].startAt \in Int
    BY <1>1, <1>3, <2>2 DEF Visits
  <2> QED BY <2>4, <2>5, <2>6, <2>7
<1>8. ASSUME NEW b \in Appt
      PROVE  /\ queue'[b].status = queue[b].status
             /\ b \notin Waiting => queue'[b] = queue[b]
             /\ b \in Waiting =>
                  /\ queue'[b].startAt = queue[b].startAt + m
                  /\ occupiesStart(queue'[b]) = occupiesStart(queue[b]) + m
                  /\ occupiesEnd(queue'[b]) = occupiesEnd(queue[b]) + m
  <2>1. queue[b] \in Visits
    BY <1>1
  <2>2. CASE b \in Waiting
    <3>1. queue'[b] = Moved(queue[b], m) /\ m \in Nat
      BY <2>2 DEF EverybodyBehindIsPushed
    <3> QED BY <2>1, <2>2, <3>1, MovedSpans
  <2>3. CASE b \notin Waiting
    BY <2>3 DEF EverybodyBehindIsPushed
  <2> QED BY <2>2, <2>3
<1>9. \A b \in Appt : /\ queue[b] \in Visits /\ queue[b].startAt \in Int
                       /\ occupiesStart(queue[b]) \in Int /\ occupiesEnd(queue[b]) \in Int
                       /\ queue[b].startAt < occupiesEnd(queue[b])
  BY <1>1, SpansAreNumbers DEF Visits
<1>10. checkout' = {}
  <2>1. \A b \in Appt : queue[b].status = "completed" => b \notin Waiting
    BY DEF Waiting, chain, inChain, inChair, isPushable
  <2>2. \A b \in Appt : queue[b].status = "completed" => queue'[b] = queue[b]
    BY <1>8, <2>1
  <2>3. ASSUME NEW b \in checkout' PROVE FALSE
    <3>1. /\ b \in Appt /\ queue'[b].status = "completed"
          /\ late'.claimedAt <= queue'[b].endedAt /\ queue'[b].endedAt <= hour'
          /\ \A c \in Appt : (/\ queue'[c].status = "completed"
                              /\ late'.claimedAt <= queue'[c].endedAt /\ queue'[c].endedAt <= hour') =>
               \/ queue'[c].endedAt < queue'[b].endedAt
               \/ queue'[c].endedAt = queue'[b].endedAt /\ ~ReadBefore(c, b)'
      BY <2>3 DEF checkout
    <3>2. queue'[b] = queue[b] /\ late'.claimedAt = late.claimedAt /\ queue[b].status = "completed"
      BY <1>1, <1>8, <2>2, <3>1
    <3>3. ASSUME NEW c \in Appt, queue[c].status = "completed",
                 late.claimedAt <= queue[c].endedAt, queue[c].endedAt <= hour
          PROVE  \/ queue[c].endedAt < queue[b].endedAt
                 \/ queue[c].endedAt = queue[b].endedAt /\ ~ReadBefore(c, b)
      <4>1. queue'[c] = queue[c]
        BY <2>2, <3>3
      <4> QED BY <1>1, <3>1, <3>2, <3>3, <4>1 DEF ReadBefore
    <3>4. b \in checkout
      BY <1>1, <3>1, <3>2, <3>3 DEF checkout
    <3> QED BY <1>3, <3>4
  <2> QED BY <2>3
<1>11. head' = {h}
  <2>1. {b \in {c \in Appt : inChair(c)'} : queue'[b].status = "in_progress"} = {h}
    <3>1. \A b \in Appt : queue'[b].status = "in_progress" <=> b = h
      BY <1>7, <1>8, <1>3
    <3> QED BY <1>3, <3>1 DEF inChair
  <2>2. h <= h
    BY <1>3 DEF RunningLateConstants
  <2> QED BY <1>10, <2>1, <2>2 DEF head
<1>12. chain' = chain
  <2>1. ASSUME NEW b \in Appt \ Waiting PROVE inChain(b)' <=> inChain(b)
    <3>1. queue'[b] = queue[b]
      BY <1>8
    <3> QED BY <1>1, <3>1 DEF inChain, inChair, isPushable
  <2>2. ASSUME NEW b \in Waiting PROVE inChain(b)' /\ inChain(b)
    <3>1. b \in Appt /\ inChain(b) /\ queue[b].status # "in_progress"
      BY <1>6, <1>7 DEF chain
    <3>2. CASE occupiesEnd(queue[b]) > hour
      <4>1. occupiesEnd(queue'[b]) > hour
        BY <1>1, <1>8, <1>9, <3>1, <3>2
      <4>2. isPushable(b)'
        BY <1>8, <3>1 DEF inChain, inChair, isPushable
      <4> QED BY <1>1, <3>1, <4>1, <4>2 DEF inChain
    <3>3. CASE ~(occupiesEnd(queue[b]) > hour)
      <4>1. queue[b].status = "checked_in"
        BY <3>1, <3>3 DEF inChain, inChair
      <4>2. queue'[b].status = "checked_in" /\ isPushable(b)'
        BY <1>8, <3>1, <4>1 DEF isPushable
      <4>3. queue'[b].startAt <= hour \/ occupiesEnd(queue'[b]) > hour
        BY <1>1, <1>8, <1>9, <3>1
      <4> QED BY <1>1, <3>1, <4>2, <4>3 DEF inChain, inChair
    <3> QED BY <3>2, <3>3, <1>1, <1>9, <3>1
  <2> QED BY <2>1, <2>2 DEF chain
<1>13. ASSUME NEW a \in chain, NEW b \in chain PROVE Before(a, b)' <=> Before(a, b)
  <2>1. a \in Appt /\ b \in Appt /\ a \in Nat /\ b \in Nat
    BY DEF chain, RunningLateConstants
  <2>2. CASE a \in Waiting /\ b \in Waiting
    BY <1>1, <1>8, <1>9, <2>1, <2>2 DEF Before, ReadBefore
  <2>3. CASE a = h /\ b \in Waiting
    <3>1. Before(a, b) /\ occupiesStart(queue[a]) <= occupiesStart(queue[b])
      BY <1>2, <1>6, <2>1, <2>3 DEF ColumnFacts, InOneOrder
    <3>2. Before(a, b)'
      BY <1>1, <1>6, <1>8, <1>9, <2>1, <2>3, <3>1 DEF Before
    <3> QED BY <3>1, <3>2
  <2>4. CASE a \in Waiting /\ b = h
    <3>1. Before(b, a) /\ occupiesStart(queue[b]) <= occupiesStart(queue[a])
      BY <1>2, <1>6, <2>1, <2>4 DEF ColumnFacts, InOneOrder
    <3>2. ~Before(a, b)
      BY <2>1, <3>1 DEF ColumnFacts, InOneOrder
    <3>3. ~Before(a, b)'
      BY <1>1, <1>6, <1>8, <1>9, <2>1, <2>4, <3>1 DEF Before
    <3> QED BY <3>2, <3>3
  <2>5. CASE a = h /\ b = h
    BY <1>6, <1>8, <2>1, <2>5 DEF Before, ReadBefore
  <2> QED BY <1>6, <2>2, <2>3, <2>4, <2>5
<1>14. freeFrom = {} /\ freeFrom' = {}
  BY <1>3, <1>10 DEF freeFrom
<1> QED BY <1>2, <1>3, <1>5, <1>11, <1>12, <1>13, <1>14

\* Everybody behind the chair is told the pushed minutes less, and no less
\* than nothing.
LEMMA ThePushComesOff ==
  ASSUME RunningLateConstants, ColumnFacts, ColumnFacts', Seated, EachInTurn,
         NEW from, NEW m, EverybodyBehindIsPushed(from, m), m < late.minutes
  PROVE  \A a \in Waiting :
           lateness'[a] = IF lateness[a] >= m THEN lateness[a] - m ELSE 0
<1> DEFINE was == lateness
           is == lateness'
           M == late.minutes
           s(b) == occupiesStart(queue[b])
           Bad == {a \in Waiting : is[a] # IF was[a] >= m THEN was[a] - m ELSE 0}
<1>1. /\ m \in Nat /\ m > 0 /\ M \in Nat /\ late.pushedOff \in Nat /\ m < M
      /\ late'.minutes = M - m /\ late'.pushedOff = late.pushedOff + m
      /\ \A b \in Appt : queue[b] \in Visits
      /\ \A b \in Waiting : queue'[b] = Moved(queue[b], m)
      /\ \A b \in Appt \ Waiting : queue'[b] = queue[b]
  <2>1. /\ m \in Nat /\ m > 0 /\ late' = workedOff(m)
        /\ \A b \in Waiting : queue'[b] = Moved(queue[b], m)
        /\ \A b \in Appt \ Waiting : queue'[b] = queue[b]
    BY DEF EverybodyBehindIsPushed
  <2>2. /\ queue \in [Appt -> Visits]
        /\ late \in [minutes : Nat, claimedAt : Int, pushedOff : Nat]
    BY DEF ColumnFacts, ColumnInv, ColumnIsTyped
  <2>3. ~(m >= late.minutes)
    BY <2>1, <2>2
  <2>4. late' = [late EXCEPT !.minutes = @ - m, !.pushedOff = @ + m]
    BY <2>1, <2>3 DEF workedOff
  <2> QED BY <2>1, <2>2, <2>4
<1>2. /\ chain' = chain /\ head' = head /\ freeFrom = {} /\ freeFrom' = {}
      /\ \A a, b \in chain : Before(a, b)' <=> Before(a, b)
  BY TheChainStands
<1>3. PICK h : h \in Appt /\ head = {h} /\ h \in chain /\ \A a \in chain \ {h} : Before(h, a)
  BY TheChainStands
<1>4. Waiting = chain \ {h} /\ chain \in SUBSET Appt
  BY <1>3 DEF Waiting, chain
<1>5. \A b \in Appt : was[b] \in Int /\ was[b] >= 0 /\ is[b] \in Int /\ is[b] >= 0 /\ s(b) \in Int
  BY <1>1, SpansAreNumbers DEF ColumnFacts, LatenessIs
<1>6. \A b \in chain : HeldUp(b) /\ HeldUp(b)'
  <2>1. M # 0 /\ late'.minutes # 0
    BY <1>1
  <2>2. \A b \in chain : HeldUp(b)
    BY <2>1 DEF ColumnFacts, LatenessIs
  <2>3. \A b \in chain' : HeldUp(b)'
    BY <2>1 DEF ColumnFacts, LatenessIs
  <2> QED BY <1>2, <2>2, <2>3
<1>7. was[h] = M + late.pushedOff /\ is[h] = was[h]
  <2>1. HeldUp(h) /\ HeldUp(h)' /\ h \in head /\ h \in head'
    BY <1>2, <1>3, <1>6
  <2>2. was[h] = M + late.pushedOff
    BY <2>1 DEF HeldUp
  <2>3. is[h] = late'.minutes + late'.pushedOff
    BY <2>1 DEF HeldUp
  <2> QED BY <1>1, <2>2, <2>3
<1> SUFFICES ASSUME Bad # {} PROVE FALSE
  OBVIOUS
<1>8. PICK a \in Bad : \A x \in Bad : ~Before(x, a)
  <2>1. Bad \in SUBSET Appt /\ InOneOrder
    BY <1>4 DEF ColumnFacts
  <2> HIDE DEF Bad
  <2> QED BY <2>1, SomebodyIsFirst
<1>9. /\ a \in Waiting /\ a \in chain /\ a \in Appt /\ a # h /\ a \notin head /\ a \notin head'
      /\ is[a] # IF was[a] >= m THEN was[a] - m ELSE 0
  BY <1>2, <1>3, <1>4
<1>10. \A b \in Waiting : Before(b, a) => is[b] = IF was[b] >= m THEN was[b] - m ELSE 0
  BY <1>8
<1> HIDE DEF Bad
<1> DEFINE held == busyUntil(a, was)
           holds == busyUntil(a, was)'
           start == s(a)
<1>11. held = UNION {{x.end + was[b] : x \in {y \in Blocks(queue[b]) : WaitsFor(y, start)}} :
                       b \in {c \in chain : Before(c, a)}}
  BY <1>2 DEF busyUntil
<1>12. occupiesStart(queue'[a]) = start + m
  BY <1>1, <1>9, MovedSpans
<1>13. holds = UNION {{x.end + is[b] : x \in {y \in Blocks(queue'[b]) : WaitsFor(y, start + m)}} :
                        b \in {c \in chain : Before(c, a)}}
  <2>1. {c \in chain' : Before(c, a)'} = {c \in chain : Before(c, a)}
    BY <1>2, <1>9
  <2> QED BY <1>2, <1>12, <2>1 DEF busyUntil, WaitsFor
<1>14. \A b \in Appt : \A x \in Blocks(queue[b]) : x.start \in Int /\ x.end \in Int
  BY <1>1, SpansAreNumbers
<1>15. \A x \in Blocks(queue[h]) : x.start <= start
  <2>1. Before(h, a) /\ h \notin Waiting
    BY <1>3, <1>4, <1>9
  <2> QED BY <1>3, <1>9, <2>1 DEF EachInTurn
<1>16. \A b \in Waiting : Before(b, a) => \A x \in Blocks(queue[b]) : x.start <= start => x.end <= start
  <2>1. \A b \in Waiting : b \notin head /\ b \in chain
    BY <1>3, <1>4
  <2> QED BY <1>9, <2>1 DEF EachInTurn, WaitsFor
<1>17. queue'[h] = queue[h]
  BY <1>1, <1>3, <1>4
\* Whatever held her up holds her up as late.
<1>18. ASSUME NEW w \in held PROVE \E y \in holds : w <= y
  <2>1. PICK b \in {c \in chain : Before(c, a)} :
             \E x \in {y \in Blocks(queue[b]) : WaitsFor(y, start)} : w = x.end + was[b]
    BY <1>11, <1>18
  <2>2. PICK x \in Blocks(queue[b]) : x.start <= start /\ w = x.end + was[b]
    BY <2>1 DEF WaitsFor
  <2>3. CASE b = h
    <3>1. x \in Blocks(queue'[h]) /\ x.start <= start + m
      BY <1>1, <1>3, <1>5, <1>9, <1>14, <1>17, <2>2, <2>3
    <3>2. x.end + is[h] \in holds
      BY <1>13, <2>1, <2>3, <3>1 DEF WaitsFor
    <3> QED BY <1>3, <1>5, <1>7, <1>14, <2>2, <2>3, <3>2
  <2>4. CASE b # h
    <3>1. b \in Waiting /\ b \in Appt
      BY <1>4, <2>1, <2>4
    <3> DEFINE y == [start |-> x.start + m, end |-> x.end + m]
    <3>2. y \in Blocks(queue'[b]) /\ y.start = x.start + m /\ y.end = x.end + m
      BY <1>1, <2>2, <3>1, MovedSpans
    <3> HIDE DEF y
    <3>3. WaitsFor(y, start + m)
      BY <1>1, <1>5, <1>9, <1>14, <2>2, <3>1, <3>2 DEF WaitsFor
    <3>4. y.end + is[b] \in holds
      BY <1>13, <2>1, <3>2, <3>3
    <3>5. is[b] = IF was[b] >= m THEN was[b] - m ELSE 0
      BY <1>10, <2>1, <3>1
    <3> QED BY <1>1, <1>5, <1>14, <2>2, <3>1, <3>2, <3>4, <3>5
  <2> QED BY <2>3, <2>4
\* Whatever holds her up held her up as late, or is gone by her new time.
<1>19. ASSUME NEW w \in holds PROVE w \in Int /\ (w \in held \/ w <= start + m)
  <2>1. PICK b \in {c \in chain : Before(c, a)} :
             \E x \in {y \in Blocks(queue'[b]) : WaitsFor(y, start + m)} : w = x.end + is[b]
    BY <1>13, <1>19
  <2>2. PICK y \in Blocks(queue'[b]) : y.start <= start + m /\ w = y.end + is[b]
    BY <2>1 DEF WaitsFor
  <2>3. CASE b = h
    <3>1. y \in Blocks(queue[h]) /\ y.start <= start
      BY <1>15, <1>17, <2>2, <2>3
    <3>2. y.end + was[h] \in held
      BY <1>11, <2>1, <2>3, <3>1 DEF WaitsFor
    <3> QED BY <1>3, <1>5, <1>7, <1>14, <2>2, <2>3, <3>1, <3>2
  <2>4. CASE b # h
    <3>1. b \in Waiting /\ b \in Appt
      BY <1>4, <2>1, <2>4
    <3>2. PICK x \in Blocks(queue[b]) : y = [start |-> x.start + m, end |-> x.end + m]
      BY <1>1, <2>2, <3>1, MovedSpans
    <3>3. x.start \in Int /\ x.end \in Int /\ x.start <= start
      BY <1>1, <1>5, <1>9, <1>14, <2>2, <3>1, <3>2
    <3>4. x.end <= start
      BY <1>16, <2>1, <3>1, <3>3
    <3>5. is[b] = IF was[b] >= m THEN was[b] - m ELSE 0
      BY <1>10, <2>1, <3>1
    <3>6. x.end + was[b] \in held
      BY <1>11, <2>1, <3>3 DEF WaitsFor
    <3>7. y.end = x.end + m
      BY <3>2
    <3>8. CASE was[b] >= m
      BY <1>1, <1>5, <2>2, <3>1, <3>3, <3>5, <3>6, <3>7, <3>8
    <3>9. CASE ~(was[b] >= m)
      BY <1>1, <1>5, <1>9, <2>2, <3>1, <3>3, <3>4, <3>5, <3>7, <3>9
    <3> QED BY <3>8, <3>9
  <2> QED BY <2>3, <2>4
<1>20. held # {} /\ holds # {}
  <2>1. PICK x \in Blocks(queue[h]) : TRUE
    BY <1>1, <1>3, SpansAreNumbers
  <2>2. x.end + was[h] \in held
    BY <1>3, <1>9, <1>11, <1>15 DEF WaitsFor
  <2> QED BY <1>18, <2>2
<1>21. PICK w \in held : (\A x \in held : x <= w) /\ was[a] = Capped(M, w - start) /\ w \in Int
  BY <1>6, <1>9, <1>20 DEF HeldUp
<1>22. PICK v \in holds : (\A x \in holds : x <= v) /\ is[a] = Capped(M - m, v - (start + m))
  BY <1>1, <1>6, <1>9, <1>12, <1>20 DEF HeldUp
<1>23. v \in Int /\ start \in Int /\ w <= v /\ (v = w \/ v <= start + m)
  <2>1. PICK y \in holds : w <= y
    BY <1>18
  <2>2. y \in Int /\ v \in Int /\ y <= v /\ (v \in held \/ v <= start + m)
    BY <1>19, <1>22
  <2> QED BY <1>5, <1>9, <1>21, <2>1, <2>2
<1>24. CASE v = w
  <2>1. w - start \in Int /\ v - (start + m) = (w - start) - m
    BY <1>1, <1>21, <1>23, <1>24
  <2>2. is[a] = IF was[a] >= m THEN was[a] - m ELSE 0
    BY <1>1, <1>21, <1>22, <2>1, CappedLess
  <2> QED BY <1>9, <2>2
<1>25. CASE v <= start + m
  <2>1. v - (start + m) <= 0 /\ w - start <= m /\ w - start \in Int /\ v - (start + m) \in Int
    BY <1>1, <1>21, <1>23, <1>25
  <2>2. is[a] = 0
    BY <1>1, <1>22, <2>1 DEF Capped
  <2>3. was[a] <= m /\ was[a] \in Nat
    BY <1>1, <1>21, <2>1 DEF Capped
  <2> QED BY <1>1, <1>9, <2>2, <2>3
<1> QED BY <1>23, <1>24, <1>25

LEMMA ThePushMovesNoTurn ==
  ASSUME RunningLateConstants, ColumnFacts, ColumnFacts', [LateNext]_lateVars, hour' = hour, late' # late,
         Seated, EachInTurn, Waiting # {},
         {a \in Appt : queue'[a].startAt # queue[a].startAt} = Waiting,
         NEW a \in Waiting
  PROVE  seenAt'[a] = IF queue'[a].startAt > seenAt[a] THEN queue'[a].startAt ELSE seenAt[a]
<1>1. PICK from, m : EverybodyBehindIsPushed(from, m)
  BY ThePushIsClean
<1>2. a \in Appt /\ a \in chain /\ a \notin head /\ queue[a] \in Visits /\ queue[a].startAt \in Int
  BY DEF Waiting, chain, ColumnFacts, ColumnInv, ColumnIsTyped, Visits
<1>3. m \in Nat /\ queue'[a].startAt = queue[a].startAt + m /\ late' = workedOff(m)
  BY <1>1, <1>2, MovedSpans DEF EverybodyBehindIsPushed
<1>4. /\ seenAt[a] = queue[a].startAt + lateness[a] /\ seenAt'[a] = queue'[a].startAt + lateness'[a]
      /\ lateness[a] \in Int /\ lateness'[a] \in Int /\ lateness[a] >= 0
      /\ late.minutes \in Nat
  BY <1>2 DEF seenAt, ColumnFacts, LatenessIs, ColumnInv, ColumnIsTyped
<1>5. CASE m < late.minutes
  <2>1. lateness'[a] = IF lateness[a] >= m THEN lateness[a] - m ELSE 0
    BY <1>1, <1>5, ThePushComesOff
  <2> QED BY <1>2, <1>3, <1>4, <2>1
<1>6. CASE ~(m < late.minutes)
  <2>1. late' = NoClaim
    BY <1>3, <1>4, <1>6 DEF workedOff
  <2>2. lateness'[a] = 0
    BY <1>2, <2>1 DEF ColumnFacts, LatenessIs, NoClaim
  <2>3. lateness[a] <= late.minutes
    <3>1. CASE late.minutes = 0
      BY <1>2, <3>1 DEF ColumnFacts, LatenessIs
    <3>2. CASE late.minutes # 0
      <4>1. HeldUp(a) /\ occupiesStart(queue[a]) \in Int
        BY <1>2, <3>2, SpansAreNumbers DEF ColumnFacts, LatenessIs
      <4> QED BY <1>2, <1>4, <4>1 DEF HeldUp, Capped
    <3> QED BY <3>1, <3>2
  <2> QED BY <1>2, <1>3, <1>4, <1>6, <2>2, <2>3
<1> QED BY <1>5, <1>6

\* A column running late, for any visits, spans, claims and pushes: whoever is
\* shown late carries the claim from the chair, comes first to an empty one, or
\* begins no later than somebody before her is out (running-late.ts).
THEOREM NobodyLateWaitsForNobody ==
  ASSUME RunningLateConstants
  PROVE  LateSpec => []NobodyWaitsForAnEmptyChair
<1>1. LateInit => ColumnIsTyped
  BY DEF LateInit, ColumnIsTyped, NoClaim, RunningLateConstants
<1>2. ColumnIsTyped /\ [LateNext]_lateVars => ColumnIsTyped'
  BY ColumnStaysTyped
<1>3. ColumnIsTyped => NobodyWaitsForAnEmptyChair
  BY LateForAReason
<1> QED BY <1>1, <1>2, <1>3, PTL DEF LateSpec

\* And only what somebody does moves a turn: an overrun client's booked end going
\* by delays nobody, and a clean push of everybody behind the chair changes what
\* they were told and not when they are seen (D-63).
THEOREM OnlyActsMoveTurns ==
  ASSUME RunningLateConstants
  PROVE  LateSpec => OnlyActsMoveATurn
<1>1. LateInit => ColumnInv
  BY DEF LateInit, ColumnInv, ColumnIsTyped, NoClaim, RunningLateConstants
<1>2. ColumnInv /\ [LateNext]_lateVars => ColumnInv'
  BY ColumnStays
<1>3. ColumnInv => ColumnFacts
  BY ColumnFactsHold
<1>4. ColumnFacts /\ ColumnFacts' /\ [LateNext]_lateVars =>
        [(hour' # hour /\ Seated) =>
           LET was == lateness  is == lateness' IN
           \A a \in Appt : inChain(a)' => is[a] <= was[a]]_lateVars
  BY TimeDelaysNobody
<1>5. ColumnFacts /\ ColumnFacts' /\ [LateNext]_lateVars =>
        [(/\ hour' = hour /\ late' # late /\ Seated /\ EachInTurn /\ Waiting # {}
          /\ {a \in Appt : queue'[a].startAt # queue[a].startAt} = Waiting) =>
           LET was == seenAt  is == seenAt' IN
           \A a \in Waiting :
             is[a] = IF queue'[a].startAt > was[a] THEN queue'[a].startAt ELSE was[a]]_lateVars
  BY ThePushMovesNoTurn
<1> QED
  BY <1>1, <1>2, <1>3, <1>4, <1>5, PTL DEF LateSpec, OnlyActsMoveATurn, TimeAloneDelaysNobody, PushMovesNobodysTurn
=============================================================================
