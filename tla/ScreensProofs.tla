--------------------------- MODULE ScreensProofs ---------------------------
(***************************************************************************)
(* The booking panel, for any services, clients, stylists and days: what   *)
(* it shows is one answer, in whatever order the answers land, and the     *)
(* search for somebody else misses nobody (Panel).                         *)
(*                                                                         *)
(* And what is prepared by an assistant and written by another system, for *)
(* any visits, stylists, people, calls and bounds: a proposal is carried   *)
(* out at most once and leaves what its summary named, and a write with    *)
(* If-Match replaces what its caller read (Proposals).                     *)
(***************************************************************************)
EXTENDS Panel, OffersProofs, Proposals, TLAPS

(* The booking panel.                                                      *)

IsQuestion(q) == q = [id |-> q.id, kind |-> q.kind, asked |-> q.asked, anchor |-> q.anchor]

QuestionsAreNumbered ==
  /\ latest \in Nat
  /\ \A q \in questions :
       IsQuestion(q) /\ q.id \in 0 .. latest /\ q.kind \in {"times", "days", "compose"}

\* The latest question is the one on the screen.
LatestIsOnScreen ==
  \A q \in questions : q.id = latest /\ q.kind # "compose" => q.asked = OnScreen

\* Its times are out once, and while they are, nothing is chosen but what a
\* named stylist's column will choose again.
TimesAreOutOnce ==
  \A q \in questions : q.id = latest /\ q.kind = "times" =>
    /\ mode # "named" => choice = None
    /\ \A x \in questions : x.id = latest /\ x.kind = "times" => x = q

NothingIsAskedOfNothing ==
  chosen = <<>> =>
    list = Nothing /\ openDays = NoDays /\ \A q \in questions : q.id = latest => q.kind = "compose"

ModesApart ==
  /\ mode \in {"named", "anyone", "walkin"}
  /\ mode = "named" => day \in Day
  /\ mode # "named" => \A q \in questions : q.kind # "compose"
  /\ mode = "walkin" => openDays = NoDays /\ \A q \in questions : q.kind # "days"

PanelInv ==
  /\ QuestionsAreNumbered /\ LatestIsOnScreen /\ TimesAreOutOnce /\ NothingIsAskedOfNothing
  /\ ModesApart /\ TheScreenIsOneAnswer
\* One column has one candidate an instant.
LEMMA FirstOfColumn ==
  ASSUME NEW rows, rows # {}, \A row \in rows : row.at \in Nat,
         \A a, b \in rows : a.at = b.at => a = b
  PROVE  FirstOf(rows) \in rows
<1> DEFINE T == {row.at : row \in rows}
<1>1. T \in SUBSET Nat /\ T # {}
  OBVIOUS
<1>2. PICK x \in T : \A y \in T : x <= y
  BY <1>1, LeastOf
<1>3. PICK row \in rows : row.at = x
  OBVIOUS
<1>4. \A other \in rows \ {row} : row.at < other.at
  <2> SUFFICES ASSUME NEW other \in rows \ {row} PROVE row.at < other.at
    OBVIOUS
  <2>1. row.at <= other.at /\ row.at # other.at /\ row.at \in Nat /\ other.at \in Nat
    BY <1>2, <1>3
  <2> QED BY <2>1
<1> QED BY <1>3, <1>4 DEF FirstOf

\* The rows of one instant are of different stylists, who are numbered, or one.
LEMMA FirstOfInstant ==
  ASSUME NEW rows, NEW at, rows # {}, \A row \in rows : row.at = at,
         (\A row \in rows : row.provider \in Nat) \/ (\A a, b \in rows : a = b)
  PROVE  FirstOf(rows) \in rows
<1>1. CASE \A a, b \in rows : a = b
  BY <1>1 DEF FirstOf
<1>2. CASE \A row \in rows : row.provider \in Nat
  <2> DEFINE T == {row.provider : row \in rows}
  <2>1. T \in SUBSET Nat /\ T # {}
    BY <1>2
  <2>2. PICK x \in T : \A y \in T : x <= y
    BY <2>1, LeastOf
  <2>3. PICK row \in rows : row.provider = x
    OBVIOUS
  <2>4. \A other \in rows \ {row} : row.at = other.at /\ row.provider <= other.provider
    BY <2>2, <2>3
  <2> QED BY <2>3, <2>4 DEF FirstOf
<1> QED BY <1>1, <1>2

LEMMA MarksAreNumbers ==
  ASSUME PanelConstants, NEW d \in Day
  PROVE  Marks(d) \subseteq Nat
<1>1. DayLength \in Nat /\ d \in Nat
  BY DEF PanelConstants, OffersConstants, Day
<1>2. d * DayLength \in Nat
  BY <1>1
<1>3. \A m \in 0 .. DayLength - 1 : d * DayLength + m \in Nat
  BY <1>1, <1>2
<1> QED BY <1>3 DEF Marks

\* A named stylist's answer: what it preselects is one of its rows, or the gap.
LEMMA ColumnChoice ==
  ASSUME PanelConstants, mode = "named", NEW q, q.asked.day \in Day,
         preselect(answerTo(q.asked), q) # None
  PROVE  \/ \E row \in answerTo(q.asked) : preselect(answerTo(q.asked), q) = Row(row.provider, row.at)
         \/ preselect(answerTo(q.asked), q).at = GapAt /\ q.asked.day = InitialDay
<1> DEFINE rows == answerTo(q.asked)
           gap == IF q.asked.day = InitialDay THEN GapAt ELSE None.at
           later == {row \in Offered(rows) : row.at >= gap}
<1>1. rows = computeDaySlots(book, provider, q.asked.visit, q.asked.day, q.asked.holder)
  BY DEF answerTo
<1>2. /\ \A row \in rows : row.provider = provider /\ row.at \in Nat
      /\ \A x, y \in rows : x.at = y.at => x = y
  BY <1>1, ColumnRows, MarksAreNumbers
<1>3. later \subseteq rows
  BY DEF Offered
<1>4. later # {} => FirstOf(later) \in rows
  <2> HIDE DEF later
  <2> QED BY <1>2, <1>3, FirstOfColumn
<1>5. preselect(rows, q) =
        CASE \E row \in rows : row.at = q.anchor -> Row(provider, q.anchor)
          [] ~(\E row \in rows : row.at = q.anchor) /\ later # {} -> Row(provider, FirstOf(later).at)
          [] OTHER -> IF gap # None.at THEN Row(provider, gap) ELSE None
  BY DEF preselect
<1> HIDE DEF rows, later
<1>6. CASE \E row \in rows : row.at = q.anchor
  <2>1. preselect(rows, q) = Row(provider, q.anchor)
    BY <1>5, <1>6
  <2> QED BY <1>2, <1>6, <2>1 DEF rows
<1>7. CASE ~(\E row \in rows : row.at = q.anchor) /\ later # {}
  <2>1. preselect(rows, q) = Row(provider, FirstOf(later).at)
    BY <1>5, <1>7
  <2> QED BY <1>2, <1>4, <1>7, <2>1 DEF rows
<1>8. CASE ~(\E row \in rows : row.at = q.anchor) /\ later = {}
  <2>1. preselect(rows, q) = IF gap # None.at THEN Row(provider, gap) ELSE None
    BY <1>5, <1>8
  <2>2. gap # None.at
    BY <2>1 DEF rows
  <2> QED BY <2>1, <2>2 DEF rows, Row
<1> QED BY <1>6, <1>7, <1>8

\* Anyone's answer, and a walk-in's: what is chosen again is one of its rows.
LEMMA AnswerRows ==
  ASSUME PanelConstants, mode \in {"anyone", "walkin"}, NEW ask
  PROVE  \/ \A row \in answerTo(ask) : row.provider \in Nat
         \/ \A x, y \in answerTo(ask) : x.at = y.at => x = y
<1>1. CASE mode = "anyone"
  <2>1. answerTo(ask) = anyProviderTimes(book, ask.visit, ask.day, ask.holder)
    BY <1>1 DEF answerTo
  <2> DEFINE offered == Offered(Columns(book, ask.visit, ask.day, ask.holder))
             who(t) == leastBooked(book, {row.provider : row \in {r \in offered : r.at = t}}, ask.day)
             times == {row.at : row \in offered}
  <2>2. answerTo(ask) = {[provider |-> who(t), at |-> t, reasons |-> {}] : t \in times}
    BY <2>1 DEF anyProviderTimes
  <2> HIDE DEF who, times
  <2> QED BY <2>2
<1>2. CASE mode = "walkin"
  <2>1. answerTo(ask) = walkInAnswer(book, ask.visit, ask.day, ask.holder)
    BY <1>2 DEF answerTo
  <2>2. ASSUME NEW d, NEW row \in Columns(book, ask.visit, d, ask.holder) PROVE row.provider \in Nat
    BY ColumnRows DEF Columns, PanelConstants, OffersConstants
  <2>3. ASSUME NEW rows PROVE Soonest(rows) \subseteq rows /\ Offered(rows) \subseteq rows
    BY DEF Soonest, Offered
  <2>4. ASSUME NEW row \in answerTo(ask)
        PROVE  \E d : row \in Columns(book, ask.visit, d, ask.holder)
    <3> DEFINE today == Columns(book, ask.visit, ask.day, ask.holder)
               later == {d \in Day : /\ d \in ask.day + 1 .. ask.day + DaysAhead
                                     /\ Offered(Columns(book, ask.visit, d, ask.holder)) # {}}
               next == Columns(book, ask.visit, Min(later), ask.holder)
    <3>1. \/ row \in Soonest(Offered(today)) \/ row \in Soonest(today) \/ row \in Soonest(Offered(next))
      BY <2>1 DEF walkInAnswer
    <3> HIDE DEF today, later
    <3>2. row \in today \/ row \in next
      BY <2>3, <3>1
    <3> QED BY <3>2 DEF today
  <2> QED BY <2>2, <2>4
<1> QED BY <1>1, <1>2

LEMMA AnswerChoice ==
  ASSUME PanelConstants, mode \in {"anyone", "walkin"}, NEW ask, NEW anchor,
         reselect(answerTo(ask), anchor) # None
  PROVE  \E row \in answerTo(ask) : reselect(answerTo(ask), anchor) = Row(row.provider, row.at)
<1> DEFINE rows == answerTo(ask)
           same == {row \in rows : row.at = anchor}
<1>1. same # {} /\ reselect(rows, anchor) = Row(FirstOf(same).provider, anchor)
  BY DEF reselect
<1>2. same \subseteq rows /\ \A row \in same : row.at = anchor
  OBVIOUS
<1>3. (\A row \in same : row.provider \in Nat) \/ (\A x, y \in same : x = y)
  <2> HIDE DEF rows
  <2>1. (\A row \in rows : row.provider \in Nat) \/ (\A x, y \in rows : x.at = y.at => x = y)
    BY AnswerRows DEF rows
  <2> QED BY <2>1
<1> HIDE DEF same
<1>4. FirstOf(same) \in same
  BY <1>1, <1>2, <1>3, FirstOfInstant
<1> QED BY <1>1, <1>2, <1>4
\* What leaves the screen and its questions alone.
LEMMA ScreenKept ==
  ASSUME PanelInv,
         UNCHANGED <<mode, provider, day, chosen, client, list, openDays, typed, choice, latest, questions>>
  PROVE  PanelInv'
BY DEF PanelInv, QuestionsAreNumbered, IsQuestion, LatestIsOnScreen, TimesAreOutOnce,
       NothingIsAskedOfNothing, ModesApart, TheScreenIsOneAnswer, OnScreen

LEMMA Loads ==
  ASSUME PanelInv, PanelConstants, NEW anchor, loadFor(day', chosen', client', anchor),
         UNCHANGED <<mode, provider>>, mode = "named" => day' \in Day
  PROVE  PanelInv'
<1> DEFINE new == [id |-> latest + 1, kind |-> "times", asked |-> Asked(day', chosen', client'),
                   anchor |-> anchor]
<1>1. /\ latest' = latest + 1 /\ choice' = None /\ list' = Nothing /\ openDays' = NoDays /\ typed' = {}
      /\ questions' = IF chosen' = <<>> THEN questions ELSE questions \cup {new}
  BY DEF loadFor
<1>2. latest \in Nat /\ \A q \in questions : IsQuestion(q) /\ q.id \in 0 .. latest
                                             /\ q.kind \in {"times", "days", "compose"}
  BY DEF PanelInv, QuestionsAreNumbered
<1>3. IsQuestion(new) /\ new.id = latest + 1 /\ new.kind = "times" /\ new.asked = OnScreen'
  BY DEF IsQuestion, OnScreen
<1> HIDE DEF new
<1>4. QuestionsAreNumbered'
  BY <1>1, <1>2, <1>3 DEF QuestionsAreNumbered, IsQuestion
<1>5. \A q \in questions' : q.id = latest' => q = new /\ chosen' # <<>>
  BY <1>1, <1>2
<1>6. LatestIsOnScreen' /\ TimesAreOutOnce' /\ NothingIsAskedOfNothing'
  BY <1>1, <1>3, <1>5 DEF LatestIsOnScreen, TimesAreOutOnce, NothingIsAskedOfNothing
<1>7. ModesApart'
  BY <1>1, <1>3 DEF PanelInv, ModesApart
<1>8. TheScreenIsOneAnswer'
  BY <1>1 DEF TheScreenIsOneAnswer
<1> QED BY <1>4, <1>6, <1>7, <1>8 DEF PanelInv

LEMMA ChangesClient ==
  ASSUME PanelInv, PanelConstants, NEW c, changeClient(c)
  PROVE  PanelInv'
<1>1. UNCHANGED <<mode, provider, day, chosen>> /\ client' = c
  BY DEF changeClient
<1>2. CASE c # client /\ chosen # <<>>
  <2>1. loadFor(day', chosen', client', choice.at)
    BY <1>1, <1>2 DEF changeClient
  <2>2. mode = "named" => day' \in Day
    BY <1>1 DEF PanelInv, ModesApart
  <2> HIDE DEF loadFor
  <2> QED BY <1>1, <2>1, <2>2, Loads
<1>3. CASE ~(c # client /\ chosen # <<>>)
  <2>1. UNCHANGED <<list, openDays, typed, choice, latest, questions>>
    BY <1>3 DEF changeClient
  <2>2. CASE c = client
    BY <1>1, <2>1, <2>2, ScreenKept
  <2>3. CASE chosen = <<>>
    <3>1. list = Nothing /\ openDays = NoDays /\ \A q \in questions : q.id = latest => q.kind = "compose"
      BY <2>3 DEF PanelInv, NothingIsAskedOfNothing
    <3>2. QuestionsAreNumbered' /\ LatestIsOnScreen' /\ TimesAreOutOnce'
      BY <1>1, <2>1, <3>1
      DEF PanelInv, QuestionsAreNumbered, IsQuestion, LatestIsOnScreen, TimesAreOutOnce
    <3>3. NothingIsAskedOfNothing' /\ ModesApart'
      BY <1>1, <2>1, <3>1 DEF PanelInv, NothingIsAskedOfNothing, ModesApart
    <3>4. TheScreenIsOneAnswer'
      BY <1>1, <2>1, <3>1 DEF PanelInv, TheScreenIsOneAnswer
    <3> QED BY <3>2, <3>3, <3>4 DEF PanelInv
  <2> QED BY <1>3, <2>2, <2>3
<1> QED BY <1>2, <1>3

LEMMA TapsRow ==
  ASSUME PanelInv, PanelConstants, NEW row \in list.rows, tapRow(row)
  PROVE  PanelInv'
<1>1. /\ UNCHANGED <<mode, provider, chosen, client, list, openDays, typed, latest, questions>>
      /\ \A q \in questions : q.kind = "compose"
      /\ choice' = Row(row.provider, row.at)
      /\ day' = IF mode = "walkin" /\ DayOf(row.at) # list.of.day THEN DayOf(row.at) ELSE day
  BY DEF tapRow, Listed
<1>2. QuestionsAreNumbered' /\ LatestIsOnScreen' /\ TimesAreOutOnce'
  BY <1>1 DEF PanelInv, QuestionsAreNumbered, IsQuestion, LatestIsOnScreen, TimesAreOutOnce
<1>3. NothingIsAskedOfNothing' /\ ModesApart'
  BY <1>1 DEF PanelInv, NothingIsAskedOfNothing, ModesApart
<1>4. choice' \in {Row(x.provider, x.at) : x \in list'.rows}
  BY <1>1
<1>5. day' = day \/ (mode = "walkin" /\ day' \in {DayOf(x.at) : x \in list.rows})
  BY <1>1
<1>6. openDays' # NoDays => openDays'.of = OnScreen'
  <2>1. CASE mode = "walkin"
    BY <1>1, <2>1 DEF PanelInv, ModesApart
  <2>2. CASE mode # "walkin"
    BY <1>1, <2>2 DEF PanelInv, TheScreenIsOneAnswer, OnScreen
  <2> QED BY <2>1, <2>2
<1>7. list' # Nothing =>
       /\ list'.of.visit = chosen' /\ list'.of.holder = client'
       /\ list'.of.day = day' \/ (mode' = "walkin" /\ day' \in {DayOf(x.at) : x \in list'.rows})
  BY <1>1, <1>5 DEF PanelInv, TheScreenIsOneAnswer
<1>8. TheScreenIsOneAnswer'
  BY <1>4, <1>6, <1>7 DEF TheScreenIsOneAnswer
<1> QED BY <1>2, <1>3, <1>8 DEF PanelInv

LEMMA UsesIt ==
  ASSUME PanelInv, PanelConstants, NEW m, useIt(m)
  PROVE  PanelInv'
<1> DEFINE new == [id |-> latest, kind |-> "compose", asked |-> Asked(day, chosen, client),
                   anchor |-> day * DayLength + m]
<1>1. /\ UNCHANGED <<mode, provider, day, chosen, client, list, openDays, typed, choice, latest>>
      /\ mode = "named" /\ chosen # <<>> /\ questions' = {new}
  BY DEF useIt
<1>2. IsQuestion(new) /\ new.id = latest /\ new.kind = "compose" /\ latest \in Nat
  BY DEF IsQuestion, PanelInv, QuestionsAreNumbered
<1> HIDE DEF new
<1>3. QuestionsAreNumbered' /\ LatestIsOnScreen' /\ TimesAreOutOnce'
  BY <1>1, <1>2 DEF QuestionsAreNumbered, IsQuestion, LatestIsOnScreen, TimesAreOutOnce
<1>4. NothingIsAskedOfNothing' /\ ModesApart'
  BY <1>1, <1>2 DEF PanelInv, NothingIsAskedOfNothing, ModesApart
<1>5. TheScreenIsOneAnswer'
  BY <1>1 DEF PanelInv, TheScreenIsOneAnswer, OnScreen
<1> QED BY <1>3, <1>4, <1>5 DEF PanelInv

\* An answer nobody waits for any more.
LEMMA QuestionDropped ==
  ASSUME PanelInv, NEW q \in questions, questions' = questions \ {q},
         UNCHANGED <<mode, provider, day, chosen, client, list, openDays, typed, choice, latest>>
  PROVE  PanelInv'
<1>1. QuestionsAreNumbered' /\ LatestIsOnScreen' /\ TimesAreOutOnce'
  BY DEF PanelInv, QuestionsAreNumbered, IsQuestion, LatestIsOnScreen, TimesAreOutOnce, OnScreen
<1>2. NothingIsAskedOfNothing' /\ ModesApart'
  BY DEF PanelInv, NothingIsAskedOfNothing, ModesApart
<1>3. TheScreenIsOneAnswer'
  BY DEF PanelInv, TheScreenIsOneAnswer, OnScreen
<1> QED BY <1>1, <1>2, <1>3 DEF PanelInv

LEMMA LandsTimes ==
  ASSUME PanelInv, PanelConstants, NEW q \in questions, landTimes(q)
  PROVE  PanelInv'
<1>1. /\ UNCHANGED <<mode, provider, day, chosen, client, openDays, typed, latest>>
      /\ q.kind = "times" /\ Landed(q)
  BY DEF landTimes
<1>2. CASE ~Current(q)
  <2>1. questions' = questions \ {q} /\ UNCHANGED <<list, choice>>
    BY <1>1, <1>2 DEF Landed
  <2> QED BY <1>1, <2>1, QuestionDropped
<1>3. CASE Current(q)
  <2> DEFINE rows == answerTo(q.asked)
             more == [q EXCEPT !.kind = "days"]
  <2>1. /\ list' = [of |-> q.asked, rows |-> rows]
        /\ choice' = IF mode = "named" THEN preselect(rows, q)
                     ELSE IF reselect(rows, q.anchor) # None THEN reselect(rows, q.anchor) ELSE choice
        /\ questions' = (questions \ {q}) \cup answerWhenNot(q, rows)
    BY <1>1, <1>3 DEF Landed
  <2>2. /\ q.id = latest /\ q.asked = OnScreen /\ IsQuestion(q) /\ latest \in Nat /\ chosen # <<>>
        /\ \A x \in questions : x.id = latest /\ x.kind = "times" => x = q
        /\ mode # "named" => choice = None
    BY <1>1, <1>3 DEF Current, PanelInv, LatestIsOnScreen, QuestionsAreNumbered, TimesAreOutOnce,
                      NothingIsAskedOfNothing
  <2>3. /\ IsQuestion(more) /\ more.id = latest /\ more.kind = "days" /\ more.asked = OnScreen
    BY <2>2 DEF IsQuestion
  <2>4. answerWhenNot(q, rows) = {} \/ (mode # "walkin" /\ answerWhenNot(q, rows) = {more})
    BY DEF answerWhenNot
  <2>5. OnScreen' = OnScreen
    BY <1>1 DEF OnScreen
  <2>6. q.asked.day = day /\ q.asked.visit = chosen /\ q.asked.holder = client
    BY <2>2 DEF OnScreen, Asked
  <2>7. choice' # None =>
          \/ \E row \in rows : choice' = Row(row.provider, row.at)
          \/ mode = "named" /\ choice'.at = GapAt /\ day = InitialDay
    <3>1. CASE mode = "named"
      <4>1. q.asked.day \in Day
        BY <2>6, <3>1 DEF PanelInv, ModesApart
      <4>2. choice' = preselect(rows, q)
        BY <2>1, <3>1
      <4> QED BY <2>6, <3>1, <4>1, <4>2, ColumnChoice
    <3>2. CASE mode # "named"
      <4>1. mode \in {"anyone", "walkin"}
        BY <3>2 DEF PanelInv, ModesApart
      <4>2. choice' # None => choice' = reselect(rows, q.anchor) /\ reselect(rows, q.anchor) # None
        BY <2>1, <2>2, <3>2
      <4> QED BY <4>1, <4>2, AnswerChoice
    <3> QED BY <3>1, <3>2
  <2> HIDE DEF rows, more
  <2>8. questions' \ {more} \subseteq questions \ {q} /\ (more \in questions' => mode # "walkin" \/ more \in questions)
    BY <2>1, <2>4
  <2>9. QuestionsAreNumbered' /\ LatestIsOnScreen' /\ TimesAreOutOnce'
    <3>1. \A x \in questions' : x \in questions \ {q} \/ x = more
      BY <2>8
    <3>2. \A x \in questions' : x.id = latest => x.kind # "times"
      BY <2>2, <2>3, <3>1
    <3> QED BY <1>1, <2>2, <2>3, <2>5, <3>1, <3>2
        DEF PanelInv, QuestionsAreNumbered, IsQuestion, LatestIsOnScreen, TimesAreOutOnce
  <2>10. NothingIsAskedOfNothing' /\ ModesApart'
    BY <1>1, <2>2, <2>3, <2>8 DEF PanelInv, NothingIsAskedOfNothing, ModesApart
  <2>11. TheScreenIsOneAnswer'
    <3>1. list'.of.visit = chosen' /\ list'.of.holder = client' /\ list'.of.day = day'
      BY <1>1, <2>1, <2>6
    <3>2. list'.rows = rows
      BY <2>1
    <3>3. openDays' # NoDays => openDays'.of = OnScreen'
      BY <1>1, <2>5 DEF PanelInv, TheScreenIsOneAnswer
    <3>4. choice' # None =>
            \/ choice' \in {Row(row.provider, row.at) : row \in list'.rows}
            \/ mode' = "named" /\ (choice'.at = GapAt /\ day' = InitialDay)
      BY <1>1, <2>7, <3>2
    <3> QED BY <3>1, <3>3, <3>4 DEF TheScreenIsOneAnswer
  <2> QED BY <2>9, <2>10, <2>11 DEF PanelInv
<1> QED BY <1>2, <1>3

LEMMA LandsDays ==
  ASSUME PanelInv, PanelConstants, NEW q \in questions, landDays(q)
  PROVE  PanelInv'
<1>1. /\ UNCHANGED <<mode, provider, day, chosen, client, list, typed, choice, latest>>
      /\ q.kind = "days" /\ questions' = questions \ {q}
      /\ openDays' = IF Current(q) THEN [of |-> q.asked, days |-> staffOpenDays(q.asked)] ELSE openDays
  BY DEF landDays
<1>2. CASE ~Current(q)
  BY <1>1, <1>2, QuestionDropped
<1>3. CASE Current(q)
  <2>1. /\ q.asked = OnScreen /\ OnScreen' = OnScreen /\ chosen # <<>> /\ mode # "walkin"
    BY <1>1, <1>3 DEF Current, PanelInv, LatestIsOnScreen, NothingIsAskedOfNothing, ModesApart, OnScreen
  <2>2. openDays'.of = OnScreen'
    BY <1>1, <1>3, <2>1
  <2>3. QuestionsAreNumbered' /\ LatestIsOnScreen' /\ TimesAreOutOnce'
    BY <1>1, <2>1
    DEF PanelInv, QuestionsAreNumbered, IsQuestion, LatestIsOnScreen, TimesAreOutOnce
  <2>4. NothingIsAskedOfNothing' /\ ModesApart'
    BY <1>1, <2>1 DEF PanelInv, NothingIsAskedOfNothing, ModesApart
  <2>5. TheScreenIsOneAnswer'
    BY <1>1, <2>2 DEF PanelInv, TheScreenIsOneAnswer
  <2> QED BY <2>3, <2>4, <2>5 DEF PanelInv
<1> QED BY <1>2, <1>3

\* A composed instant is chosen at once, whatever was asked since.
LEMMA LandsTyped ==
  ASSUME PanelInv, PanelConstants, NEW q \in questions, landTyped(q)
  PROVE  PanelInv'
<1>1. /\ UNCHANGED <<mode, provider, day, chosen, client, list, openDays, latest>>
      /\ q.kind = "compose" /\ questions' = questions \ {q}
      /\ typed' = {q.anchor} /\ choice' = Row(provider, q.anchor)
  BY DEF landTyped
<1>2. mode = "named"
  BY <1>1 DEF PanelInv, ModesApart
<1>3. QuestionsAreNumbered' /\ LatestIsOnScreen' /\ TimesAreOutOnce'
  BY <1>1, <1>2
  DEF PanelInv, QuestionsAreNumbered, IsQuestion, LatestIsOnScreen, TimesAreOutOnce, OnScreen
<1>4. NothingIsAskedOfNothing' /\ ModesApart'
  BY <1>1, <1>2 DEF PanelInv, NothingIsAskedOfNothing, ModesApart
<1>5. choice'.at = q.anchor
  BY <1>1 DEF Row
<1>6. TheScreenIsOneAnswer'
  BY <1>1, <1>2, <1>5 DEF PanelInv, TheScreenIsOneAnswer, OnScreen
<1> QED BY <1>3, <1>4, <1>6 DEF PanelInv

LEMMA PanelStep ==
  ASSUME PanelInv, PanelConstants, [PanelNext]_panelVars
  PROVE  PanelInv'
<1>1. ASSUME NEW s \in Catalogue, toggleService(s) PROVE PanelInv'
  <2>1. loadFor(day', chosen', client', None.at) /\ UNCHANGED <<mode, provider, day>>
    BY <1>1 DEF toggleService
  <2>2. mode = "named" => day' \in Day
    BY <2>1 DEF PanelInv, ModesApart
  <2> HIDE DEF loadFor
  <2> QED BY <2>1, <2>2, Loads
<1>2. ASSUME NEW d \in Day, changeDay(d) PROVE PanelInv'
  <2>1. loadFor(day', chosen', client', None.at) /\ UNCHANGED <<mode, provider>> /\ day' \in Day
    BY <1>2 DEF changeDay
  <2> HIDE DEF loadFor
  <2> QED BY <2>1, Loads
<1>3. ASSUME (\E b \in {"book", "instead"}, o \in BOOLEAN : submit(b, o)) \/ rescue \/ otherDesk
             \/ UNCHANGED panelVars
      PROVE  PanelInv'
  BY <1>3, ScreenKept DEF submit, rescue, otherDesk, panelVars
<1>4. ASSUME bookAsStaff PROVE PanelInv'
  BY <1>4, ScreenKept DEF bookAsStaff
<1> QED BY <1>1, <1>2, <1>3, <1>4, ChangesClient, TapsRow, UsesIt, LandsTimes, LandsDays, LandsTyped
    DEF PanelNext

LEMMA PanelHolds ==
  ASSUME PanelConstants
  PROVE  PanelSpec => []PanelInv
<1>1. PanelInit => PanelInv
  <2> SUFFICES ASSUME PanelInit PROVE PanelInv
    OBVIOUS
  <2>1. latest = 0 /\ questions = {} /\ openDays = NoDays /\ choice = None /\ mode \in Mode /\ day = InitialDay
    BY DEF PanelInit
  <2>2. QuestionsAreNumbered /\ LatestIsOnScreen /\ TimesAreOutOnce /\ ModesApart
    BY <2>1 DEF QuestionsAreNumbered, LatestIsOnScreen, TimesAreOutOnce, ModesApart, PanelConstants
  <2>3. chosen = <<>> => list = Nothing
    BY DEF PanelInit
  <2>4. NothingIsAskedOfNothing
    BY <2>1, <2>3 DEF NothingIsAskedOfNothing
  <2>5. list # Nothing => list.of = Asked(day, chosen, client)
    BY DEF PanelInit
  <2>6. list # Nothing => list.of.visit = chosen /\ list.of.holder = client /\ list.of.day = day
    BY <2>5 DEF Asked
  <2>7. TheScreenIsOneAnswer
    BY <2>1, <2>6 DEF TheScreenIsOneAnswer
  <2> QED BY <2>2, <2>4, <2>7 DEF PanelInv
<1>2. PanelInv /\ [PanelNext]_panelVars => PanelInv'
  BY PanelStep
<1> QED
  BY <1>1, <1>2, PTL DEF PanelSpec

\* The booking panel, for any book, stylists, days and order in which answers
\* land: the times and days on the screen were asked for the day, the services
\* and the client it shows, and what the form will post is one of those times,
\* the gap it was opened from or a time typed (booking-panel.tsx, A-054).
THEOREM TheScreenIsConsistent ==
  ASSUME PanelConstants
  PROVE  PanelSpec => []TheScreenIsOneAnswer
<1>1. PanelInv => TheScreenIsOneAnswer
  BY DEF PanelInv
<1> QED
  BY <1>1, PanelHolds, PTL

-----------------------------------------------------------------------------
(* The panel's search for somebody else.                                   *)

\* The times on the screen, in the questions and in the form are instants, the
\* visit is a list of services, and the book is a list of rows in time: what
\* the search compares are numbers.
ScreenInTime ==
  /\ chosen \in Seq(Service) /\ day \in Int /\ typed \subseteq Int
  /\ \A row \in list.rows : row.at \in Int
  /\ \A q \in questions : q.asked.day \in Int /\ q.anchor \in Int
IsForm(q) ==
  /\ q = [stage |-> q.stage, visit |-> q.visit, client |-> q.client, isOverride |-> q.isOverride, row |-> q.row]
  /\ q.visit \in Seq(Service) /\ q.row.at \in Int
PostedInTime == posted = NoForm \/ IsForm(posted)
PanelInTime == ScreenInTime /\ PostedInTime /\ BookInTime(book)

\* What is chosen is an instant: a row's, the gap's, or one typed.
LEMMA ChoiceInTime ==
  ASSUME PanelConstants, PanelInv, ScreenInTime
  PROVE  choice.at \in Int
<1>1. CASE choice = None
  BY <1>1 DEF None
<1>2. CASE choice # None
  <2>1. \/ \E row \in list.rows : choice = Row(row.provider, row.at)
        \/ choice.at \in typed \/ choice.at = GapAt
    BY <1>2 DEF PanelInv, TheScreenIsOneAnswer
  <2>2. ASSUME NEW row \in list.rows, choice = Row(row.provider, row.at) PROVE choice.at \in Int
    BY <2>2 DEF Row, ScreenInTime
  <2>3. choice.at \in typed \/ choice.at = GapAt => choice.at \in Int
    BY DEF ScreenInTime, PanelConstants
  <2> QED BY <2>1, <2>2, <2>3
<1> QED BY <1>1, <1>2

LEMMA AnswerInTime ==
  ASSUME PanelConstants, mode \in {"named", "anyone", "walkin"}, NEW ask, ask.day \in Int
  PROVE  \A row \in answerTo(ask) : row.at \in Int
<1>0. OffersConstants
  BY DEF PanelConstants
<1>1. \A row \in anyProviderTimes(book, ask.visit, ask.day, ask.holder) : row.at \in Int
  BY <1>0, OffersInTime
<1>2. ASSUME NEW d \in Int, NEW row \in Columns(book, ask.visit, d, ask.holder) PROVE row.at \in Int
  BY <1>0, OffersInTime
<1>3. CASE mode = "named"
  <2>1. ASSUME NEW p, NEW row \in computeDaySlots(book, p, ask.visit, ask.day, ask.holder)
        PROVE  row.at \in Int
    BY <1>0, ColumnRows, MarksAreInts
  <2> QED BY <1>3, <2>1 DEF answerTo
<1>4. CASE mode = "anyone"
  BY <1>1, <1>4 DEF answerTo
<1>5. CASE mode = "walkin"
  <2> DEFINE today == Columns(book, ask.visit, ask.day, ask.holder)
             later == {d \in Day : /\ d \in ask.day + 1 .. ask.day + DaysAhead
                                   /\ Offered(Columns(book, ask.visit, d, ask.holder)) # {}}
             next == Columns(book, ask.visit, Min(later), ask.holder)
  <2>1. ASSUME NEW rows PROVE Soonest(rows) \subseteq rows /\ Offered(rows) \subseteq rows
    BY DEF Soonest, Offered
  <2>2. ASSUME later # {} PROVE Min(later) \in Int
    <3>1. later \subseteq Nat
      BY DEF Day
    <3>2. Min(later) \in later
      <4> HIDE DEF later
      <4> QED BY <2>2, <3>1, LeastIsOne
    <3> QED BY <3>1, <3>2, \A x \in Nat : x \in Int, Zenon
  <2>3. answerTo(ask) = IF Offered(today) # {} THEN Soonest(Offered(today))
                        ELSE Soonest(today) \cup IF later = {} THEN {} ELSE Soonest(Offered(next))
    BY <1>5 DEF answerTo, walkInAnswer
  <2>4. (\A row \in today : row.at \in Int) /\ (later # {} => \A row \in next : row.at \in Int)
    <3> HIDE DEF later
    <3> QED BY <1>2, <2>2
  <2> HIDE DEF today, later, next
  <2> QED BY <2>1, <2>3, <2>4
<1> QED BY <1>3, <1>4, <1>5

\* What leaves the form and the book alone.
LEMMA ScreenMoves ==
  ASSUME PanelInTime, ScreenInTime', UNCHANGED <<posted, book>>
  PROVE  PanelInTime'
BY DEF PanelInTime, PostedInTime, IsForm

LEMMA LoadInTime ==
  ASSUME PanelInTime, chosen' \in Seq(Service), day' \in Int, NEW anchor \in Int,
         loadFor(day', chosen', client', anchor), UNCHANGED <<posted, book>>
  PROVE  PanelInTime'
<1>1. list'.rows = {} /\ typed' = {}
  BY DEF loadFor, Nothing
<1>2. ASSUME NEW q \in questions' PROVE q.asked.day \in Int /\ q.anchor \in Int
  <2> DEFINE new == [id |-> latest + 1, kind |-> "times", asked |-> Asked(day', chosen', client'), anchor |-> anchor]
  <2>1. q \in questions \/ q = new
    BY DEF loadFor
  <2>2. new.asked.day = day' /\ new.anchor = anchor
    BY DEF Asked
  <2> QED BY <2>1, <2>2 DEF PanelInTime, ScreenInTime
<1>3. ScreenInTime'
  BY <1>1, <1>2 DEF ScreenInTime
<1> QED BY <1>3, ScreenMoves

LEMMA TapsInTime ==
  ASSUME PanelConstants, PanelInv, PanelInTime,
         \/ \E s \in Catalogue : toggleService(s)
         \/ \E d \in Day : changeDay(d)
         \/ \E c \in Client \cup {NoClient} : changeClient(c)
         \/ \E row \in list.rows : tapRow(row)
         \/ \E m \in 0 .. DayLength - 1 : useIt(m)
  PROVE  PanelInTime'
<1>0. /\ ScreenInTime /\ choice.at \in Int /\ None.at \in Int
      /\ DayLength \in Nat \ {0}
  BY ChoiceInTime DEF PanelInTime, None, PanelConstants, OffersConstants
<1>1. ASSUME NEW s \in Catalogue, toggleService(s) PROVE PanelInTime'
  <2>1. /\ chosen' = toggled(chosen, s) /\ day' = day /\ client' = client
        /\ loadFor(day', chosen', client', None.at) /\ UNCHANGED <<posted, book>>
    BY <1>1 DEF toggleService
  <2>2. chosen' \in Seq(Service)
    BY <1>0, <2>1, ToggledIsAVisit DEF Catalogue, ScreenInTime
  <2> QED BY <1>0, <2>1, <2>2, LoadInTime DEF ScreenInTime
<1>2. ASSUME NEW d \in Day, changeDay(d) PROVE PanelInTime'
  <2>1. /\ chosen' = chosen /\ day' \in Int
        /\ loadFor(day', chosen', client', None.at) /\ UNCHANGED <<posted, book>>
    BY <1>2 DEF changeDay, Day
  <2> QED BY <1>0, <2>1, LoadInTime DEF ScreenInTime
<1>3. ASSUME NEW c, changeClient(c) PROVE PanelInTime'
  <2>1. chosen' = chosen /\ day' = day /\ UNCHANGED <<posted, book>>
    BY <1>3 DEF changeClient
  <2>2. CASE c # client /\ chosen # <<>>
    <3>1. loadFor(day', chosen', client', choice.at)
      BY <1>3, <2>2 DEF changeClient
    <3> QED BY <1>0, <2>1, <3>1, LoadInTime DEF ScreenInTime
  <2>3. CASE ~(c # client /\ chosen # <<>>)
    <3>1. UNCHANGED <<list, typed, questions>>
      BY <1>3, <2>3 DEF changeClient
    <3>2. ScreenInTime'
      BY <1>0, <2>1, <3>1 DEF ScreenInTime
    <3> QED BY <2>1, <3>2, ScreenMoves
  <2> QED BY <2>2, <2>3
<1>4. ASSUME NEW row \in list.rows, tapRow(row) PROVE PanelInTime'
  <2>1. row.at \in Int /\ DayOf(row.at) \in Int
    BY <1>0 DEF ScreenInTime, DayOf
  <2>2. /\ day' \in {day, DayOf(row.at)}
        /\ UNCHANGED <<chosen, list, typed, questions, posted, book>>
    BY <1>4 DEF tapRow
  <2>3. ScreenInTime'
    BY <1>0, <2>1, <2>2 DEF ScreenInTime
  <2> QED BY <2>2, <2>3, ScreenMoves
<1>5. ASSUME NEW m \in 0 .. DayLength - 1, useIt(m) PROVE PanelInTime'
  <2> DEFINE new == [id |-> latest, kind |-> "compose", asked |-> Asked(day, chosen, client),
                     anchor |-> day * DayLength + m]
  <2>1. questions' = {new} /\ UNCHANGED <<day, chosen, list, typed, posted, book>>
    BY <1>5 DEF useIt
  <2>2. day \in Int /\ day * DayLength \in Int
    BY <1>0 DEF ScreenInTime
  <2>3. new.asked.day = day /\ new.anchor \in Int
    BY <1>0, <2>2 DEF Asked
  <2> HIDE DEF new
  <2>4. ScreenInTime'
    BY <1>0, <2>1, <2>2, <2>3 DEF ScreenInTime
  <2> QED BY <2>1, <2>4, ScreenMoves
<1> QED BY <1>1, <1>2, <1>3, <1>4, <1>5

LEMMA LandingsInTime ==
  ASSUME PanelConstants, PanelInv, PanelInTime, NEW q \in questions,
         landTimes(q) \/ landDays(q) \/ landTyped(q)
  PROVE  PanelInTime'
<1>0. ScreenInTime /\ q.asked.day \in Int /\ q.anchor \in Int
  BY DEF PanelInTime, ScreenInTime
<1>1. CASE landTimes(q)
  <2>1. UNCHANGED <<chosen, day, typed, posted, book>>
    BY <1>1 DEF landTimes
  <2>2. CASE ~Current(q)
    <3>1. questions' \subseteq questions /\ list' = list
      BY <1>1, <2>2 DEF landTimes, Landed
    <3>2. ScreenInTime'
      BY <1>0, <2>1, <3>1 DEF ScreenInTime
    <3> QED BY <2>1, <3>2, ScreenMoves
  <2>3. CASE Current(q)
    <3>1. /\ list' = [of |-> q.asked, rows |-> answerTo(q.asked)]
          /\ \E rows : questions' = (questions \ {q}) \cup answerWhenNot(q, rows)
      BY <1>1, <2>3 DEF landTimes, Landed
    <3>2. list'.rows = answerTo(q.asked)
      BY <3>1
    <3>3. \A row \in list'.rows : row.at \in Int
      BY <1>0, <3>2, AnswerInTime DEF PanelInv, ModesApart
    <3>4. ASSUME NEW x \in questions' PROVE x.asked.day \in Int /\ x.anchor \in Int
      <4> DEFINE days == [q EXCEPT !.kind = "days"]
      <4>1. x \in questions \/ x = days
        BY <3>1 DEF answerWhenNot
      <4>2. days.asked = q.asked /\ days.anchor = q.anchor
        BY DEF PanelInv, QuestionsAreNumbered, IsQuestion
      <4> QED BY <1>0, <4>1, <4>2 DEF ScreenInTime
    <3>5. ScreenInTime'
      BY <1>0, <2>1, <3>3, <3>4 DEF ScreenInTime
    <3> QED BY <2>1, <3>5, ScreenMoves
  <2> QED BY <2>2, <2>3
<1>2. CASE landDays(q)
  <2>1. questions' \subseteq questions /\ UNCHANGED <<chosen, day, typed, list, posted, book>>
    BY <1>2 DEF landDays
  <2>2. ScreenInTime'
    BY <1>0, <2>1 DEF ScreenInTime
  <2> QED BY <2>1, <2>2, ScreenMoves
<1>3. CASE landTyped(q)
  <2>1. /\ questions' \subseteq questions /\ typed' = {q.anchor}
        /\ UNCHANGED <<chosen, day, list, posted, book>>
    BY <1>3 DEF landTyped
  <2>2. ScreenInTime'
    BY <1>0, <2>1 DEF ScreenInTime
  <2> QED BY <2>1, <2>2, ScreenMoves
<1> QED BY <1>1, <1>2, <1>3

\* What leaves the screen alone.
LEMMA ServerMoves ==
  ASSUME PanelInTime, UNCHANGED <<chosen, day, typed, list, questions>>, PostedInTime', BookInTime(book')
  PROVE  PanelInTime'
BY DEF PanelInTime, ScreenInTime

LEMMA FormsInTime ==
  ASSUME PanelConstants, PanelInv, PanelInTime,
         (\E b \in {"book", "instead"}, o \in BOOLEAN : submit(b, o)) \/ bookAsStaff \/ rescue
  PROVE  PanelInTime'
<1>0. /\ ScreenInTime /\ PostedInTime /\ BookInTime(book) /\ choice.at \in Int
      /\ OffersConstants /\ NoForm.stage = "none"
  BY ChoiceInTime DEF PanelInTime, PanelConstants, NoForm
<1>1. UNCHANGED <<chosen, day, typed, list, questions>>
  BY DEF submit, bookAsStaff, rescue
<1>2. ASSUME NEW b \in {"book", "instead"}, NEW o \in BOOLEAN, submit(b, o) PROVE PanelInTime'
  <2> DEFINE to == IF b = "book" THEN choice ELSE Row(state.fallback.provider, choice.at)
             form == [stage |-> "write", visit |-> chosen, client |-> client, isOverride |-> o, row |-> to]
  <2>1. posted' = form /\ book' = book
    BY <1>2 DEF submit
  <2>2. to.at = choice.at
    BY DEF Row
  <2> HIDE DEF to
  <2>3. IsForm(form)
    BY <1>0, <2>2 DEF IsForm, ScreenInTime
  <2> HIDE DEF form
  <2>4. PostedInTime'
    BY <2>1, <2>3 DEF PostedInTime, IsForm
  <2> QED BY <1>0, <1>1, <2>1, <2>4, ServerMoves
<1>3. CASE rescue
  <2>1. posted' = NoForm /\ book' = book
    BY <1>3 DEF rescue, Answered
  <2>2. PostedInTime'
    BY <2>1 DEF PostedInTime, NoForm
  <2> QED BY <1>0, <1>1, <2>1, <2>2, ServerMoves
<1>4. CASE bookAsStaff
  <2>1. posted # NoForm /\ IsForm(posted)
    BY <1>0, <1>4 DEF bookAsStaff, PostedInTime
  <2>2. PostedInTime'
    <3>1. posted' = NoForm \/ posted' = [posted EXCEPT !.stage = "rescue"]
      BY <1>4 DEF bookAsStaff, Answered
    <3>2. CASE posted' = NoForm
      BY <3>2 DEF PostedInTime, NoForm
    <3>3. CASE posted' = [posted EXCEPT !.stage = "rescue"]
      <4> DEFINE form == [posted EXCEPT !.stage = "rescue"]
      <4>1. IsForm(form)
        BY <2>1 DEF IsForm
      <4> HIDE DEF form
      <4>2. IsForm(posted')
        BY <3>3, <4>1 DEF form
      <4> QED BY <4>2 DEF PostedInTime, IsForm
    <3> QED BY <3>1, <3>2, <3>3
  <2>3. BookInTime(book')
    <3>1. \/ book' = book
          \/ /\ posted.row.provider \in providersForVisit(posted.visit)
             /\ book' = written(book, posted.row.provider, posted.visit, posted.row.at, posted.client,
                                posted.isOverride, <<>>)
      BY <1>4 DEF bookAsStaff
    <3> QED BY <1>0, <2>1, <3>1, WrittenInTime DEF IsForm
  <2> QED BY <1>1, <2>2, <2>3, ServerMoves
<1> QED BY <1>2, <1>3, <1>4

LEMMA DesksInTime ==
  ASSUME PanelConstants, PanelInTime, otherDesk
  PROVE  PanelInTime'
<1>0. /\ ScreenInTime /\ PostedInTime /\ BookInTime(book) /\ OffersConstants
  BY DEF PanelInTime, PanelConstants
<1>1. UNCHANGED <<chosen, day, typed, list, questions, posted>>
  BY DEF otherDesk
<1>2. BookInTime(book')
  <2>1. ASSUME NEW p \in Provider, NEW s \in Service, NEW c, NEW d \in Day,
               NEW row \in Offered(computeDaySlots(book, p, <<s>>, d, c)),
               book' = written(book, p, <<s>>, row.at, c, FALSE, <<>>)
        PROVE  BookInTime(book')
    <3>1. p \in providersForVisit(<<s>>) /\ row.at \in Marks(d) /\ d \in Int
      BY ColumnRows DEF Offered, Day
    <3>2. row.at \in Int
      BY <1>0, <3>1, MarksAreInts
    <3>3. <<s>> \in Seq(Service)
      OBVIOUS
    <3> QED BY <1>0, <2>1, <3>1, <3>2, <3>3, WrittenInTime
  <2>2. ASSUME NEW i \in DOMAIN book, book' = [book EXCEPT ![i].status = "cancelled"]
        PROVE  BookInTime(book')
    BY <1>0, <2>2, CancelledInTime
  <2> QED BY <2>1, <2>2 DEF otherDesk
<1>3. PostedInTime'
  BY <1>0, <1>1 DEF PostedInTime, IsForm
<1> QED BY <1>1, <1>2, <1>3, ServerMoves

LEMMA InTimeStep ==
  ASSUME PanelConstants, PanelInv, PanelInTime, [PanelNext]_panelVars
  PROVE  PanelInTime'
<1>1. CASE UNCHANGED panelVars
  <2>1. ScreenInTime' /\ UNCHANGED <<posted, book>>
    BY <1>1 DEF panelVars, PanelInTime, ScreenInTime
  <2> QED BY <2>1, ScreenMoves
<1>2. CASE PanelNext
  BY <1>2, TapsInTime, LandingsInTime, FormsInTime, DesksInTime DEF PanelNext
<1> QED BY <1>1, <1>2

\* The search after a lost race, for any stylists, services, days and book: the
\* desk is offered an override only if nobody else could have taken the same
\* client at the same time, or the stylist who had gone is back (A-071, A-083).
THEOREM TheRescueMissesNobody ==
  ASSUME PanelConstants
  PROVE  PanelSpec => RescueMissesNobody
<1>1. PanelInit => PanelInTime
  <2> SUFFICES ASSUME PanelInit PROVE PanelInTime
    OBVIOUS
  <2>1. /\ mode \in {"named", "anyone", "walkin"} /\ day = InitialDay /\ questions = {} /\ typed = {}
        /\ posted = NoForm /\ book = <<>> /\ chosen \in Prefilled
        /\ list = IF chosen = <<>> THEN Nothing
                  ELSE [of |-> Asked(day, chosen, client), rows |-> answerTo(Asked(day, chosen, client))]
    BY DEF PanelInit, PanelConstants, Prefilled
  <2>2. day \in Int
    BY <2>1 DEF PanelConstants, Day
  <2>3. chosen \in Seq(Service)
    <3>1. chosen = <<>> \/ \E x \in Service : chosen = <<x>>
      BY <2>1 DEF Prefilled
    <3>2. <<>> \in Seq(Service) /\ \A x \in Service : <<x>> \in Seq(Service)
      OBVIOUS
    <3> QED BY <3>1, <3>2
  <2>4. \A row \in list.rows : row.at \in Int
    <3>1. Asked(day, chosen, client).day \in Int
      BY <2>2 DEF Asked
    <3>2. \A row \in answerTo(Asked(day, chosen, client)) : row.at \in Int
      BY <2>1, <3>1, AnswerInTime
    <3>3. list.rows = {} \/ list.rows = answerTo(Asked(day, chosen, client))
      BY <2>1 DEF Nothing
    <3> QED BY <3>2, <3>3
  <2> QED BY <2>1, <2>2, <2>3, <2>4, EmptyInTime DEF PanelInTime, ScreenInTime, PostedInTime
<1>2. PanelInv /\ PanelInTime /\ [PanelNext]_panelVars => PanelInTime'
  BY InTimeStep
<1>3. PanelInTime /\ [PanelNext]_panelVars
        => [ posted.stage = "rescue" /\ state'.kind = "mayOverride" /\ posted' = NoForm =>
               NobodyElse(book, posted.visit, posted.row, posted.client) ]_panelVars
  <2> SUFFICES ASSUME PanelInTime, PanelNext, posted.stage = "rescue", state'.kind = "mayOverride",
                      posted' = NoForm
               PROVE  NobodyElse(book, posted.visit, posted.row, posted.client)
    BY DEF panelVars
  <2>1. posted # NoForm /\ posted' # posted
    BY DEF NoForm
  <2>2. rescue
    BY <2>1 DEF PanelNext, toggleService, changeDay, changeClient, tapRow, useIt, landTimes, landDays,
                landTyped, submit, bookAsStaff, otherDesk
  <2> DEFINE others == {row \in somebodyElse : row.provider # posted.row.provider}
  <2>3. others = {}
    <3>1. ASSUME NEW row, Answered("refused", Row(row.provider, row.at)) PROVE FALSE
      BY <3>1 DEF Answered
    <3> QED BY <2>2, <3>1 DEF rescue
  <2>4. OffersConstants /\ BookInTime(book)
    BY DEF PanelConstants, PanelInTime
  <2> QED BY <2>3, <2>4, NobodyElseIsMissed DEF somebodyElse
<1> QED
  BY <1>1, <1>2, <1>3, PanelHolds, PTL DEF PanelSpec, RescueMissesNobody
-----------------------------------------------------------------------------
(* The proposals and the moves of other systems.                           *)

Action == {"book", "status", "cancel", "move"}

\* What the four tools store, and what their summaries say.
BookArgs == [provider : Stylist, startAt : Starts]
StatusArgs == [visit : Visit, to : AppointmentStatus, from : AppointmentStatus]
CancelArgs == [visit : Visit, from : AppointmentStatus]
MoveArgs == [visit : Visit, startAt : Starts, provider : SUBSET Stylist]
Argument == BookArgs \cup StatusArgs \cup CancelArgs \cup MoveArgs

Summary ==
  BookArgs \cup [from : AppointmentStatus, to : AppointmentStatus]
  \cup [from : AppointmentStatus, late : AppointmentStatus]
  \cup [visit : Visit, from : Starts, startAt : Starts, with : Stylist, to : Stylist]

McpProposal ==
  [by : Person, action : Action, args : Argument, shown : Summary,
   expiresAt : Int, usedAt : Int \cup {Never}, outcome : {"none", "ok", "refused", "internal"}]

Claimed == [at : {"claimed"}, id : Nat]
Read == [at : {"read"}, id : Nat, saw : Int]
Settled == [at : {"settled"}, id : Nat, outcome : {"ok", "refused", "internal"}]

Viewed == [at : {"read"}, visit : Visit, saw : VisitRow]
Versioned == [at : {"has"}, visit : Visit, saw : VisitRow, version : Nat]
Locked == [at : {"locked"}, visit : Visit, saw : VisitRow, version : SUBSET Nat]

Write == [id : Nat, was : VisitRow \cup {NoVisit}, is : VisitRow, saw : Int]

Types ==
  /\ now \in Nat
  /\ visit \in [Visit -> VisitRow \cup {NoVisit}]
  /\ proposal \in Seq(McpProposal)
  /\ call \in [Commit -> {Idle} \cup Claimed \cup Read \cup Settled]
  /\ api \in {Idle} \cup Viewed \cup Versioned \cup Locked
  /\ landed \in Seq(Write)

\* The stored arguments are of the proposal's action, and the summary was made
\* of them.
Prepared(pr) ==
  /\ pr.action = "book" => pr.args \in BookArgs /\ pr.shown = pr.args
  /\ pr.action = "status" => pr.args \in StatusArgs /\ pr.shown.from = pr.args.from
  /\ pr.action = "cancel" => pr.args \in CancelArgs /\ pr.shown.from = pr.args.from
  /\ pr.action = "move" =>
       pr.args \in MoveArgs /\ pr.shown.startAt = pr.args.startAt /\ pr.args.provider \subseteq {pr.shown.to}

\* A proposal names a row of the book, which is never deleted.
AllPrepared ==
  \A id \in DOMAIN proposal :
    /\ Prepared(proposal[id])
    /\ proposal[id].action # "book" => proposal[id].args.visit \in Stored

Under(c) == call[c] # Idle
Wrote(id) == \E i \in DOMAIN landed : landed[i].id = id

\* Two calls are never under way for one proposal.
OneCall == \A c, d \in Commit : Under(c) /\ Under(d) /\ call[c].id = call[d].id => c = d

\* A proposal nobody claimed has no call, no write and no outcome.
Unused ==
  \A id \in DOMAIN proposal : proposal[id].usedAt = Never =>
    /\ proposal[id].outcome = "none" /\ ~Wrote(id)
    /\ \A c \in Commit : Under(c) => call[c].id # id

\* What a call knows of the book: nothing is written before it settles, an "ok"
\* is a write, a refusal is none, and "internal" may be either.
Knows(k, wrote) ==
  /\ wrote => k.at = "settled" /\ k.outcome # "refused"
  /\ k.at = "settled" /\ k.outcome = "ok" => wrote

\* A call knows that of its proposal, and the audit does not yet.
CallsKnow ==
  \A c \in Commit : Under(c) =>
    /\ call[c].id \in DOMAIN proposal /\ proposal[call[c].id].outcome = "none"
    /\ Knows(call[c], Wrote(call[c].id))

OutcomesAreTrue ==
  \A id \in DOMAIN proposal :
    /\ proposal[id].outcome = "ok" => Wrote(id)
    /\ proposal[id].outcome = "refused" => ~Wrote(id)

WrittenOnce ==
  /\ \A i \in DOMAIN landed : landed[i].id \in DOMAIN proposal
  /\ \A i, j \in DOMAIN landed : landed[i].id = landed[j].id => i = j

\* A row that has the version somebody read is the row she read.
Newer(saw, is) ==
  saw \in VisitRow /\ is \in VisitRow /\ saw.version <= is.version /\ (saw.version = is.version => saw = is)

\* While the API holds a row with a version to match, the row has it.
ApiKnows ==
  api # Idle =>
    /\ Newer(api.saw, visit[api.visit])
    /\ api.at = "locked" => \A n \in api.version : n = visit[api.visit].version

CallInv == OneCall /\ Unused /\ CallsKnow /\ OutcomesAreTrue /\ WrittenOnce
BookInv == ApiKnows /\ NothingUnseenIsReplaced
PInv == Types /\ AllPrepared /\ CallInv /\ DoneAsShown /\ BookInv

-----------------------------------------------------------------------------
\* What a write leaves of a row: the next version, and what its kind keeps.

LEMMA WrittenRow ==
  ASSUME NEW new \in VisitRow, NEW guard, NEW is \in Written(new, guard)
  PROVE  /\ is \in VisitRow /\ is.version = new.version + 1
         /\ is.status = new.status /\ is.provider = new.provider /\ is.startAt = new.startAt
BY DEF Written, VisitRow

LEMMA TransitionRow ==
  ASSUME NEW row \in VisitRow, NEW to \in AppointmentStatus, NEW is \in transitionAppointment(row, to)
  PROVE  /\ is \in VisitRow /\ is.version = row.version + 1
         /\ is.provider = row.provider /\ is.startAt = row.startAt
<1> DEFINE new == [row EXCEPT !.status = to]
<1>1. new \in VisitRow /\ new.version = row.version /\ new.provider = row.provider /\ new.startAt = row.startAt
  BY DEF VisitRow
<1> HIDE DEF new
<1>2. is \in Written(new, canTransition(row.status, to, Context(row)))
  BY DEF transitionAppointment, new
<1> QED BY <1>1, <1>2, WrittenRow

LEMMA CancelRow ==
  ASSUME NEW row \in VisitRow, NEW is \in cancelAppointment(row)
  PROVE  /\ is \in VisitRow /\ is.version = row.version + 1
         /\ is.provider = row.provider /\ is.startAt = row.startAt
<1>1. staffCancellationStatus(row.status, Context(row)) \in AppointmentStatus
  BY DEF staffCancellationStatus, AppointmentStatus
<1> QED BY <1>1, TransitionRow DEF cancelAppointment

LEMMA RescheduleRow ==
  ASSUME NEW row \in VisitRow, NEW v, NEW p \in Stylist, NEW t \in Starts,
         NEW is \in rescheduleAppointment(v, row, p, t)
  PROVE  /\ is \in VisitRow /\ is.version = row.version + 1
         /\ is.provider = p /\ is.startAt = t
<1> DEFINE new == [row EXCEPT !.startAt = t, !.provider = p]
<1>1. new \in VisitRow /\ new.version = row.version /\ new.provider = p /\ new.startAt = t
  BY DEF VisitRow
<1> HIDE DEF new
<1>2. PICK guard : is \in Written(new, guard)
  BY DEF rescheduleAppointment, new
<1> QED BY <1>1, <1>2, WrittenRow

LEMMA ReassignRow ==
  ASSUME NEW row \in VisitRow, NEW v, NEW p \in Stylist, NEW is \in reassignAppointment(v, row, p)
  PROVE  /\ is \in VisitRow /\ (is = row \/ is.version = row.version + 1)
         /\ is.provider = p /\ is.startAt = row.startAt
<1> DEFINE new == [row EXCEPT !.provider = p]
<1>1. new \in VisitRow /\ new.version = row.version /\ new.provider = p /\ new.startAt = row.startAt
  BY DEF VisitRow
<1> HIDE DEF new
<1>2. CASE row.status \in Active /\ p = row.provider
  BY <1>2 DEF reassignAppointment
<1>3. CASE ~(row.status \in Active /\ p = row.provider)
  <2>1. PICK guard : is \in Written(new, guard)
    BY <1>3 DEF reassignAppointment, new
  <2> QED BY <1>1, <2>1, WrittenRow
<1> QED BY <1>2, <1>3

LEMMA BookRow ==
  ASSUME NEW v, NEW p \in Stylist, NEW t \in Starts, NEW is \in bookAppointment(v, p, t)
  PROVE  is \in VisitRow /\ is.provider = p /\ is.startAt = t
BY DEF bookAppointment, VisitRow, AppointmentStatus

\* A row that was written is newer than whatever anybody read of it.
LEMMA NewerStill ==
  ASSUME NEW saw, NEW row, NEW is \in VisitRow, Newer(saw, row),
         is = row \/ is.version = row.version + 1
  PROVE  Newer(saw, is)
BY DEF Newer, VisitRow
-----------------------------------------------------------------------------
\* What a commit leaves.

LEMMA MoveRow ==
  ASSUME NEW row \in VisitRow, NEW v, NEW c, c.startAt \in Starts, c.provider \in SUBSET Stylist,
         NEW saw, NEW is \in commitMove(v, row, c, saw)
  PROVE  /\ is \in VisitRow /\ (is = row \/ is.version = row.version + 1)
         /\ row.startAt = saw => is.startAt = c.startAt
         /\ c.provider # {} => is.provider \in c.provider
<1>1. CASE c.provider = {}
  <2>1. row.provider \in Stylist /\ is \in rescheduleAppointment(v, row, row.provider, c.startAt)
    BY <1>1 DEF commitMove, VisitRow
  <2> QED BY <1>1, <2>1, RescheduleRow
<1>2. CASE c.provider # {}
  <2>1. PICK p \in c.provider :
          is \in IF saw = c.startAt THEN reassignAppointment(v, row, p)
                 ELSE rescheduleAppointment(v, row, p, c.startAt)
    BY <1>2 DEF commitMove
  <2>2. CASE saw = c.startAt
    BY <1>2, <2>1, <2>2, ReassignRow
  <2>3. CASE saw # c.startAt
    BY <1>2, <2>1, <2>3, RescheduleRow
  <2> QED BY <2>2, <2>3
<1> QED BY <1>1, <1>2

\* The sentence of DoneAsShown, about one write.
AsShown(pr, was, is, saw) ==
  /\ pr.action = "book" => is.startAt = pr.shown.startAt /\ is.provider = pr.shown.provider
  /\ pr.action = "move" /\ was.startAt = saw =>
       is.startAt = pr.shown.startAt /\ (pr.args.provider # {} => is.provider = pr.shown.to)
  /\ pr.action \in {"status", "cancel"} => was.status = pr.shown.from

LEMMA CommitRow ==
  ASSUME NEW pr, pr.action \in Action, Prepared(pr), NEW v \in Visit, NEW saw,
         pr.action # "book" => visit[v] \in VisitRow, NEW is \in commit(pr, v, saw)
  PROVE  /\ is \in VisitRow
         /\ pr.action # "book" => is = visit[v] \/ is.version = visit[v].version + 1
         /\ AsShown(pr, visit[v], is, saw)
<1>1. CASE pr.action = "book"
  <2>1. is \in bookAppointment(v, pr.args.provider, pr.args.startAt)
    BY <1>1 DEF commit
  <2> QED BY <1>1, <2>1, BookRow DEF Prepared, BookArgs, AsShown
<1>2. CASE pr.action = "status"
  <2>1. is \in commitStatus(visit[v], pr.args) /\ pr.args.to \in AppointmentStatus
    BY <1>2 DEF commit, Prepared, StatusArgs
  <2>2. is \in transitionAppointment(visit[v], pr.args.to) /\ visit[v].status = pr.args.from
    BY <2>1 DEF commitStatus
  <2> QED BY <1>2, <2>1, <2>2, TransitionRow DEF Prepared, AsShown
<1>3. CASE pr.action = "cancel"
  <2>1. is \in commitCancel(visit[v], pr.args)
    BY <1>3 DEF commit
  <2>2. is \in cancelAppointment(visit[v]) /\ visit[v].status = pr.args.from
    BY <2>1 DEF commitCancel
  <2> QED BY <1>3, <2>2, CancelRow DEF Prepared, AsShown
<1>4. CASE pr.action = "move"
  <2>1. is \in commitMove(v, visit[v], pr.args, saw)
    BY <1>4 DEF commit
  <2>2. pr.args.startAt \in Starts /\ pr.args.provider \in SUBSET Stylist
    BY <1>4 DEF Prepared, MoveArgs
  <2>3. /\ is \in VisitRow /\ (is = visit[v] \/ is.version = visit[v].version + 1)
        /\ visit[v].startAt = saw => is.startAt = pr.args.startAt
        /\ pr.args.provider # {} => is.provider \in pr.args.provider
    BY <1>4, <2>1, <2>2, MoveRow
  <2>4. pr.shown.startAt = pr.args.startAt /\ pr.args.provider \subseteq {pr.shown.to}
    BY <1>4 DEF Prepared
  <2>5. visit[v].startAt = saw =>
          is.startAt = pr.shown.startAt /\ (pr.args.provider # {} => is.provider = pr.shown.to)
    BY <2>3, <2>4
  <2>6. AsShown(pr, visit[v], is, saw)
    BY <1>4, <2>5 DEF AsShown
  <2> QED BY <1>4, <2>3, <2>6
<1> QED BY <1>1, <1>2, <1>3, <1>4 DEF Action
-----------------------------------------------------------------------------
\* What an action that leaves the calls or the book alone keeps.

LEMMA SameCalls ==
  ASSUME PInv, UNCHANGED <<proposal, call, landed>>
  PROVE  CallInv' /\ DoneAsShown'
BY DEF PInv, CallInv, OneCall, Unused, CallsKnow, Knows, OutcomesAreTrue, WrittenOnce, Under, Wrote, DoneAsShown

LEMMA SameBook ==
  ASSUME PInv, UNCHANGED <<visit, api, replaced>>
  PROVE  BookInv'
BY DEF PInv, BookInv, ApiKnows, NothingUnseenIsReplaced

LEMMA SamePrepared ==
  ASSUME PInv, proposal' = proposal, Stored \subseteq Stored'
  PROVE  AllPrepared'
BY DEF PInv, AllPrepared, Prepared

\* A row is written while the API does not hold it.
LEMMA RowIsWritten ==
  ASSUME PInv, NEW v \in Visit, Free(v), NEW is \in VisitRow,
         v \in Stored => is = visit[v] \/ is.version = visit[v].version + 1,
         visit' = [visit EXCEPT ![v] = is], UNCHANGED <<api, replaced>>
  PROVE  visit' \in [Visit -> VisitRow \cup {NoVisit}] /\ Stored \subseteq Stored' /\ BookInv'
<1>1. visit \in [Visit -> VisitRow \cup {NoVisit}] /\ ApiKnows /\ NothingUnseenIsReplaced
  BY DEF PInv, Types, BookInv
<1>2. visit' \in [Visit -> VisitRow \cup {NoVisit}] /\ Stored \subseteq Stored'
  BY <1>1, ProposalsAssumption DEF Stored
<1>3. NothingUnseenIsReplaced'
  BY <1>1 DEF NothingUnseenIsReplaced
<1>4. ApiKnows'
  <2> SUFFICES ASSUME api # Idle
               PROVE  /\ Newer(api.saw, visit'[api.visit])
                      /\ api.at = "locked" => \A n \in api.version : n = visit'[api.visit].version
    BY DEF ApiKnows
  <2>1. api.visit \in Visit
    BY DEF PInv, Types, Viewed, Versioned, Locked
  <2>2. /\ Newer(api.saw, visit[api.visit])
        /\ api.at = "locked" => \A n \in api.version : n = visit[api.visit].version
    BY <1>1 DEF ApiKnows
  <2>3. CASE api.visit = v
    <3>1. v \in Stored
      BY <2>2, <2>3, ProposalsAssumption DEF Newer, Stored
    <3>2. visit'[v] = is /\ api.at # "locked"
      BY <1>1, <2>3 DEF Free
    <3> QED BY <2>2, <2>3, <3>1, <3>2, NewerStill
  <2>4. CASE api.visit # v
    BY <1>1, <2>1, <2>2, <2>4
  <2> QED BY <2>3, <2>4
<1> QED BY <1>2, <1>3, <1>4 DEF BookInv
-----------------------------------------------------------------------------
\* The desk, the clock and the API: no proposal is touched.

LEMMA TickKeeps == PInv /\ Tick => PInv'
<1> SUFFICES ASSUME PInv, Tick PROVE PInv'
  OBVIOUS
<1> USE DEF Tick, Others
<1>1. Types'
  BY DEF PInv, Types
<1>2. AllPrepared'
  BY SamePrepared DEF Stored
<1> QED BY <1>1, <1>2, SameCalls, SameBook DEF PInv

LEMMA DeskKeeps == \A v \in Visit : PInv /\ DeskTaps(v) => PInv'
<1> SUFFICES ASSUME NEW v \in Visit, PInv, DeskTaps(v) PROVE PInv'
  OBVIOUS
<1>1. v \in Stored /\ Free(v) /\ UNCHANGED <<now, proposal, call, api, landed, replaced>>
  BY DEF DeskTaps, Others
<1>2. visit[v] \in VisitRow
  BY <1>1 DEF PInv, Types, Stored
<1>3. PICK row \in VisitRow : Puts(v, row) /\ (row = visit[v] \/ row.version = visit[v].version + 1)
  <2>1. CASE \E to \in AppointmentStatus : \E row \in transitionAppointment(visit[v], to) : Puts(v, row)
    BY <1>2, <2>1, TransitionRow
  <2>2. CASE \E p \in Stylist : \E row \in reassignAppointment(v, visit[v], p) : Puts(v, row)
    BY <1>2, <2>2, ReassignRow
  <2>3. CASE \E p \in Stylist, t \in Starts :
               \E row \in rescheduleAppointment(v, visit[v], p, t) : Puts(v, row)
    BY <1>2, <2>3, RescheduleRow
  <2> QED BY <2>1, <2>2, <2>3 DEF DeskTaps
<1>4. visit' = [visit EXCEPT ![v] = row]
  BY <1>3 DEF Puts
<1>5. visit' \in [Visit -> VisitRow \cup {NoVisit}] /\ Stored \subseteq Stored' /\ BookInv'
  BY <1>1, <1>3, <1>4, RowIsWritten
<1>6. Types'
  BY <1>1, <1>5 DEF PInv, Types
<1> QED BY <1>1, <1>5, <1>6, SameCalls, SamePrepared DEF PInv

LEMMA ViewKeeps == \A v \in Visit : PInv /\ appointmentView(v) => PInv'
<1> SUFFICES ASSUME NEW v \in Visit, PInv, appointmentView(v) PROVE PInv'
  OBVIOUS
<1>1. /\ UNCHANGED <<now, visit, proposal, call, landed, replaced>>
      /\ v \in Stored /\ api' = [at |-> "read", visit |-> v, saw |-> visit[v]]
  BY DEF appointmentView, Request
<1>2. visit[v] \in VisitRow
  BY <1>1 DEF PInv, Types, Stored
<1>3. Types'
  BY <1>1, <1>2 DEF PInv, Types, Viewed
<1>4. AllPrepared'
  BY <1>1, SamePrepared DEF Stored
<1>5. BookInv'
  <2>1. Newer(visit[v], visit[v])
    BY <1>2 DEF Newer, VisitRow
  <2> QED BY <1>1, <2>1 DEF PInv, BookInv, ApiKnows, NothingUnseenIsReplaced
<1> QED BY <1>1, <1>3, <1>4, <1>5, SameCalls DEF PInv

\* What is known of the row the API has in hand.
LEMMA InHand ==
  ASSUME PInv, api # Idle
  PROVE  /\ api.visit \in Visit /\ api.saw \in VisitRow /\ visit[api.visit] \in VisitRow
         /\ Newer(api.saw, visit[api.visit])
         /\ api.at = "locked" => \A n \in api.version : n = visit[api.visit].version
BY DEF PInv, Types, Viewed, Versioned, Locked, BookInv, ApiKnows, Newer

LEMMA VersionKeeps == PInv /\ versionOf => PInv'
<1> SUFFICES ASSUME PInv, versionOf PROVE PInv'
  OBVIOUS
<1>1. /\ UNCHANGED <<now, visit, proposal, call, landed, replaced>> /\ api # Idle
      /\ api' = [at |-> "has", visit |-> api.visit, saw |-> api.saw, version |-> visit[api.visit].version]
  BY DEF versionOf, Request, Idle
<1>2. /\ api.visit \in Visit /\ api.saw \in VisitRow /\ visit[api.visit] \in VisitRow
      /\ Newer(api.saw, visit[api.visit])
  BY <1>1, InHand
<1>3. Types'
  <2>1. visit[api.visit].version \in Nat
    BY <1>2 DEF VisitRow
  <2> QED BY <1>1, <1>2, <2>1 DEF PInv, Types, Versioned
<1>4. AllPrepared'
  BY <1>1, SamePrepared DEF Stored
<1>5. BookInv'
  BY <1>1, <1>2 DEF PInv, BookInv, ApiKnows, NothingUnseenIsReplaced
<1> QED BY <1>1, <1>3, <1>4, <1>5, SameCalls DEF PInv

LEMMA LockKeeps == \A ifMatch \in BOOLEAN : PInv /\ lockForWrite(ifMatch) => PInv'
<1> SUFFICES ASSUME NEW ifMatch \in BOOLEAN, PInv, lockForWrite(ifMatch) PROVE PInv'
  OBVIOUS
<1>1. UNCHANGED <<now, visit, proposal, call, landed, replaced>> /\ api \in Versioned
  BY DEF lockForWrite, Request, PInv, Types, Idle, Viewed, Locked
<1>2. /\ api.visit \in Visit /\ api.saw \in VisitRow /\ visit[api.visit] \in VisitRow /\ api.version \in Nat
      /\ Newer(api.saw, visit[api.visit])
  BY <1>1, InHand DEF Versioned, Idle
<1>3. \/ api' = Idle
      \/ /\ api' \in Locked /\ api'.visit = api.visit /\ api'.saw = api.saw
         /\ \A n \in api'.version : n = visit[api.visit].version
  <2>1. CASE ifMatch /\ visit[api.visit].version # api.version
    BY <2>1 DEF lockForWrite
  <2>2. CASE ~(ifMatch /\ visit[api.visit].version # api.version)
    <3>1. api' = [api EXCEPT !.at = "locked", !.version = IF ifMatch THEN {api.version} ELSE {}]
      BY <2>2 DEF lockForWrite
    <3> QED BY <1>1, <2>2, <3>1 DEF Versioned, Locked
  <2> QED BY <2>1, <2>2
<1>4. Types'
  BY <1>1, <1>3 DEF PInv, Types
<1>5. AllPrepared'
  BY <1>1, SamePrepared DEF Stored
<1>6. BookInv'
  BY <1>1, <1>2, <1>3 DEF PInv, BookInv, ApiKnows, NothingUnseenIsReplaced
<1> QED BY <1>1, <1>4, <1>5, <1>6, SameCalls DEF PInv

LEMMA FailsKeeps == PInv /\ Fails => PInv'
<1> SUFFICES ASSUME PInv, Fails PROVE PInv'
  OBVIOUS
<1>1. UNCHANGED <<now, visit, proposal, call, landed, replaced>> /\ api' = Idle
  BY DEF Fails, Request
<1>2. Types'
  BY <1>1 DEF PInv, Types
<1>3. AllPrepared'
  BY <1>1, SamePrepared DEF Stored
<1>4. BookInv'
  BY <1>1 DEF PInv, BookInv, ApiKnows, NothingUnseenIsReplaced
<1> QED BY <1>1, <1>2, <1>3, <1>4, SameCalls DEF PInv

LEMMA WorkKeeps == PInv /\ Work => PInv'
<1> SUFFICES ASSUME PInv, Work PROVE PInv'
  OBVIOUS
<1>1. /\ UNCHANGED <<now, proposal, call, landed>> /\ api' = Idle /\ api.at = "locked" /\ api # Idle
      /\ replaced' = replaced \cup
           {[saw |-> api.saw, was |-> visit[api.visit], torn |-> n # api.saw.version] : n \in api.version}
  BY DEF Work, Request, Idle
<1>3. /\ api.visit \in Visit /\ visit[api.visit] \in VisitRow /\ Newer(api.saw, visit[api.visit])
      /\ \A n \in api.version : n = visit[api.visit].version
  BY <1>1, InHand
<1>4. PICK row \in VisitRow : Puts(api.visit, row)
  <2> DEFINE v == api.visit
             here == visit[v]
  <2>1. ASSUME NEW p \in Stylist, NEW t \in Starts,
               NEW row \in commitMove(v, here, moveTo(here, p, t), here.startAt)
        PROVE  row \in VisitRow
    <3>1. moveTo(here, p, t).startAt \in Starts /\ moveTo(here, p, t).provider \in SUBSET Stylist
      BY DEF moveTo
    <3> QED BY <1>3, <2>1, <3>1, MoveRow
  <2>2. CASE \E to \in {"checked_in", "in_progress", "completed", "no_show"} :
               \E row \in transitionAppointment(here, to) : Puts(v, row)
    BY <1>3, <2>2, TransitionRow DEF AppointmentStatus
  <2>3. CASE \E row \in cancelAppointment(here) : Puts(v, row)
    BY <1>3, <2>3, CancelRow
  <2>4. CASE \E p \in Stylist, t \in Starts :
               \E row \in commitMove(v, here, moveTo(here, p, t), here.startAt) : Puts(v, row)
    BY <2>1, <2>4
  <2> QED BY <2>2, <2>3, <2>4 DEF Work, ApiWrites
<1>5. visit' \in [Visit -> VisitRow \cup {NoVisit}] /\ Stored \subseteq Stored'
  BY <1>3, <1>4, ProposalsAssumption DEF PInv, Types, Stored, Puts
<1>6. Types'
  BY <1>1, <1>5 DEF PInv, Types
<1>7. BookInv'
  <2>1. ASSUME NEW n \in api.version, n = api.saw.version
        PROVE  visit[api.visit] = api.saw
    BY <1>3, <2>1 DEF Newer
  <2>2. ASSUME NEW r \in replaced', ~r.torn
        PROVE  r.was = r.saw
    <3>1. CASE r \in replaced
      BY <2>2, <3>1 DEF PInv, BookInv, NothingUnseenIsReplaced
    <3>2. CASE r \notin replaced
      <4>1. PICK n \in api.version :
              r = [saw |-> api.saw, was |-> visit[api.visit], torn |-> n # api.saw.version]
        BY <1>1, <2>2, <3>2
      <4>2. r.saw = api.saw /\ r.was = visit[api.visit] /\ n = api.saw.version
        BY <2>2, <4>1
      <4> QED BY <2>1, <4>2
    <3> QED BY <3>1, <3>2
  <2> QED BY <1>1, <2>2 DEF BookInv, ApiKnows, NothingUnseenIsReplaced
<1> QED BY <1>1, <1>5, <1>6, <1>7, SameCalls, SamePrepared DEF PInv
-----------------------------------------------------------------------------
\* A proposal is prepared.

LEMMA CreateKeeps ==
  ASSUME PInv, NEW who \in Person, NEW action \in Action, NEW args \in Argument, NEW shown \in Summary,
         Prepared([action |-> action, args |-> args, shown |-> shown]),
         action # "book" => args.visit \in Stored,
         createProposal(who, action, args, shown)
  PROVE  PInv'
<1> DEFINE pr == [by |-> who, action |-> action, args |-> args, shown |-> shown,
                  expiresAt |-> now + TTL, usedAt |-> Never, outcome |-> "none"]
<1>1. UNCHANGED <<now, visit, call, api, landed, replaced>> /\ proposal' = Append(proposal, pr)
  BY DEF createProposal
<1>2. pr \in McpProposal
  BY ProposalsAssumption DEF McpProposal, PInv, Types
<1>3. /\ pr.action = action /\ pr.args = args /\ pr.shown = shown
      /\ pr.usedAt = Never /\ pr.outcome = "none" /\ Prepared(pr)
  BY DEF Prepared
<1> HIDE DEF pr
<1>4. /\ proposal' \in Seq(McpProposal) /\ Len(proposal) \in Nat
      /\ DOMAIN proposal = 1 .. Len(proposal) /\ DOMAIN proposal' = 1 .. Len(proposal) + 1
      /\ proposal'[Len(proposal) + 1] = pr
      /\ \A id \in DOMAIN proposal : proposal'[id] = proposal[id]
  BY <1>1, <1>2 DEF PInv, Types
<1>5. Types'
  BY <1>1, <1>4 DEF PInv, Types
<1>6. AllPrepared'
  <2> SUFFICES ASSUME NEW id \in DOMAIN proposal'
               PROVE  /\ Prepared(proposal'[id])
                      /\ proposal'[id].action # "book" => proposal'[id].args.visit \in Stored
    BY <1>1 DEF AllPrepared, Prepared, Stored
  <2>1. CASE id \in DOMAIN proposal
    BY <1>4, <2>1 DEF PInv, AllPrepared
  <2>2. CASE id = Len(proposal) + 1
    BY <1>3, <1>4, <2>2
  <2> QED BY <1>4, <2>1, <2>2
<1> DEFINE k == Len(proposal) + 1
<1>7. k \notin DOMAIN proposal /\ DOMAIN proposal' = DOMAIN proposal \cup {k} /\ proposal'[k] = pr
  BY <1>4
<1> HIDE DEF k
<1>8. CallInv'
  <2>1. OneCall' /\ WrittenOnce'
    BY <1>1, <1>7 DEF PInv, CallInv, OneCall, WrittenOnce, Under
  <2>2. CallsKnow'
    BY <1>1, <1>4, <1>7 DEF PInv, CallInv, CallsKnow, Knows, Under, Wrote
  <2>3. ~Wrote(k) /\ \A c \in Commit : Under(c) => call[c].id # k
    BY <1>7 DEF PInv, CallInv, CallsKnow, WrittenOnce, Wrote
  <2>4. Unused'
    BY <1>1, <1>3, <1>4, <1>7, <2>3 DEF PInv, CallInv, Unused, Under, Wrote
  <2>5. OutcomesAreTrue'
    BY <1>1, <1>3, <1>4, <1>7 DEF PInv, CallInv, OutcomesAreTrue, Wrote
  <2> QED BY <2>1, <2>2, <2>4, <2>5 DEF CallInv
<1>9. DoneAsShown'
  BY <1>1, <1>4 DEF PInv, CallInv, WrittenOnce, DoneAsShown
<1> QED BY <1>1, <1>5, <1>6, <1>8, <1>9, SameBook DEF PInv

LEMMA CancellationStatus ==
  \A from, ctx : staffCancellationStatus(from, ctx) \in AppointmentStatus
BY DEF staffCancellationStatus, AppointmentStatus

LEMMA PrepareKeeps == PInv /\ Prepare => PInv'
<1> SUFFICES ASSUME PInv, NEW who \in Person,
                    \/ \E p \in Stylist, t \in Starts : prepareBooking(who, p, t)
                    \/ \E v \in Visit :
                         \/ \E to \in AppointmentStatus : prepareStatus(who, v, to)
                         \/ prepareCancel(who, v)
                         \/ \E p \in Stylist, t \in Starts : prepareReschedule(who, v, p, t)
             PROVE  PInv'
  BY DEF Prepare
<1>0. \A v \in Stored : v \in Visit /\ visit[v] \in VisitRow
  BY DEF PInv, Types, Stored
<1>1. ASSUME NEW p \in Stylist, NEW t \in Starts, prepareBooking(who, p, t)
      PROVE  PInv'
  <2> DEFINE args == [provider |-> p, startAt |-> t]
  <2>1. createProposal(who, "book", args, args)
    BY <1>1 DEF prepareBooking
  <2>2. args \in Argument /\ args \in Summary /\ Prepared([action |-> "book", args |-> args, shown |-> args])
    BY DEF Argument, Summary, BookArgs, Prepared
  <2>3. "book" \in Action
    BY DEF Action
  <2> HIDE DEF args
  <2> QED BY <2>1, <2>2, <2>3, CreateKeeps
<1>2. ASSUME NEW v \in Visit, NEW to \in AppointmentStatus, prepareStatus(who, v, to)
      PROVE  PInv'
  <2> DEFINE from == visit[v].status
             args == [visit |-> v, to |-> to, from |-> from]
             shown == [from |-> from, to |-> to]
  <2>1. createProposal(who, "status", args, shown) /\ v \in Stored
    BY <1>2 DEF prepareStatus
  <2>2. from \in AppointmentStatus
    BY <1>0, <2>1 DEF VisitRow
  <2> HIDE DEF from
  <2>3. /\ args \in Argument /\ shown \in Summary /\ args.visit = v
        /\ Prepared([action |-> "status", args |-> args, shown |-> shown])
    BY <2>2 DEF Argument, Summary, StatusArgs, Prepared
  <2>4. "status" \in Action
    BY DEF Action
  <2> HIDE DEF args, shown
  <2> QED BY <2>1, <2>3, <2>4, CreateKeeps
<1>3. ASSUME NEW v \in Visit, prepareCancel(who, v)
      PROVE  PInv'
  <2> DEFINE from == visit[v].status
             late == staffCancellationStatus(from, Context(visit[v]))
             args == [visit |-> v, from |-> from]
             shown == [from |-> from, late |-> late]
  <2>1. createProposal(who, "cancel", args, shown) /\ v \in Stored
    BY <1>3 DEF prepareCancel
  <2>2. from \in AppointmentStatus /\ late \in AppointmentStatus
    BY <1>0, <2>1, CancellationStatus DEF VisitRow
  <2> HIDE DEF from, late
  <2>3. /\ args \in Argument /\ shown \in Summary /\ args.visit = v
        /\ Prepared([action |-> "cancel", args |-> args, shown |-> shown])
    BY <2>2 DEF Argument, Summary, CancelArgs, Prepared
  <2>4. "cancel" \in Action
    BY DEF Action
  <2> HIDE DEF args, shown
  <2> QED BY <2>1, <2>3, <2>4, CreateKeeps
<1>4. ASSUME NEW v \in Visit, NEW p \in Stylist, NEW t \in Starts, prepareReschedule(who, v, p, t)
      PROVE  PInv'
  <2> DEFINE from == visit[v].startAt
             with == visit[v].provider
             other == {p} \ {with}
             args == [visit |-> v, startAt |-> t, provider |-> other]
             shown == [visit |-> v, from |-> from, startAt |-> t, with |-> with, to |-> p]
  <2>1. createProposal(who, "move", args, shown) /\ v \in Stored
    BY <1>4 DEF prepareReschedule
  <2>2. from \in Starts /\ with \in Stylist
    BY <1>0, <2>1 DEF VisitRow
  <2>3. other \in SUBSET Stylist /\ other \subseteq {p}
    OBVIOUS
  <2> HIDE DEF from, with, other
  <2>4. args \in MoveArgs /\ shown \in Summary /\ args.visit = v
    BY <2>2, <2>3 DEF Summary, MoveArgs
  <2>5. Prepared([action |-> "move", args |-> args, shown |-> shown])
    BY <2>3, <2>4 DEF Prepared
  <2>6. args \in Argument /\ "move" \in Action
    BY <2>4 DEF Argument, Action
  <2> HIDE DEF args, shown
  <2> QED BY <2>1, <2>4, <2>5, <2>6, CreateKeeps
<1> QED BY <1>1, <1>2, <1>3, <1>4
-----------------------------------------------------------------------------
\* A proposal is committed.

LEMMA OneIsReplaced ==
  ASSUME NEW s \in Seq(McpProposal), NEW id \in DOMAIN s, NEW r \in McpProposal
  PROVE  LET t == [s EXCEPT ![id] = r] IN
         /\ t \in Seq(McpProposal) /\ DOMAIN t = DOMAIN s /\ t[id] = r
         /\ \A j \in DOMAIN s : j # id => t[j] = s[j]
OBVIOUS

\* What is known of a call under way, and of its proposal.
LEMMA CallInHand ==
  ASSUME PInv, NEW c \in Commit, Under(c)
  PROVE  /\ call[c] \in Claimed \cup Read \cup Settled
         /\ call[c].id \in DOMAIN proposal /\ call[c].id \in Nat
         /\ proposal[call[c].id] \in McpProposal /\ Prepared(proposal[call[c].id])
         /\ proposal[call[c].id].action # "book" => proposal[call[c].id].args.visit \in Stored
         /\ proposal[call[c].id].outcome = "none" /\ proposal[call[c].id].usedAt # Never
         /\ Knows(call[c], Wrote(call[c].id))
<1>1. call[c] \in Claimed \cup Read \cup Settled
  BY DEF PInv, Types, Under
<1>2. call[c].id \in DOMAIN proposal /\ proposal \in Seq(McpProposal)
  BY DEF PInv, Types, CallInv, CallsKnow
<1> QED BY <1>1, <1>2 DEF PInv, CallInv, CallsKnow, Unused, AllPrepared, Claimed, Read, Settled

LEMMA ClaimKeeps ==
  \A c \in Commit, who \in Person : \A id \in DOMAIN proposal : PInv /\ claimProposal(c, who, id) => PInv'
<1> SUFFICES ASSUME NEW c \in Commit, NEW who \in Person, NEW id \in DOMAIN proposal,
                    PInv, claimProposal(c, who, id)
             PROVE  PInv'
  OBVIOUS
<1>1. /\ UNCHANGED <<now, visit, api, landed, replaced>> /\ call[c] = Idle /\ proposal[id].usedAt = Never
      /\ proposal' = [proposal EXCEPT ![id].usedAt = now]
      /\ call' = [call EXCEPT ![c] = [at |-> "claimed", id |-> id]]
  BY DEF claimProposal, claimable
<1>2. /\ proposal \in Seq(McpProposal) /\ now \in Nat /\ now # Never /\ id \in Nat
      /\ call \in [Commit -> {Idle} \cup Claimed \cup Read \cup Settled]
  BY ProposalsAssumption DEF PInv, Types
<1> DEFINE mine == [at |-> "claimed", id |-> id]
<1>3. mine \in Claimed /\ mine # Idle /\ mine.id = id /\ mine.at # "settled"
  BY <1>2 DEF Claimed, Idle
<1>4. /\ call' \in [Commit -> {Idle} \cup Claimed \cup Read \cup Settled] /\ call'[c] = mine
      /\ \A d \in Commit \ {c} : call'[d] = call[d]
  BY <1>1, <1>2, <1>3
<1> HIDE DEF mine
<1>5. /\ proposal' \in Seq(McpProposal) /\ DOMAIN proposal' = DOMAIN proposal
      /\ \A j \in DOMAIN proposal :
           /\ proposal'[j].action = proposal[j].action /\ proposal'[j].args = proposal[j].args
           /\ proposal'[j].shown = proposal[j].shown /\ proposal'[j].outcome = proposal[j].outcome
           /\ proposal'[j].usedAt = IF j = id THEN now ELSE proposal[j].usedAt
  <2> DEFINE r == [proposal[id] EXCEPT !.usedAt = now]
  <2>1. proposal[id] \in McpProposal
    BY <1>2
  <2>2. /\ r.action = proposal[id].action /\ r.args = proposal[id].args
        /\ r.shown = proposal[id].shown /\ r.outcome = proposal[id].outcome /\ r.usedAt = now
    BY <2>1 DEF McpProposal
  <2>3. r \in McpProposal
    <3>1. now \in Int \cup {Never}
      BY <1>2
    <3> QED BY <2>1, <3>1 DEF McpProposal
  <2>4. proposal' = [proposal EXCEPT ![id] = r]
    BY <1>1
  <2> HIDE DEF r
  <2> QED BY <1>2, <2>2, <2>3, <2>4, OneIsReplaced
<1>6. Types'
  BY <1>1, <1>4, <1>5 DEF PInv, Types
<1>7. AllPrepared'
  BY <1>1, <1>5 DEF PInv, AllPrepared, Prepared, Stored
<1>8. CallInv'
  <2>1. proposal[id].outcome = "none" /\ ~Wrote(id) /\ \A d \in Commit : Under(d) => call[d].id # id
    BY <1>1 DEF PInv, CallInv, Unused
  <2>2. OneCall'
    BY <1>3, <1>4, <2>1 DEF PInv, CallInv, OneCall, Under
  <2>3. Unused'
    BY <1>1, <1>2, <1>3, <1>4, <1>5 DEF PInv, CallInv, Unused, Under, Wrote
  <2>4. CallsKnow'
    BY <1>1, <1>3, <1>4, <1>5, <2>1 DEF PInv, CallInv, CallsKnow, Knows, Under, Wrote
  <2>5. OutcomesAreTrue' /\ WrittenOnce'
    BY <1>1, <1>5 DEF PInv, CallInv, OutcomesAreTrue, WrittenOnce, Wrote
  <2> QED BY <2>2, <2>3, <2>4, <2>5 DEF CallInv
<1>9. DoneAsShown'
  BY <1>1, <1>5 DEF PInv, CallInv, WrittenOnce, DoneAsShown
<1> QED BY <1>1, <1>6, <1>7, <1>8, <1>9, SameBook DEF PInv

\* A call goes on to where it knows no more than it did, or ends.
LEMMA CallGoesOn ==
  ASSUME PInv, NEW c \in Commit, Under(c), NEW new \in {Idle} \cup Claimed \cup Read \cup Settled,
         call' = [call EXCEPT ![c] = new], UNCHANGED <<now, visit, proposal, api, landed, replaced>>,
         new # Idle =>
           new.id = call[c].id /\ Knows(new, Wrote(new.id))
  PROVE  PInv'
<1>1. call \in [Commit -> {Idle} \cup Claimed \cup Read \cup Settled]
  BY DEF PInv, Types
<1>2. /\ call' \in [Commit -> {Idle} \cup Claimed \cup Read \cup Settled] /\ call'[c] = new
      /\ \A d \in Commit \ {c} : call'[d] = call[d]
  BY <1>1
<1>3. Types'
  BY <1>2 DEF PInv, Types
<1>4. CallInv'
  <2>1. OneCall'
    BY <1>2 DEF PInv, CallInv, OneCall, Under
  <2>2. Unused'
    <3>1. \A d \in Commit : Under(d)' => Under(d) /\ call'[d].id = call[d].id
      BY <1>2 DEF Under
    <3> QED BY <3>1 DEF PInv, CallInv, Unused, Wrote
  <2>3. CallsKnow'
    BY <1>2 DEF PInv, CallInv, CallsKnow, Knows, Under, Wrote
  <2>4. OutcomesAreTrue' /\ WrittenOnce'
    BY DEF PInv, CallInv, OutcomesAreTrue, WrittenOnce, Wrote
  <2> QED BY <2>1, <2>2, <2>3, <2>4 DEF CallInv
<1>5. AllPrepared'
  BY SamePrepared DEF Stored
<1>6. DoneAsShown'
  BY DEF PInv, DoneAsShown
<1> QED BY <1>3, <1>4, <1>5, <1>6, SameBook DEF PInv

LEMMA DiesKeeps == \A c \in Commit : PInv /\ Dies(c) => PInv'
BY CallGoesOn DEF Dies, Under

LEMMA ReadsKeeps == \A c \in Commit : PInv /\ Reads(c) => PInv'
<1> SUFFICES ASSUME NEW c \in Commit, PInv, Reads(c) PROVE PInv'
  OBVIOUS
<1> DEFINE id == call[c].id
           v == proposal[id].args.visit
           new == [at |-> "read", id |-> id, saw |-> visit[v].startAt]
<1>1. /\ call[c].at = "claimed" /\ proposal[id].action = "move"
      /\ call' = [call EXCEPT ![c] = new] /\ UNCHANGED <<now, visit, proposal, api, landed, replaced>>
  BY DEF Reads
<1>2. Under(c)
  BY <1>1 DEF Under, Idle
<1>3. id \in Nat /\ v \in Stored /\ ~Wrote(id)
  BY <1>1, <1>2, CallInHand DEF Knows
<1>4. visit[v].startAt \in Int
  BY <1>3, ProposalsAssumption DEF PInv, Types, Stored, VisitRow
<1>5. new \in Read /\ new.id = id /\ new.at = "read"
  BY <1>3, <1>4 DEF Read
<1> HIDE DEF new, v
<1>6. Knows(new, Wrote(id))
  BY <1>3, <1>5 DEF Knows
<1> QED BY <1>1, <1>2, <1>5, <1>6, CallGoesOn

LEMMA ReadyCall ==
  ASSUME NEW c \in Commit, PInv, Ready(c)
  PROVE  Under(c) /\ call[c].at # "settled" /\ Saw(c) \in Int
<1>1. Under(c) /\ call[c].at # "settled"
  BY DEF Ready, Under, Idle
<1>2. Saw(c) \in Int
  BY <1>1, CallInHand DEF Saw, Claimed, Read, Settled
<1> QED BY <1>1, <1>2

LEMMA RefusedKeeps == \A c \in Commit : PInv /\ Refused(c) => PInv'
<1> SUFFICES ASSUME NEW c \in Commit, PInv, Refused(c) PROVE PInv'
  OBVIOUS
<1> DEFINE id == call[c].id
           new == [at |-> "settled", id |-> id, outcome |-> "refused"]
<1>1. Ready(c) /\ call' = [call EXCEPT ![c] = new] /\ UNCHANGED <<now, visit, proposal, api, landed, replaced>>
  BY DEF Refused
<1>2. Under(c) /\ id \in Nat /\ ~Wrote(id)
  BY <1>1, ReadyCall, CallInHand DEF Knows
<1>3. new \in Settled /\ new.id = id /\ new.outcome = "refused"
  BY <1>2 DEF Settled
<1> HIDE DEF new
<1>4. Knows(new, Wrote(id))
  BY <1>2, <1>3 DEF Knows
<1> QED BY <1>1, <1>2, <1>3, <1>4, CallGoesOn

LEMMA BreaksKeeps == \A c \in Commit : PInv /\ Breaks(c) => PInv'
<1> SUFFICES ASSUME NEW c \in Commit, PInv, Breaks(c) PROVE PInv'
  OBVIOUS
<1> DEFINE id == call[c].id
           new == [at |-> "settled", id |-> id, outcome |-> "internal"]
<1>1. call' = [call EXCEPT ![c] = new] /\ UNCHANGED <<now, visit, proposal, api, landed, replaced>>
  BY DEF Breaks
<1>2. Under(c)
  BY DEF Breaks, Under, Idle
<1>3. new \in Settled /\ new.id = id /\ new.at = "settled" /\ new.outcome = "internal"
  BY <1>2, CallInHand DEF Settled
<1> HIDE DEF new
<1>4. Knows(new, Wrote(id))
  BY <1>3 DEF Knows
<1> QED BY <1>1, <1>2, <1>3, <1>4, CallGoesOn

LEMMA OutcomeKeeps == \A c \in Commit : PInv /\ recordOutcome(c) => PInv'
<1> SUFFICES ASSUME NEW c \in Commit, PInv, recordOutcome(c) PROVE PInv'
  OBVIOUS
<1> DEFINE id == call[c].id
           what == call[c].outcome
<1>1. /\ call[c].at = "settled" /\ UNCHANGED <<now, visit, api, landed, replaced>>
      /\ proposal' = [proposal EXCEPT ![id].outcome = what] /\ call' = [call EXCEPT ![c] = Idle]
  BY DEF recordOutcome
<1>2. Under(c)
  BY <1>1 DEF Under, Idle
<1>3. /\ id \in DOMAIN proposal /\ what \in {"ok", "refused", "internal"} /\ proposal[id].usedAt # Never
      /\ (what = "ok" => Wrote(id)) /\ (what = "refused" => ~Wrote(id))
  BY <1>1, <1>2, CallInHand DEF Claimed, Read, Settled, Knows
<1>4. /\ proposal \in Seq(McpProposal) /\ call \in [Commit -> {Idle} \cup Claimed \cup Read \cup Settled]
  BY DEF PInv, Types
<1>5. /\ call' \in [Commit -> {Idle} \cup Claimed \cup Read \cup Settled] /\ call'[c] = Idle
      /\ \A d \in Commit \ {c} : call'[d] = call[d]
  BY <1>1, <1>4
<1>6. \A d \in Commit \ {c} : Under(d) => call[d].id # id
  BY <1>2 DEF PInv, CallInv, OneCall
<1> HIDE DEF id, what
<1>7. /\ proposal' \in Seq(McpProposal) /\ DOMAIN proposal' = DOMAIN proposal
      /\ \A j \in DOMAIN proposal :
           /\ proposal'[j].action = proposal[j].action /\ proposal'[j].args = proposal[j].args
           /\ proposal'[j].shown = proposal[j].shown /\ proposal'[j].usedAt = proposal[j].usedAt
           /\ proposal'[j].outcome = IF j = id THEN what ELSE proposal[j].outcome
  <2> DEFINE r == [proposal[id] EXCEPT !.outcome = what]
  <2>1. proposal[id] \in McpProposal
    BY <1>3, <1>4
  <2>2. /\ r \in McpProposal /\ r.action = proposal[id].action /\ r.args = proposal[id].args
        /\ r.shown = proposal[id].shown /\ r.usedAt = proposal[id].usedAt /\ r.outcome = what
    BY <1>3, <2>1 DEF McpProposal
  <2>3. proposal' = [proposal EXCEPT ![id] = r]
    BY <1>1
  <2> HIDE DEF r
  <2> QED BY <1>3, <1>4, <2>2, <2>3, OneIsReplaced
<1>8. Types'
  BY <1>1, <1>5, <1>7 DEF PInv, Types
<1>9. AllPrepared'
  BY <1>1, <1>7 DEF PInv, AllPrepared, Prepared, Stored
<1>10. CallInv'
  <2>1. OneCall'
    BY <1>5 DEF PInv, CallInv, OneCall, Under
  <2>2. Unused'
    BY <1>1, <1>3, <1>5, <1>7 DEF PInv, CallInv, Unused, Under, Wrote
  <2>3. CallsKnow'
    BY <1>1, <1>5, <1>6, <1>7 DEF PInv, CallInv, CallsKnow, Knows, Under, Wrote
  <2>4. OutcomesAreTrue'
    BY <1>1, <1>3, <1>7 DEF PInv, CallInv, OutcomesAreTrue, Wrote
  <2>5. WrittenOnce'
    BY <1>1, <1>7 DEF PInv, CallInv, WrittenOnce
  <2> QED BY <2>1, <2>2, <2>3, <2>4, <2>5 DEF CallInv
<1>11. DoneAsShown'
  BY <1>1, <1>7 DEF PInv, CallInv, WrittenOnce, DoneAsShown
<1> QED BY <1>1, <1>8, <1>9, <1>10, <1>11, SameBook DEF PInv

LEMMA WritesKeeps == \A c \in Commit : PInv /\ Writes(c) => PInv'
<1> SUFFICES ASSUME NEW c \in Commit, PInv, Writes(c) PROVE PInv'
  OBVIOUS
<1> DEFINE id == call[c].id
           pr == proposal[id]
           v == Place(pr)
           saw == Saw(c)
           new == [at |-> "settled", id |-> id, outcome |-> "ok"]
<1>1. /\ Ready(c) /\ Room(pr) /\ Free(v) /\ UNCHANGED <<now, proposal, api, replaced>>
      /\ call' = [call EXCEPT ![c] = new]
  BY DEF Writes
<1>2. /\ Under(c) /\ id \in DOMAIN proposal /\ id \in Nat /\ pr \in McpProposal /\ Prepared(pr)
      /\ pr.action # "book" => pr.args.visit \in Stored
      /\ pr.outcome = "none" /\ pr.usedAt # Never /\ ~Wrote(id) /\ saw \in Int
  BY <1>1, ReadyCall, CallInHand DEF Knows
<1>3. v \in Visit /\ (pr.action # "book" => v \in Stored) /\ (pr.action = "book" => v \notin Stored)
  BY <1>1, <1>2 DEF Place, Room, Stored
<1>4. \A w \in Stored : visit[w] \in VisitRow
  BY DEF PInv, Types, Stored
<1>5. PICK row \in commit(pr, v, saw) :
        /\ visit' = [visit EXCEPT ![v] = row]
        /\ landed' = Append(landed, [id |-> id, was |-> visit[v], is |-> row, saw |-> saw])
  BY DEF Writes, Puts
<1>6. pr.action \in Action
  BY <1>2 DEF McpProposal
<1> HIDE DEF pr, v, saw, new
<1>7. /\ row \in VisitRow /\ AsShown(pr, visit[v], row, saw)
      /\ v \in Stored => row = visit[v] \/ row.version = visit[v].version + 1
  BY <1>2, <1>3, <1>4, <1>6, CommitRow
<1>8. visit' \in [Visit -> VisitRow \cup {NoVisit}] /\ Stored \subseteq Stored' /\ BookInv'
  BY <1>1, <1>3, <1>5, <1>7, RowIsWritten
<1> DEFINE write == [id |-> id, was |-> visit[v], is |-> row, saw |-> saw]
<1>9. /\ write \in Write /\ write.id = id /\ write.was = visit[v] /\ write.is = row /\ write.saw = saw
  BY <1>2, <1>3, <1>7 DEF Write, PInv, Types
<1> HIDE DEF write, id
<1>10. /\ landed' \in Seq(Write) /\ Len(landed) \in Nat
       /\ DOMAIN landed = 1 .. Len(landed) /\ DOMAIN landed' = 1 .. Len(landed) + 1
       /\ landed'[Len(landed) + 1] = write /\ \A i \in DOMAIN landed : landed'[i] = landed[i]
  BY <1>5, <1>9 DEF PInv, Types, write
<1> DEFINE k == Len(landed) + 1
<1>11. k \notin DOMAIN landed /\ DOMAIN landed' = DOMAIN landed \cup {k} /\ landed'[k] = write
  BY <1>10
<1> HIDE DEF k
<1> DEFINE WroteNow(j) == \E i \in DOMAIN landed' : landed'[i].id = j
<1>12. WroteNow(id) /\ \A j : j # id => (WroteNow(j) <=> Wrote(j))
  BY <1>9, <1>10, <1>11 DEF Wrote
<1> HIDE DEF WroteNow
<1>13. new \in Settled /\ new # Idle /\ new.id = id /\ new.at = "settled" /\ new.outcome = "ok"
  BY <1>2 DEF Settled, Idle, new
<1>14. /\ call' \in [Commit -> {Idle} \cup Claimed \cup Read \cup Settled] /\ call'[c] = new
       /\ \A d \in Commit \ {c} : call'[d] = call[d]
  BY <1>1, <1>13 DEF PInv, Types
<1>15. Types'
  BY <1>1, <1>8, <1>10, <1>14 DEF PInv, Types
<1>16. CallInv'
  <2>1. id = call[c].id
    BY DEF id
  <2>2. OneCall'
    BY <1>2, <1>13, <1>14, <2>1 DEF PInv, CallInv, OneCall, Under
  <2>3. Unused'
    <3> SUFFICES ASSUME NEW j \in DOMAIN proposal, proposal[j].usedAt = Never
                 PROVE  /\ proposal[j].outcome = "none" /\ ~WroteNow(j)
                        /\ \A d \in Commit : Under(d)' => call'[d].id # j
      BY <1>1 DEF Unused, Wrote, WroteNow
    <3>1. j # id
      BY <1>2 DEF pr
    <3> QED BY <1>12, <1>13, <1>14, <3>1 DEF PInv, CallInv, Unused, Under
  <2>4. CallsKnow'
    <3> SUFFICES ASSUME NEW d \in Commit, Under(d)'
                 PROVE  /\ call'[d].id \in DOMAIN proposal /\ proposal[call'[d].id].outcome = "none"
                        /\ Knows(call'[d], WroteNow(call'[d].id))
      BY <1>1 DEF CallsKnow, Knows, Wrote, WroteNow
    <3>1. CASE d = c
      BY <1>2, <1>12, <1>13, <1>14, <3>1 DEF pr, Knows
    <3>2. CASE d # c
      <4>1. call'[d] = call[d] /\ Under(d)
        BY <1>14, <3>2 DEF Under
      <4>2. call[d].id # id
        BY <1>2, <2>1, <3>2, <4>1 DEF PInv, CallInv, OneCall
      <4> QED BY <1>12, <4>1, <4>2 DEF PInv, CallInv, CallsKnow, Knows
    <3> QED BY <3>1, <3>2
  <2>5. OutcomesAreTrue'
    BY <1>1, <1>2, <1>12 DEF PInv, CallInv, OutcomesAreTrue, Wrote, WroteNow, pr
  <2>6. WrittenOnce'
    <3>1. \A i \in DOMAIN landed : landed[i].id # id
      BY <1>2 DEF Wrote
    <3> QED BY <1>1, <1>2, <1>9, <1>10, <1>11, <3>1 DEF PInv, CallInv, WrittenOnce
  <2> QED BY <2>2, <2>3, <2>4, <2>5, <2>6 DEF CallInv
<1>17. DoneAsShown'
  <2> SUFFICES ASSUME NEW i \in DOMAIN landed'
               PROVE  AsShown(proposal[landed'[i].id], landed'[i].was, landed'[i].is, landed'[i].saw)
    BY <1>1 DEF DoneAsShown, AsShown
  <2>1. CASE i = k
    BY <1>7, <1>9, <1>11, <2>1 DEF pr
  <2>2. CASE i \in DOMAIN landed
    BY <1>10, <2>2 DEF PInv, DoneAsShown, AsShown
  <2> QED BY <1>11, <2>1, <2>2
<1> QED BY <1>1, <1>8, <1>15, <1>16, <1>17, SamePrepared DEF PInv
-----------------------------------------------------------------------------
\* PInv is an inductive invariant of the proposals.

LEMMA PInvInit == ProposalsInit => PInv
<1> SUFFICES ASSUME ProposalsInit PROVE PInv
  OBVIOUS
<1>1. /\ now = 0 /\ proposal = <<>> /\ call = [c \in Commit |-> Idle] /\ api = Idle
      /\ landed = <<>> /\ replaced = {}
      /\ visit = [v \in Visit |-> IF v = CHOOSE w \in Visit : TRUE THEN FirstVisit ELSE NoVisit]
  BY DEF ProposalsInit
<1>2. Types
  BY <1>1, ProposalsAssumption DEF Types
<1>3. DOMAIN proposal = {} /\ DOMAIN landed = {}
  BY <1>1
<1> QED BY <1>1, <1>2, <1>3
        DEF PInv, AllPrepared, CallInv, OneCall, Unused, CallsKnow, OutcomesAreTrue, WrittenOnce,
            Under, DoneAsShown, BookInv, ApiKnows, NothingUnseenIsReplaced

LEMMA PInvNext == PInv /\ [ProposalsNext]_proposalVars => PInv'
<1> SUFFICES ASSUME PInv, [ProposalsNext]_proposalVars PROVE PInv'
  OBVIOUS
<1>1. CASE UNCHANGED proposalVars
  BY <1>1, SameCalls, SameBook, SamePrepared DEF proposalVars, PInv, Types, Stored
<1>2. CASE ProposalsNext
  <2> USE DEF ProposalsNext
  <2> QED
    BY <1>2, TickKeeps, PrepareKeeps, DeskKeeps, ViewKeeps, ClaimKeeps, ReadsKeeps, WritesKeeps,
       RefusedKeeps, BreaksKeeps, OutcomeKeeps, DiesKeeps, VersionKeeps, LockKeeps, WorkKeeps, FailsKeeps
<1> QED BY <1>1, <1>2

\* The inductive invariant of Proposals.
THEOREM PInvIsInvariant == ProposalsSpec => []PInv
BY PInvInit, PInvNext, PTL DEF ProposalsSpec

\* "Each proposal commits once", whatever retries, deaths and second calls there
\* are, and the audit's "ok" and its named refusals are true of the book (its
\* "internal" may be either); a write leaves what its summary named; an If-Match write replaces what
\* its caller read.
THEOREM ProposalsAreKept == ProposalsSpec => []WhatIsProposedIsDone
<1>1. PInv => WhatIsProposedIsDone
  <2> SUFFICES ASSUME PInv PROVE CarriedOutOnce
    BY DEF PInv, BookInv, WhatIsProposedIsDone
  <2>1. WrittenOnce /\ OutcomesAreTrue
    BY DEF PInv, CallInv
  <2> QED BY <2>1 DEF CarriedOutOnce, WrittenOnce, OutcomesAreTrue, Wrote
<1> QED BY <1>1, PInvIsInvariant, PTL
=============================================================================
