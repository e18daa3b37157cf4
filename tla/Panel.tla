-------------------------------- MODULE Panel --------------------------------
(***************************************************************************)
(* The desk's booking panel (booking-panel.tsx) and the action it posts to *)
(* (bookAsStaff).  Every tap that changes the question sends the server a  *)
(* new one; the answers land in any order, while the desk goes on tapping, *)
(* submits, and other desks write to the same book.                        *)
(*                                                                         *)
(* A question is answered when its answer lands: what changes in between   *)
(* is met by the booking, which asks the engine again.  A standing         *)
(* appointment (repeatCount > 1) is the module Series.                     *)
(***************************************************************************)
EXTENDS Offers

CONSTANTS
  Mode,          \* a subset of {"named", "anyone", "walkin"}
  Client,
  GapAt,         \* the instant of the gap link the panel was opened from
  MaxTaps, MaxUpsets   \* bounds: taps of the desk, writes of other desks

VARIABLES
  mode, provider,   \* what the panel was opened for; provider is 0 but for "named"
  day, chosen, client,   \* the question on the screen
  list,          \* the answer on the screen and the question it was given to
  openDays,      \* the days offered under an empty answer, and their question
  typed,         \* instants composed from a wall time the desk typed
  choice,        \* the row the form will post (pick, or provider and chosenSlot)
  latest, questions,   \* latestRequest, and the requests whose answers are out
  posted,        \* the form on its way
  state,         \* the action's last answer
  book,          \* the appointments
  taps, upsets

panelVars == <<mode, provider, day, chosen, client, list, openDays, typed, choice,
               latest, questions, posted, state, book, taps, upsets>>

None == [at |-> -1, provider |-> 0]
Row(p, t) == [at |-> t, provider |-> p]
Asked(d, v, c) == [day |-> d, visit |-> v, holder |-> c]
Nothing == [of |-> Asked(0, <<>>, NoClient), rows |-> {}]
NoDays == [of |-> Asked(0, <<>>, NoClient), days |-> {}]
NoForm == [stage |-> "none"]
Quiet == [kind |-> "none", fallback |-> None]

\* What the server answers to a question.
answerTo(ask) ==
  CASE mode = "named" -> computeDaySlots(book, provider, ask.visit, ask.day, ask.holder)
    [] mode = "anyone" -> anyProviderTimes(book, ask.visit, ask.day, ask.holder)
    [] mode = "walkin" -> walkInAnswer(book, ask.visit, ask.day, ask.holder)

\* A named stylist's page lists what she does, the others the whole catalogue.
Catalogue == {s \in Service : mode = "named" => <<provider, s>> \in Links}

InitialDay == DayOf(GapAt)

\* The link's day is one of the book's.
PanelConstants ==
  /\ OffersConstants
  /\ Mode \subseteq {"named", "anyone", "walkin"}
  /\ GapAt \in Int /\ InitialDay \in Day

Prefilled == {<<>>} \cup {<<s>> : s \in Service}

\* A rebook or a waitlist row brings its services and its client, and the page
\* comes with the answer; no time is chosen (A-040, A-157).
PanelInit ==
  /\ mode \in Mode /\ provider \in IF mode = "named" THEN Provider ELSE {0}
  /\ day = InitialDay /\ chosen \in IF mode = "walkin" THEN {<<>>} ELSE Prefilled
  /\ client \in Client \cup {NoClient}
  /\ ToSet(chosen) \subseteq Catalogue
  /\ book = <<>>
  /\ list = IF chosen = <<>> THEN Nothing
            ELSE [of |-> Asked(day, chosen, client), rows |-> answerTo(Asked(day, chosen, client))]
  /\ openDays = NoDays /\ typed = {} /\ choice = None
  /\ latest = 0 /\ questions = {}
  /\ posted = NoForm /\ state = Quiet /\ taps = 0 /\ upsets = 0

\* The screen is gone once the booking is made.
Open == state.kind # "ok"
Press == Open /\ taps < MaxTaps /\ taps' = taps + 1
\* The lists read "Looking..." while times or days are out.
Listed == \A q \in questions : q.kind = "compose"

-----------------------------------------------------------------------------
\* Every change of the question clears what was offered and asks again.
loadFor(d, v, c, anchor) ==
  /\ latest' = latest + 1
  /\ choice' = None /\ list' = Nothing /\ openDays' = NoDays /\ typed' = {}
  /\ questions' = IF v = <<>> THEN questions
       ELSE questions \cup {[id |-> latest + 1, kind |-> "times", asked |-> Asked(d, v, c), anchor |-> anchor]}

toggleService(s) ==
  /\ Press /\ chosen' = toggled(chosen, s)
  /\ loadFor(day, toggled(chosen, s), client, None.at)
  /\ UNCHANGED <<mode, provider, day, client, posted, state, book, upsets>>

changeDay(d) ==
  /\ Press /\ day' = d
  /\ loadFor(d, chosen, client, None.at)
  /\ UNCHANGED <<mode, provider, chosen, client, posted, state, book, upsets>>

\* Naming her can only widen the list, so the time chosen is asked for again.
changeClient(c) ==
  /\ Press /\ client' = c
  /\ IF c # client /\ chosen # <<>> THEN loadFor(day, chosen, c, choice.at)
     ELSE UNCHANGED <<list, openDays, typed, choice, latest, questions>>
  /\ UNCHANGED <<mode, provider, day, chosen, posted, state, book, upsets>>

\* A chip of the list.  A walk-in's offer on a following day takes the panel's
\* day with it; a refused one does not.
tapRow(row) ==
  /\ Press /\ Listed /\ row \in list.rows
  /\ choice' = Row(row.provider, row.at)
  /\ day' = IF mode = "walkin" /\ DayOf(row.at) # list.of.day THEN DayOf(row.at) ELSE day
  /\ UNCHANGED <<mode, provider, chosen, client, list, openDays, typed, latest, questions,
                 posted, state, book, upsets>>

\* A wall time the desk types is composed to an instant on the server.
useIt(mark) ==
  /\ Press /\ questions = {} /\ mode = "named" /\ chosen # <<>>
  /\ questions' = {[id |-> latest, kind |-> "compose", asked |-> Asked(day, chosen, client),
                    anchor |-> day * DayLength + mark]}
  /\ UNCHANGED <<mode, provider, day, chosen, client, list, openDays, typed, choice, latest,
                 posted, state, book, upsets>>

-----------------------------------------------------------------------------
\* The row selected by itself: the one chosen before, or in a column the first
\* bookable one from the gap on, or the gap itself.
reselect(rows, anchor) ==
  LET same == {row \in rows : row.at = anchor} IN
  IF same = {} THEN None ELSE Row(FirstOf(same).provider, anchor)

preselect(rows, q) ==
  LET gap == IF q.asked.day = InitialDay THEN GapAt ELSE None.at
      later == {row \in Offered(rows) : row.at >= gap} IN
  CASE \E row \in rows : row.at = q.anchor -> Row(provider, q.anchor)
    [] ~(\E row \in rows : row.at = q.anchor) /\ later # {} -> Row(provider, FirstOf(later).at)
    [] OTHER -> IF gap # None.at THEN Row(provider, gap) ELSE None

\* Mutant: an answer is taken whatever has been asked since.
MutCurrent(q) == TRUE

\* An answer to a question that is not the latest is dropped (A-054).
Current(q) == q.id = latest

\* "She is full" and "she is not working" ask the same: when can she?
answerWhenNot(q, rows) ==
  IF mode # "walkin" /\ Offered(rows) = {} THEN {[q EXCEPT !.kind = "days"]} ELSE {}

Landed(q) ==
  IF ~Current(q)
  THEN questions' = questions \ {q} /\ UNCHANGED <<list, choice>>
  ELSE LET rows == answerTo(q.asked) IN
       /\ list' = [of |-> q.asked, rows |-> rows]
       /\ choice' = IF mode = "named" THEN preselect(rows, q)
                    ELSE IF reselect(rows, q.anchor) # None THEN reselect(rows, q.anchor) ELSE choice
       /\ questions' = (questions \ {q}) \cup answerWhenNot(q, rows)

landTimes(q) ==
  /\ Open /\ q.kind = "times" /\ Landed(q)
  /\ UNCHANGED <<mode, provider, day, chosen, client, openDays, typed, latest, posted, state, book,
                 taps, upsets>>

staffOpenDays(ask) ==
  IF mode = "named" THEN daysWithAvailability(book, provider, ask.visit, ask.day, ask.holder)
  ELSE anyProviderDays(book, ask.visit, ask.day, ask.holder)

landDays(q) ==
  /\ Open /\ q.kind = "days" /\ questions' = questions \ {q}
  /\ openDays' = IF Current(q) THEN [of |-> q.asked, days |-> staffOpenDays(q.asked)] ELSE openDays
  /\ UNCHANGED <<mode, provider, day, chosen, client, list, typed, choice, latest, posted, state,
                 book, taps, upsets>>

\* One instant is selected at once; nothing asks whether the day is still shown.
landTyped(q) ==
  /\ Open /\ q.kind = "compose" /\ questions' = questions \ {q}
  /\ typed' = {q.anchor} /\ choice' = Row(provider, q.anchor)
  /\ UNCHANGED <<mode, provider, day, chosen, client, list, openDays, latest, posted, state, book,
                 taps, upsets>>

-----------------------------------------------------------------------------
\* The form posts the fields as they stand.  The fallback's button brings only
\* its stylist: the time is the form's.
submit(button, isOverride) ==
  /\ Press /\ posted = NoForm
  /\ isOverride => state.kind = "mayOverride"
  /\ CASE button = "book" -> chosen # <<>> /\ choice # None
       [] button = "instead" -> state.fallback # None
  /\ posted' = [stage |-> "write", visit |-> chosen, client |-> client, isOverride |-> isOverride,
                row |-> IF button = "book" THEN choice ELSE Row(state.fallback.provider, choice.at)]
  /\ UNCHANGED <<mode, provider, day, chosen, client, list, openDays, typed, choice, latest,
                 questions, state, book, upsets>>

Answered(kind, fallback) == state' = [kind |-> kind, fallback |-> fallback] /\ posted' = NoForm

\* The write; an anyone row that lost its race is looked for again (A-071).
bookAsStaff ==
  LET p == posted.row.provider
      at == posted.row.at
      why == whyRefused(book, p, posted.visit, at, posted.client) IN
  /\ posted.stage = "write"
  /\ CASE posted.visit = <<>> \/ at = None.at \/ p \notin providersForVisit(posted.visit) ->
            Answered("rejected", None) /\ UNCHANGED book
       [] OTHER ->
            \/ /\ why = "none" \/ posted.isOverride
               /\ book' = written(book, p, posted.visit, at, posted.client, posted.isOverride, <<>>)
               /\ Answered("ok", None)
            \/ /\ why # "none" /\ ~posted.isOverride /\ UNCHANGED book
               /\ IF mode = "anyone" /\ why \in {"SlotTaken", "SlotNotOffered"}
                  THEN posted' = [posted EXCEPT !.stage = "rescue"] /\ UNCHANGED state
                  ELSE Answered("mayOverride", None)
  /\ UNCHANGED <<mode, provider, day, chosen, client, list, openDays, typed, choice, latest,
                 questions, taps, upsets>>

\* Mutant: the rescue asks as a stranger.
MutsomebodyElse == anyProviderAt(book, posted.visit, posted.row.at, NoClient)

\* The rescue asks about the client the write was refused for (A-083).
somebodyElse == anyProviderAt(book, posted.visit, posted.row.at, posted.client)

rescue ==
  LET others == {row \in somebodyElse : row.provider # posted.row.provider} IN
  /\ posted.stage = "rescue"
  /\ IF others = {} THEN Answered("mayOverride", None)
     ELSE \E row \in others : Answered("refused", Row(row.provider, row.at))
  /\ UNCHANGED <<mode, provider, day, chosen, client, list, openDays, typed, choice, latest,
                 questions, book, taps, upsets>>

\* Another desk books a free time, or takes a visit off the book.
otherDesk ==
  /\ Open /\ upsets < MaxUpsets /\ upsets' = upsets + 1
  /\ \/ \E p \in Provider, s \in Service, c \in Client \cup {NoClient}, d \in Day :
          \E row \in Offered(computeDaySlots(book, p, <<s>>, d, c)) :
            book' = written(book, p, <<s>>, row.at, c, FALSE, <<>>)
     \/ \E i \in DOMAIN book :
          book[i].status = "booked" /\ book' = [book EXCEPT ![i].status = "cancelled"]
  /\ UNCHANGED <<mode, provider, day, chosen, client, list, openDays, typed, choice, latest,
                 questions, posted, state, taps>>

PanelNext ==
  \/ \E s \in Catalogue : toggleService(s)
  \/ \E d \in Day : changeDay(d)
  \/ \E c \in Client \cup {NoClient} : changeClient(c)
  \/ \E row \in list.rows : tapRow(row)
  \/ \E m \in 0 .. DayLength - 1 : useIt(m)
  \/ \E q \in questions : landTimes(q) \/ landDays(q) \/ landTyped(q)
  \/ \E b \in {"book", "instead"}, o \in BOOLEAN : submit(b, o)
  \/ bookAsStaff \/ rescue
  \/ otherDesk

PanelSpec == PanelInit /\ [][PanelNext]_panelVars

-----------------------------------------------------------------------------
OnScreen == Asked(day, chosen, client)

\* Whatever the order the answers land in, the screen shows one of them: the
\* times and the days on it were asked for the day, the services and the client
\* it shows, and the time it would book is one of those times, the gap it was
\* opened from or a time typed (A-054).  A walk-in who takes a following day
\* keeps the list of the day asked about.
TheScreenIsOneAnswer ==
  /\ list # Nothing =>
       /\ list.of.visit = chosen /\ list.of.holder = client
       /\ list.of.day = day \/ (mode = "walkin" /\ day \in {DayOf(row.at) : row \in list.rows})
  /\ openDays # NoDays => openDays.of = OnScreen
  /\ choice # None =>
       \/ choice \in {Row(row.provider, row.at) : row \in list.rows}
       \/ mode = "named" /\ (choice.at \in typed \/ (choice.at = GapAt /\ day = InitialDay))

\* A desk that lost an "anyone" row is offered an override only if nobody else
\* could have taken the same client at the same time, or the stylist who had
\* gone is back (A-071, A-083).
RescueMissesNobody ==
  [][ posted.stage = "rescue" /\ state'.kind = "mayOverride" /\ posted' = NoForm =>
        NobodyElse(book, posted.visit, posted.row, posted.client) ]_panelVars
=============================================================================
