---------------------------- MODULE Availability ----------------------------
(***************************************************************************)
(* The hours of one day as the settings pages edit them, the absences laid *)
(* over them, and what both do to the visits already booked.               *)
(*                                                                         *)
(* An edit of hours is refused only when malformed, never because somebody *)
(* is booked; instead each edit is followed by a reading of who no longer  *)
(* fits, and an event on each of those visits.  None of the edits runs in  *)
(* a transaction: every statement below commits on its own, and another    *)
(* desk's statements come between: its moves, pushes and reinstatements of *)
(* the visits among them.                                                  *)
(***************************************************************************)
EXTENDS Integers, Sequences, FiniteSets

CONSTANTS
  Editor,        \* browser sessions of the staff
  Stylist, Salon,
  Appointment,
  BookedAs,      \* appointment -> [provider, body] at the start
  Usual,         \* owner of hours -> weekly windows at the start
  WindowForm,    \* windows somebody may type
  AbsenceForm,   \* absences somebody may type: [provider, span]
  Nobody,
  ClockMarks,    \* marks in a day of the wall clock
  MoveTo, PushBy,                          \* bounds: marks a visit is moved to or by
  MaxOverrides, MaxAbsences, MaxEdits      \* bounds

Wall == INSTANCE Hours WITH DayLength <- ClockMarks

Owner == Stylist \cup {Salon}
AnyBody == [start : Int, end : Int]

\* Every owner has hours, the salon is no stylist, a visit is a stylist's and
\* lies somewhere, an absence is a stylist's, and moves are whole.
AvailabilityConstants ==
  /\ Salon \notin Stylist /\ Nobody \notin Owner
  /\ Usual = [o \in Owner |-> Usual[o]]
  /\ \A v \in Appointment : BookedAs[v].provider \in Stylist /\ BookedAs[v].body \in AnyBody
  /\ \A form \in AbsenceForm : form.provider \in Stylist
  /\ MoveTo \subseteq Int /\ PushBy \subseteq Int
  /\ MaxOverrides \in Nat

OverrideId == 1..MaxOverrides
AbsenceId == 1..MaxAbsences

\* What a flag is about once its visit has been moved from under it.
Elsewhere == {0}

VARIABLES
  weekly,      \* owner -> stored windows of the weekday
  override,    \* id -> [owner, isClosed, windows]
  absence,     \* id -> [provider, span]
  appointment, \* appointment -> [provider, body, active, ack, saw]
  working,     \* stylists on the roster
  known,       \* visits that outlived their hours and carry an event saying so
  placed,      \* visits a desk's own act put where the hours are not
  editing,     \* editor -> the request it is in the middle of
  edits        \* bound

hoursVars == <<weekly, override, absence, appointment, working, known, placed, editing, edits>>

\* No row has the id yet, or it was deleted: an id is never used twice.
NoRow == [owner |-> Nobody, isClosed |-> FALSE, windows |-> {}]
Removed == [owner |-> Nobody, isClosed |-> TRUE, windows |-> {}]
NoAbsence == [provider |-> Nobody, span |-> Wall!Span(0, 0)]
Lifted == [provider |-> Nobody, span |-> Wall!Span(0, 1)]

NoEdit == [at |-> "idle"]

-----------------------------------------------------------------------------
(* Reading a day.                                                          *)

rowsOf(owner, rows) == {i \in OverrideId : rows[i].owner = owner}

\* findFirst without an order: any row of the owner's.
patterns(owner, week, rows) ==
  IF rowsOf(owner, rows) = {} THEN {[weekly |-> week[owner], overrides |-> {}]}
  ELSE { [weekly |-> week[owner],
          overrides |-> {[isClosed |-> rows[i].isClosed, windows |-> rows[i].windows]}]
         : i \in rowsOf(owner, rows) }

Plain == [at |-> 0, before |-> 0, after |-> 0]

\* The working spans of a stylist, for one reading of the two patterns.
spansOf(house, hers) ==
  {Wall!resolveWindow(Wall!toWindowInput(m), Plain).span
     : m \in Wall!ToSet(Wall!resolveAvailableWindows(house, hers))}

\* Contained in some window, whole.
FitsIn(body, spans) == \E w \in spans : w.start <= body.start /\ body.end <= w.end

\* appointmentsOutsideHours, for every reading the rows allow.
OutsideOf(row, week, rows) ==
  /\ row.active
  /\ \A house \in patterns(Salon, week, rows), hers \in patterns(row.provider, week, rows) :
       ~FitsIn(row.body, spansOf(house, hers))

Outside(v, week, rows) == OutsideOf(appointment[v], week, rows)

\* What may be read as outside hours: sets, one per reading of each pattern.
strandedReadings(scope) ==
  LET house == patterns(Salon, weekly, override) IN
  { {v \in Appointment : /\ appointment[v].active
                         /\ appointment[v].provider \in scope
                         /\ ~FitsIn(appointment[v].body, spansOf(h, reading[appointment[v].provider]))}
    : h \in house,
      reading \in {f \in [Stylist -> UNION {patterns(s, weekly, override) : s \in Stylist}] :
                     \A s \in Stylist : f[s] \in patterns(s, weekly, override)} }

StrikesAt(provider, body) ==
  {i \in AbsenceId : absence[i].provider = provider /\ Wall!overlaps(absence[i].span, body)}

Struck(v) == StrikesAt(appointment[v].provider, appointment[v].body)

\* conflictsForDay: off the roster, outside the hours, or under an absence.
Conflicts ==
  {v \in Appointment : /\ appointment[v].active
                       /\ \/ appointment[v].provider \notin working
                          \/ Outside(v, weekly, override)
                          \/ Struck(v) # {}}

-----------------------------------------------------------------------------
HoursInit ==
  /\ weekly = Usual
  /\ override = [i \in OverrideId |-> NoRow]
  /\ absence = [i \in AbsenceId |-> NoAbsence]
  /\ appointment = [v \in Appointment |->
       [provider |-> BookedAs[v].provider, body |-> BookedAs[v].body,
        active |-> TRUE, ack |-> FALSE, saw |-> {}]]
  /\ working = Stylist
  /\ known = {v \in Appointment : Outside(v, weekly, override)}   \* booked over the hours, by somebody
  /\ placed = {}
  /\ editing = [d \in Editor |-> NoEdit]
  /\ edits = 0

BeginsEdit(d) == editing[d] = NoEdit /\ edits < MaxEdits /\ edits' = edits + 1

Continues(d, request) == editing' = [editing EXCEPT ![d] = request]

\* The visits that fit again need telling again when they next do not.
HoursAre(week, rows) ==
  /\ weekly' = week /\ override' = rows
  /\ known' = {v \in known : Outside(v, week, rows)}
  /\ placed' = {v \in placed : Outside(v, week, rows)}

\* Which stylists a change of the owner's hours may concern.
scopeOf(owner) == IF owner = Salon THEN Stylist ELSE {owner}

\* Mutant: removing hours answers at once, without looking who was booked.
MutimpactAfterRemoval(owner) == NoEdit

impactAfterRemoval(owner) == [at |-> "impact", owner |-> owner]

-----------------------------------------------------------------------------
(* The four edits of hours.                                                *)

addWeeklyWindow(d, owner, w) ==
  /\ BeginsEdit(d) /\ Wall!Storable(w) /\ w \notin weekly[owner]
  /\ HoursAre([weekly EXCEPT ![owner] = @ \cup {w}], override)
  /\ Continues(d, [at |-> "impact", owner |-> owner])
  /\ UNCHANGED <<absence, appointment, working>>

removeWeeklyWindow(d, owner, w) ==
  /\ BeginsEdit(d) /\ w \in weekly[owner]
  /\ HoursAre([weekly EXCEPT ![owner] = @ \ {w}], override)
  /\ Continues(d, impactAfterRemoval(owner))
  /\ UNCHANGED <<absence, appointment, working>>

\* upsertDateOverride, its first statement: is there a row already?
\* The form saves a closed day, or one window without breaks.
findOverride(d, owner, isClosed, windows) ==
  /\ BeginsEdit(d)
  /\ isClosed <=> windows = {}
  /\ \A w \in windows : Wall!Storable(w) /\ ~w.endsNextDay /\ w.breaks = {}
  /\ \E i \in IF rowsOf(owner, override) = {} THEN {0} ELSE rowsOf(owner, override) :
       Continues(d, [at |-> IF i = 0 THEN "create" ELSE "replace", id |-> i,
                     row |-> [owner |-> owner, isClosed |-> isClosed, windows |-> windows]])
  /\ UNCHANGED <<weekly, override, absence, appointment, working, known, placed>>

\* The children of the row found, in a statement of their own.
deleteChildren(d) ==
  /\ editing[d].at = "replace"
  /\ HoursAre(weekly, IF override[editing[d].id] = Removed THEN override
                      ELSE [override EXCEPT ![editing[d].id].windows = {}])
  /\ Continues(d, [editing[d] EXCEPT !.at = "update"])
  /\ UNCHANGED <<absence, appointment, working, edits>>

\* And the row again, with its new children beside whatever it has by then;
\* an update of a row that is gone fails.
updateOverride(d) ==
  LET i == editing[d].id IN
  /\ editing[d].at = "update"
  /\ IF override[i] = Removed THEN UNCHANGED <<weekly, override, known, placed>> /\ Continues(d, NoEdit)
     ELSE /\ HoursAre(weekly, [override EXCEPT ![i].isClosed = editing[d].row.isClosed,
                                               ![i].windows = @ \cup editing[d].row.windows])
          /\ Continues(d, [at |-> "impact", owner |-> editing[d].row.owner])
  /\ UNCHANGED <<absence, appointment, working, edits>>

\* UNIQUE (businessId, providerId, day): the salon's own rows have a NULL
\* provider, and NULLs are distinct.
uniqueRefuses(owner) == owner # Salon /\ rowsOf(owner, override) # {}

createOverride(d) ==
  LET row  == editing[d].row
      free == {i \in OverrideId : override[i] = NoRow}
  IN
  /\ editing[d].at = "create"
  /\ IF uniqueRefuses(row.owner) THEN UNCHANGED <<weekly, override, known, placed>> /\ Continues(d, NoEdit)
     ELSE \E i \in free :
            /\ \A j \in free : i <= j
            /\ HoursAre(weekly, [override EXCEPT ![i] = row])
            /\ Continues(d, [at |-> "impact", owner |-> row.owner])
  /\ UNCHANGED <<absence, appointment, working, edits>>

removeDateOverride(d, i) ==
  /\ BeginsEdit(d) /\ override[i] \notin {NoRow, Removed}
  /\ HoursAre(weekly, [override EXCEPT ![i] = Removed])
  /\ Continues(d, impactAfterRemoval(override[i].owner))
  /\ UNCHANGED <<absence, appointment, working>>

\* hoursImpact reads who no longer fits ...
strandedByHoursChange(d) ==
  /\ editing[d].at = "impact"
  /\ \E stranded \in strandedReadings(scopeOf(editing[d].owner)) :
       Continues(d, [at |-> "record", stranded |-> stranded])
  /\ UNCHANGED <<weekly, override, absence, appointment, working, known, placed, edits>>

\* ... and writes hours_changed_underneath on each of them.
recordHoursStranding(d) ==
  /\ editing[d].at = "record"
  /\ known' = known \cup editing[d].stranded
  /\ Continues(d, NoEdit)
  /\ UNCHANGED <<weekly, override, absence, appointment, working, placed, edits>>

-----------------------------------------------------------------------------
(* Absences, and the flag somebody set after ringing the client.           *)

addAbsence(d, form) ==
  /\ BeginsEdit(d) /\ form.span.start < form.span.end
  /\ \E i \in AbsenceId :
       /\ absence[i] = NoAbsence /\ \A j \in AbsenceId : absence[j] = NoAbsence => i <= j
       /\ absence' = [absence EXCEPT ![i] = form]
  /\ Continues(d, [at |-> "freshen", form |-> form])
  /\ UNCHANGED <<weekly, override, appointment, working, known, placed>>

\* Mutant: taking an absence away leaves the flags about it standing.
MutafterRemoval(form) == NoEdit

afterRemoval(form) == [at |-> "freshen", form |-> form]

removeAbsence(d, i) ==
  /\ BeginsEdit(d) /\ absence[i] \notin {NoAbsence, Lifted}
  /\ absence' = [absence EXCEPT ![i] = Lifted]
  /\ Continues(d, afterRemoval(absence[i]))
  /\ UNCHANGED <<weekly, override, appointment, working, known, placed>>

Unflagged(r) == [r EXCEPT !.ack = FALSE, !.saw = {}]

freshenAcknowledgments(d) ==
  LET form == editing[d].form IN
  /\ editing[d].at = "freshen"
  /\ appointment' = [v \in Appointment |-> IF /\ appointment[v].provider = form.provider
                                              /\ Wall!overlaps(appointment[v].body, form.span)
                                           THEN Unflagged(appointment[v]) ELSE appointment[v]]
  /\ Continues(d, NoEdit)
  /\ UNCHANGED <<weekly, override, absence, working, known, placed, edits>>

\* The dashboard's list, and the flag its button sets by id alone, however old
\* the list is by then; saw is what lies over the visit when the flag is set.
readConflicts(d) ==
  /\ BeginsEdit(d) /\ Conflicts # {}
  /\ Continues(d, [at |-> "page", shown |-> Conflicts])
  /\ UNCHANGED <<weekly, override, absence, appointment, working, known, placed>>

acknowledgeConflict(d, v) ==
  /\ editing[d].at = "page" /\ v \in editing[d].shown
  /\ appointment' = [appointment EXCEPT ![v].ack = TRUE, ![v].saw = Struck(v)]
  /\ Continues(d, NoEdit)
  /\ UNCHANGED <<weekly, override, absence, working, known, placed, edits>>

-----------------------------------------------------------------------------
(* Where a desk puts a visit meanwhile.                                    *)

\* The exclusion constraint: one stylist, two visits, one moment.
Overlapping(rows) ==
  \E v \in Appointment : \E x \in Appointment \ {v} :
    /\ rows[v].active /\ rows[x].active /\ rows[v].provider = rows[x].provider
    /\ Wall!overlaps(rows[v].body, rows[x].body)

\* The desk's own event is on each visit it puts somewhere, hours or no hours.
Puts(moved, rows) ==
  IF Overlapping(rows) THEN UNCHANGED <<appointment, known, placed>>
  ELSE /\ appointment' = rows
       /\ known' = known \ moved
       /\ placed' = (placed \ moved) \cup {v \in moved : OutsideOf(rows[v], weekly, override)}

\* Mutant: the flag travels to the new stylist.
MutHandedOver(r, to) == [r EXCEPT !.provider = to]

HandedOver(r, to) == [Unflagged(r) EXCEPT !.provider = to]

\* A flag survives a move within the column.
MovedAway(r, body) == [r EXCEPT !.body = body, !.saw = IF r.ack THEN Elsewhere ELSE {}]

Shifted(body, by) == [start |-> body.start + by, end |-> body.end + by]

readForReassign(d, v, to) ==
  /\ BeginsEdit(d) /\ appointment[v].active /\ appointment[v].provider # to /\ to \in working
  /\ Continues(d, [at |-> "reassign", v |-> v, to |-> to])
  /\ UNCHANGED <<weekly, override, absence, appointment, working, known, placed>>

\* The update names the id alone; the hours are not asked.
reassignAppointment(d) ==
  LET v == editing[d].v IN
  /\ editing[d].at = "reassign"
  /\ Puts({v}, [appointment EXCEPT ![v] = HandedOver(@, editing[d].to)])
  /\ Continues(d, NoEdit)
  /\ UNCHANGED <<weekly, override, absence, working, edits>>

\* findOffered: within the hours as read, no absence and nobody else there.
OfferedAt(v, to, body) ==
  /\ \E house \in patterns(Salon, weekly, override), hers \in patterns(to, weekly, override) :
       FitsIn(body, spansOf(house, hers))
  /\ StrikesAt(to, body) = {}
  /\ \A x \in Appointment \ {v} : appointment[x].active /\ appointment[x].provider = to =>
                                    ~Wall!overlaps(appointment[x].body, body)

readForMove(d, v, to, t) ==
  LET was == appointment[v]  body == Shifted(was.body, t - was.body.start) IN
  /\ BeginsEdit(d) /\ was.active /\ t # was.body.start
  /\ to = was.provider \/ to \in working
  /\ OfferedAt(v, to, body)
  /\ Continues(d, [at |-> "move", v |-> v, to |-> to, body |-> body, was |-> was.provider,
                   from |-> was.body.start])
  /\ UNCHANGED <<weekly, override, absence, appointment, working, known, placed>>

\* Conditional on the start it read; the flag goes only with the stylist.
moveAppointment(d) ==
  LET e == editing[d]  v == e.v  moved == MovedAway(appointment[v], e.body) IN
  /\ e.at = "move"
  /\ IF appointment[v].body.start # e.from THEN UNCHANGED <<appointment, known, placed>>
     ELSE Puts({v}, [appointment EXCEPT ![v] = IF e.to = e.was THEN [moved EXCEPT !.provider = e.to]
                                               ELSE HandedOver(moved, e.to)])
  /\ Continues(d, NoEdit)
  /\ UNCHANGED <<weekly, override, absence, working, edits>>

\* Breaks and gaps are not asked, only the first opening and the last close.
WithinTheDay(body, spans) ==
  spans # {} => (\E w \in spans : w.start <= body.start) /\ (\E w \in spans : body.end <= w.end)

\* The visits that move, in the chair or not: nobody who stays is in the way.
previewPush(d, s, moved, by) ==
  /\ BeginsEdit(d) /\ moved # {} /\ by # 0
  /\ \A v \in moved : appointment[v].active /\ appointment[v].provider = s
  /\ \E house \in patterns(Salon, weekly, override), hers \in patterns(s, weekly, override) :
       \A v \in moved : WithinTheDay(Shifted(appointment[v].body, by), spansOf(house, hers))
  /\ \A v \in moved, x \in Appointment \ moved :
       appointment[x].active /\ appointment[x].provider = s =>
         ~Wall!overlaps(appointment[x].body, Shifted(appointment[v].body, by))
  /\ Continues(d, [at |-> "push", moved |-> moved, by |-> by])
  /\ UNCHANGED <<weekly, override, absence, appointment, working, known, placed>>

\* From wherever each has got to, by id; the flags stay.
pushColumn(d) ==
  /\ editing[d].at = "push"
  /\ Puts(editing[d].moved,
          [v \in Appointment |-> IF v \in editing[d].moved
                                 THEN MovedAway(appointment[v], Shifted(appointment[v].body, editing[d].by))
                                 ELSE appointment[v]])
  /\ Continues(d, NoEdit)
  /\ UNCHANGED <<weekly, override, absence, working, edits>>

\* Cancelled, or reinstated where it was: the hours are not asked.
tapped(v) ==
  /\ edits < MaxEdits /\ edits' = edits + 1
  /\ Puts({v}, [appointment EXCEPT ![v].active = ~@])
  /\ UNCHANGED <<weekly, override, absence, working, editing>>

setActive(s) ==
  /\ edits < MaxEdits /\ edits' = edits + 1
  /\ working' = IF s \in working THEN working \ {s} ELSE working \cup {s}
  /\ UNCHANGED <<weekly, override, absence, appointment, known, placed, editing>>

HoursNext ==
  \/ \E d \in Editor, owner \in Owner, w \in WindowForm :
       addWeeklyWindow(d, owner, w) \/ removeWeeklyWindow(d, owner, w)
  \/ \E d \in Editor, owner \in Owner, isClosed \in BOOLEAN :
       \E windows \in {{}} \cup {{w} : w \in WindowForm} : findOverride(d, owner, isClosed, windows)
  \/ \E d \in Editor, i \in OverrideId : removeDateOverride(d, i)
  \/ \E d \in Editor : \/ deleteChildren(d) \/ updateOverride(d) \/ createOverride(d)
                       \/ strandedByHoursChange(d) \/ recordHoursStranding(d)
                       \/ freshenAcknowledgments(d) \/ readConflicts(d)
                       \/ reassignAppointment(d) \/ moveAppointment(d) \/ pushColumn(d)
  \/ \E d \in Editor, form \in AbsenceForm : addAbsence(d, form)
  \/ \E d \in Editor, i \in AbsenceId : removeAbsence(d, i)
  \/ \E d \in Editor, v \in Appointment : acknowledgeConflict(d, v)
  \/ \E d \in Editor, v \in Appointment, to \in Stylist : readForReassign(d, v, to)
  \/ \E d \in Editor, v \in Appointment, to \in Stylist, t \in MoveTo : readForMove(d, v, to, t)
  \/ \E d \in Editor, s \in Stylist, moved \in SUBSET Appointment, by \in PushBy :
       previewPush(d, s, moved, by)
  \/ \E v \in Appointment : tapped(v)
  \/ \E s \in Stylist : setActive(s)

HoursSpec == HoursInit /\ [][HoursNext]_hoursVars

-----------------------------------------------------------------------------
Windows == WindowForm \cup UNION {Usual[o] : o \in Owner}
OverrideRow == [owner : Owner, isClosed : BOOLEAN, windows : SUBSET WindowForm]
Appointments ==
  [provider : Stylist, body : AnyBody,
   active : BOOLEAN, ack : BOOLEAN, saw : SUBSET (AbsenceId \cup Elsewhere)]

\* What a session of the staff may be in the middle of.
EditForm ==
  {NoEdit}
  \cup [at : {"create"}, id : {0}, row : OverrideRow]
  \cup [at : {"replace", "update"}, id : OverrideId, row : OverrideRow]
  \cup [at : {"impact"}, owner : Owner]
  \cup [at : {"record"}, stranded : SUBSET Appointment]
  \cup [at : {"freshen"}, form : AbsenceForm]
  \cup [at : {"page"}, shown : SUBSET Appointment]
  \cup [at : {"reassign"}, v : Appointment, to : Stylist]
  \cup [at : {"move"}, v : Appointment, to : Stylist, body : AnyBody, was : Stylist, from : Int]
  \cup [at : {"push"}, moved : SUBSET Appointment, by : Int]

HoursTypeOK ==
  /\ weekly \in [Owner -> SUBSET Windows]
  /\ override \in [OverrideId -> OverrideRow \cup {NoRow, Removed}]
  /\ absence \in [AbsenceId -> AbsenceForm \cup {NoAbsence, Lifted}]
  /\ appointment \in [Appointment -> Appointments]
  /\ working \subseteq Stylist /\ known \subseteq Appointment /\ placed \subseteq Appointment
  /\ editing \in [Editor -> EditForm]
  /\ edits \in Nat

Changing == {"replace", "update", "create", "impact", "record"}

\* Nobody is stranded in silence: once every edit of hours has run to its
\* end, a visit that no longer fits the working hours carries an event that
\* says so, however the edits of two desks fell between each other's
\* statements (A-047; strandedByHoursChange after every one of the four
\* writes).  A visit that a move, a push, a reassignment or a reinstatement
\* put where the hours no longer are carries that act's event instead.
NobodyIsStrandedInSilence ==
  (\A d \in Editor : editing[d].at \notin Changing) =>
    {v \in Appointment : Outside(v, weekly, override)} \subseteq known \cup placed

\* "A stale flag hides a client behind a decision somebody made about a
\* situation that no longer exists" (R-7): once the desks are done with the
\* absences, a flag stands only while exactly the absences that lay over the
\* visit when it was set still do -- unless the visit was since moved within
\* its column, which keeps the flag (reschedule.ts:203, pushColumn).
FlagIsAboutTheseAbsences ==
  (\A d \in Editor : editing[d].at # "freshen") =>
    \A v \in Appointment : appointment[v].ack => appointment[v].saw \in {Struck(v), Elsewhere}

\* The settings keep their types; a visit that no longer fits the hours carries
\* an event that says so, and a flag stands only while the absences it was set
\* about do (A-047, R-7).
TheStrandedAreKnown ==
  HoursTypeOK /\ NobodyIsStrandedInSilence /\ FlagIsAboutTheseAbsences

\* "Racing two edits should end with one row rather than a constraint error"
\* (upsertDateOverride): there is never a second override for one owner and
\* one day.
OneOverridePerDay == \A owner \in Owner : Cardinality(rowsOf(owner, override)) <= 1
=============================================================================
