# Bookable: models, model checking and proofs

Bookable is the appointment service of a salon: TypeScript over PostgreSQL.
Its rules are pure functions (`packages/core`), its operations are transactions
(`packages/db`), and its last line of defence is SQL (triggers, CHECKs and
exclusion constraints under `packages/db/prisma/migrations`). Web actions and
the API (`apps/web/lib`) and the MCP server (`apps/mcp`) call the operations.

This directory models that system in TLA+, checks the models with TLC and
proves theorems about them with TLAPS. Paths below are relative to `src/`.

## Inventory

| Component | State it keeps | Operations | Hard behaviour | What makes it correct |
|---|---|---|---|---|
| Status rules (`core/scheduling/status.ts`, `transitions.ts`) | none | `canTransition`, `canReschedule`, `canUndo`, `staffCancellationStatus` | boundaries of four time windows | one table, asked by every caller |
| Status transitions (`db/appointments/transition.ts`) | status, actual timestamps, event log, notices | `transitionAppointment`, `undoStatusMove` | two requests on one row; a stale `now`; undo of a tap that is no longer the last | log explains status; timestamps are measurements; each act announced once |
| Occupancy (migrations) | blocks, chair hold | three triggers, three exclusion constraints, two CHECKs | cut and restored no-shows, patterns with gaps, empty ranges | no double-booking, no shared chair |
| Booking (`db/booking/book.ts`) | appointment rows | `bookAppointment` | engine read before the write; overrides the constraint cannot see | D-24: what the engine saw is still true |
| Rescheduling (`db/appointments/reschedule.ts`) | start, end, provider, chair | `rescheduleAppointment` | two locks; a stale snapshot | no deadlock; only movable visits move |
| Change of services (`db/appointments/change-services.ts`) | lines, length, pattern, chair | `changeVisitServices` | no lock; races a move | length and chair follow the services |
| No-show release (`db/appointments/release-time.ts`) | `releasedAt` | `releaseNoShowTime`, `unreleaseNoShowTime` | restoring a tail that was sold | nothing sold is taken back |
| Room (`db/booking/resources.ts`, `db/scheduling/resource-load.ts`) | none | `canSeat`, `findFreeResource`, `chairForMove` | the rule exists three times (offer, chooser, constraint) | the three agree |
| Slot engine (`core/scheduling/slot-engine.ts`, `db/scheduling/*`) | none | `buildSlotQuery`, `computeSlots` | a busy set read at READ COMMITTED | never offers what is sold |
| Walk-ins, any provider, series (`db/booking/*`) | series rows | wrappers around `bookAppointment` | partial failure of a series | each visit is a booking of its own |
| Column push, running late, day view and sheet (`db/day/*`, `apps/web/lib/day`) | delay per column, prints | `previewPush`, `pushColumn`, `setRunningLate`, `projectedDelays`, `loadColumn`, `assignLanes`, print and its drift | deferred constraints, no lock, update by id; stamps taken before commits | the preview's promise is kept; nobody waits for an empty chair; a page leaves nothing out; the paper's drift is true |
| Outbox and reminders (`db/notifications/*`) | outbox rows, claims, attempts | `enqueueNotification`, `dispatchPendingNotifications`, `sendDueReminders` | stale claims, retries, crash between send and record, staleness | never lost; sent twice only through an expired claim |
| API idempotency (`db/api/idempotency.ts`, `apps/web/lib/api/idempotent.ts`) | claims | claim, finish, release | reclaim of a live request | one write per key |
| Webhooks (`apps/web/lib/api/webhooks.ts`) | cursor, deliveries, failure count | `fanOut`, `claimDelivery`, `deliver` | sequence numbers at commit, lost counts | every event delivered at least once |
| Waitlist, opened-up time (`db/waitlist`, `db/appointments/opened.ts`) | entries; nothing for the time | create, match, offer, fulfil; `listOpenedSlots` | pages that are old; spans derived from events | what was given back is offered; nobody waits in vain |
| Availability, impact, reassignment (`db/availability`) | windows, overrides, absences, acknowledgements | edit, freshen, acknowledge, reassign | no transaction around any edit; windows edited under standing visits | open when both the week and the day say so; the stranded are known |
| Clients (`db/clients`) | records, notes and versions, links | save a note, merge, attach, book | stale pages, merges without a lock, chains of merges | a merge loses no fact and no visit |
| Call lists (`db/appointments/owed.ts`, `call-down.ts`, `db/reports/lapsed.ts`) | attempts, marks | derive, record, clear | derived from what desks add in any order | who is owed a call is on one list, and only then |
| Panel and website (`apps/web/app/staff/book`, `apps/web/app/book`) | what a screen shows | ask, tap, submit, reload | answers out of order; retries; reloads | the screen is one answer; what is confirmed is what she saw |
| MCP proposals, API moves (`apps/mcp`, `apps/web/lib/api`) | proposals, versions | prepare, commit, `If-Match` | three commits in one call | what is proposed is done, once |
| Manage links (`db/appointments/manage-token.ts`, `apps/web/lib/manage`) | tokens and their expiry | issue, re-point, revoke; confirm, cancel, move from a page | two links, one of which may not arrive; a page that is old | the link lives until a day after the visit; a refusal has a cause |
| Settings (`db/settings`) | policy, menu, parts, qualifications, roster | the save of each screen, statement by statement | no transaction around a save; a booking between two statements | a visit's pattern is one somebody saved; nobody can book what she is too late to cancel |
| Time zones (`core/availability`, `core/time`) | none | wall time to instants and back | gaps and doubled hours | engine and grid agree on those days too |
| Authentication, API keys, rate limit, reports, seeds, drawing | various | various | sequential, or no scheduling state | not modelled, see the end |

The components interact through one database. Every writer of the appointment
table meets the triggers and the constraints; booking, moving and changing
services ask the engine and the room inside their own transaction. The
transactions of status, booking, moving and services write outbox rows, which the
dispatcher sends later, and re-point the client's link; every write leaves an
event, which the webhooks fan out, the opened-up list and the sheet's count derive
from, and the call lists read. Screens hold what they read until somebody presses
a button, and are the reason most reads here are old when they are used.

## Modules

| Checked in | Components (and what they are built on) | Proofs |
|---|---|---|
| `MCLifecycle`, `MCDesk` | `Lifecycle` (`Statuses`), `Opened` (`Occupancy`, `Hours`), `Series` (`Statuses`), `Settings` | `LifecycleProofs`, `ListsProofs` |
| `MCBook`, `MCRoom` | `Book` twice (`Occupancy`), `Clients`, `Column` (`Occupancy`, `Lanes`, `Hours`), `Links` (`Statuses`) | `BookProofs`, `RecordsProofs` |
| `MCOutbox`, `MCOutbound` | `Outbox`, `Webhooks`, `Book` | `OutboxProofs`, `RequestsProofs` |
| `MCDay` | `Idempotency` (refining `WriteOnce`), `Online` (`Offers`), `Rounds` (`Statuses`), `Availability` (`Hours`) | `RequestsProofs`, `OffersProofs`, `RecordsProofs`, `ListsProofs` |
| `MCFront` | `Panel` (`Offers`), `Proposals` (`Statuses`), `Waiting`, `Sheet`, `Push` (`Occupancy`), `RunningLate`, `SlotEngine` (`Hours`) | `ScreensProofs`, `OffersProofs`, `ListsProofs`, `RecordsProofs` |

Each module is one component with its own variables, `Init`, an action per
operation or statement, and its properties. The composed modules put the
components a group of people works with beside each other: a variable `part`
names the component a behaviour is of, the others stand still in an initial state
of theirs, and the constant `Component` gives the parts a run is about. A step of
the composition is a step of one component, so each is explored as if alone. Where
two components share state in the code, the state is in both modules, and the
module says what of the other it takes for granted (`Book` the edges of
`Statuses`, `Series` that a visit finds its time or not).

### The visit, the book and its messages

**Statuses.** The status sets and the table of transitions as a set of clauses.
A clause groups the lines of `TRANSITIONS` that differ only in their source
status. `canTransition`, `canReschedule`, `canUndo` and the cutoff are the
functions of the same names; the refusals' wording is left out.

**Lifecycle.** One appointment row, its status events, the dedupe keys of its
notices, and concurrent sessions. `Read` is a request's read and decision
(`ReadMove`, `ReadUndo`); `WriteMove` and `WriteUndo` are the conditional UPDATE
with the event and the notice that commit with it; `MovedFirst` is the UPDATE
that found no row; `RolledBack` any other failure. `Tick` moves the clock; a
request may carry a `now` up to `MaxLag` ticks old. The web action's three
buttons are in: a status, the desk's single cancel button that lets the clock
decide, and its override, which needs a reason. Undo moves the status of a row
directly, outside the table, as the code does.

**Occupancy.** Pure operators over a table of rows: what the triggers write
(`blockedRange`, `blocks`, `body`), what the constraints refuse (`accepted`),
what the readers see (`busy`, `columnFree`, `seatBlocked`, `offered`) and which
chair is chosen (`findFreeResource`). The two notions of overlap are kept apart:
`overlaps` compares bounds, as TypeScript and Prisma filters do; `rangesMeet` is
the `&&` of two `tstzrange`s, under which an empty range meets nothing. A
service stands for its lines, buffers and segment pattern.

**Book.** The committed table and one transaction per desk, at READ COMMITTED.
Each step is one statement: load (`Start...`), one advisory lock at a time
(`Lock`), the engine (`AskEngine`), the chair (`ChooseChair`), the write with its
triggers, constraints and commit (`WriteBooking`, `WriteUpdate`); `Abort` is a
lost connection or the 15 s timeout. `unchangedSince` is each update's own WHERE
and `updated` sets only the columns that update sets, so a stale snapshot is
written exactly as far as the code writes it. The write and the commit are one
step because a writer that meets an uncommitted conflict waits for it in
PostgreSQL and then decides against committed rows.

What `Book` asks of the engine is an over-approximation in one direction: the
grid, lead time, horizon, breaks, time off and the running-late delta only
remove offers, and an offer removed is a refusal (`Refuse`), which changes
nothing. So the safety properties do not depend on them. A status edge is taken
whatever the clock says, for the same reason; its clock rules are in `Lifecycle`.

**Outbox.** The `NotificationOutbox` table, a row for each dedupe key, and the
calls of the job route that work on it. One call (`job`) runs the reminder sweep
and then the dispatcher: `SweepStarts` is the sweep's query, `EnqueueReminder`
one of its transactions, `Stamp` the watermark, `Claim` the one claiming UPDATE,
`Check` the staleness question and the missing address, `Send` the provider,
`Record` the outcome written by the row's id alone. `Crash` ends a call anywhere;
`AnswerLost` is an accepted message whose answer never arrives. The book of
appointments is there as the sweep and the staleness check see it: a start and
whether the visit is still to come (`VisitChanges`). `nextAttemptAt` and the
`updatedAt` of a claim are kept as ticks to go and ticks gone, so that the state
space stays finite. The histories `delivered` and `unknown` count what the
provider accepted and what of that nobody could write down; no action reads them.

### The book: what else touches it

**Opened.** The list of time that was given back and is still empty. Nothing of
it is stored: `listOpenedSlots` derives spans from the status column, from the
payloads of four kinds of events and from the free runs of the day, and so does
the model. The operations that give time back or sell it are one step each (`Book`
has their races). The list looks back 14 days (`recent`, `Lookback`): over events by
when they were written, over a cancelled row by `updatedAt`, so whatever writes the
row again, a note for one (`setAppointmentNotes`), renews it. `gave` is a history: what a
visit's last change let go of, and when.

**Series.** One standing appointment; a week is its ordinal. `createSeries` and
`extendSeries` claim ordinals and then book a visit at a time, `endSeries` previews
and then cancels a visit at a time, and a process may die anywhere in between.

**Settings.** The owner's screens save statement by statement, outside any
transaction. `Save` opens a save, `Statement` commits its next statement, and
`bookAppointment` and `changeVisitServices` read menu, parts and qualifications at
the moments the code reads them (`WriteVisit` is the second half of a booking).

**Clients.** Records, their pinned note with its versions, and the rows that point
at a record. A desk's page is opened in two reads and saved in two steps; a merge
is read, moved and finished in separate statements; a visitor's booking looks her
up by number and name. A note is the set of facts it states.

**Links.** One visit and its manage links: issued with the confirmation and again
with a reminder, re-pointed when the visit's end moves, delivered or lost, and
opened in pages that confirm, cancel (two transactions, as in the code) or move.

**Lanes, Column.** A page of the day. `Lanes` is the loop of `assignLanes`, one
action per branch, for any set of spans; `Column` says which rows of a book are
chips, over which extent, and where the free runs lie between them. A behaviour is
one page being laid out.

### What leaves the salon

**Webhooks.** Writers commit events, which a counter row numbers at commit
(`AssignSeq`, `WriterCommits`); sweeps fan out into a delivery per endpoint, claim
and send them; receivers also read the log; the owner resumes, switches off and
replays. The first who needs the body of an event captures it (`snapshot`). What
leaves is that body, the flag of a replay, and for the endpoints that asked for them
(`Contacted`) the client's contacts as they are at the send (`deliveryBody`), which
no two sends need agree on. `replayFromSeq` decides on a cursor that was read before
its transaction (any the endpoint has `had`) and writes an absolute one, so of two
replays the later may move the cursor forward over what the first asked for.
`since` says from where on nothing was passed over in this way.

**Idempotency, WriteOnce.** A request claims its key in one committed statement,
runs the write and its record in one transaction, and gives the key back when it
failed; it may die or be held up anywhere, and no bound on time is assumed.
`WriteOnce` is what a key promises: one outcome for each key, at most one write
under it, which stands until the replay window is over. `KeepsThePromise` is the
refinement: a record that is done is an answer of the register until it expires, a
claim in progress is none, and every step is a step of `WriteOnce` or a stutter.

### The day

**Hours.** Operators only: windows and breaks in marks of the wall clock, spans of
instants, and one transition of the zone (a gap or a doubled hour) joining them.

**SlotEngine.** A day is chosen in `Init` and answered in one step, once candidate
by candidate as `computeSlots` does and once by interval subtraction as the grid's
`freeRunsFrom` does. The properties relate the answers to a definition mark by mark.

**RunningLate.** `projectedDelays` over one column, while clients arrive, sit down,
leave, cancel and are pushed, and the desk states and withdraws a lateness. A visit
is the spans it is worked in, buffers included, and is worked past its start; nobody
of the first state was checked out later than now. The sorts of the code are stable,
so two visits that tie keep the order they were read in, their start and then their
number. Two things are left out that the chain never sees: a no-show's released tail
and which of the two cancellations it was.

**Push.** `previewPush` and `pushColumn` in one transaction with the exclusion
constraints deferred to its commit: `Preview`, `ReadAgain`, `PushCommits`,
`PushFails`, with `OtherDeskWrites` in between.

**Availability.** Weekly windows, date overrides and absences as the settings
pages edit them, each statement committing on its own, each edit followed by a
reading of who no longer fits. Acknowledgements come from a page that may be old by
then and name the visit by id; what a flag is about is what lies over the visit when
it is set. Meanwhile desks reassign, move, push, cancel and reinstate the visits,
each reading first and writing later: a move is asked of the hours and of the start
it read, a push of the first opening and the last close, the others of neither. The
two readings of a move, the load and the engine's, are one step, as is a
reassignment's. The id of a deleted row is not used again, and a visit that was
booked over the hours on purpose is known from the start. A visit that one of those
acts puts where the hours are not (`placed`) carries that act's event and no
`hours_changed_underneath`, a move that read the hours before another desk's edit and
wrote after that edit's reading among them. A flag survives a move within the column
and a push, as in the code, and is then about something else (`Elsewhere`).

### The screens

**Offers, Panel, Online.** `Offers` is the three searches (anyone, a walk-in, one
stylist) over one day's marks. `Panel` is the desk's panel: every tap sends a
question, answers land in any order, `submit` posts the form, `bookAsStaff` and
`rescue` are the server's side. `Online` is the website's five screens and
`confirmAppointment`, which runs on after its page was reloaded. Both look for
somebody else at the same time when the stylist of the form has gone meanwhile.

**Rounds.** The four lists the salon telephones from, derived at each read from
visits, attempts and marks.

**Waiting.** Waitlist entries, the pages two desks read them on, and the booking
that closes the entry it came from. Whether a visit fits is a parameter here.

**Sheet.** The printed day sheet: writes stamped before they commit, the Print
button's two steps (recorded, then drawn), and the count of what changed since. Each
write asks of the row what its update asks and sets the columns that update sets
(`Meets`, `Leaves`), so two of them may meet on one visit, and any may fail. Only
what occupies its time is drawn (`sheetItems`); `left` remembers what stayed off.

**Proposals.** An assistant prepares a change, a person reads its summary,
`commit_proposal` claims, writes and records in three commits; another system reads
an appointment with its version and writes with `If-Match`. An error before the
record, before or after the write itself committed, is recorded as INTERNAL
(`Breaks`): that outcome says nothing of the book, and the property is about the
others.

## What is checked

Six runs must pass, six must find the violation of a sentence of the repository
(see Findings).

| Run | Instance | Shows |
|---|---|---|
| `lifecycle` | 1 visit [1,2], 2 sessions, clock 0..3, lag 1, 3 events; opened-up time of 2 visits; a series of 3 weeks; a menu of 2 services | `TypeOK`, `LogExplainsStatus`, `StampsAreMeasurements`, `EveryActIsAnnounced`; `WhatWasGivenBackIsOffered`; `SeriesLosesNoWeek`; `EveryVisitFits` |
| `book_room` | 3 visits, 2 desks, 2 columns, 2 chairs, 2 clients and a walk-in; 2 visits re-serviced and moved; 3 client records; every page of 3 visits; 1 visit's 2 links | `NoDoubleBooking`, `NoSharedChair`, `OffersAreHonoured`, `EveryVisitHasItsChair`; `RecordsLoseNothing`; `ChipsShareTheWidth`, `NothingIsLeftOut`; `LinkLivesADayAfter`, `RefusedOnlyIfChanged` |
| `outbox` | 1 visit, 2 starts, 2 jobs, 2 attempts, 3 upsets; 2 writers, 2 sweeps, a reader, 2 events, 2 mishaps | `OneHolder`, `DeliveredOncePerKnownAnswer`, `NoFalsePromise`, `WatermarkIsTruthful`, `SentStaysSent`; `NothingSkipped`, `OneBodyPerEvent` |
| `outbox_settles` | 2 notices, 1 job, 3 upsets; 1 writer, 1 sweep, 2 mishaps; 2 desks on 2 columns with an override and moves | `EverythingSettles` under fairness; `OverridesStillSeen` |
| `day` | 2 desks at the hours; 3 requests under 1 key; the website with 1 day of 2 marks and 2 chairs; call lists of 2 visits | `TheStrandedAreKnown`; `AnswersAgree`, `KeepsThePromise`; `ConfirmedIsWhatSheSaw`, `RescueMissesNobody`; `ListsMissNobody` |
| `front` | 2 stylists, 2 services, 2 days of 2 marks; 2 waitlist entries; 1 visit on 2 columns' paper; 2 proposals' calls; 1 push with 1 upset; 4 taps on a column; every window, break and transition of a 6-mark day | `TheScreenIsOneAnswer`, `RescueMissesNobody`; `NobodyWaitsInVain`; `DriftIsTheTruth`; `WhatIsProposedIsDone`; `PushKeepsItsPreview`; `NobodyWaitsForAnEmptyChair`, `OnlyActsMoveATurn`; `SoldIsOpenAndFree` |
| `undo_race` | as `lifecycle`, 4 events, clock stopped | **violated**: `UndoIsOneStepBack` |
| `trap` | one owner's settings | **violated**: `LeadCoversCutoffs` |
| `reinstated` | 2 visits, an override moved into cancelled time | **violated**: `TimeSoldStaysSold` |
| `moved_away` | one visit moved while cancelled or checked in | **violated**: `OnlyTheMovableMove` |
| `stale_length` | one visit moved while its services change | **violated**: `TheLengthIsTheServices` |
| `confirmed` | one visitor who books, cancels and books again | **violated**: `ConfirmedMeansBooked` |

A composed property is the conjunction of what its component promises, each with
a comment of its own in the module: `RecordsLoseNothing`, `ListsMissNobody`,
`SeriesLosesNoWeek`, `PushKeepsItsPreview`, `TheStrandedAreKnown`,
`TheScreenIsOneAnswer`, `OnlyActsMoveATurn`, `SoldIsOpenAndFree` and
`EverythingSettles` are of this kind. `RescueMissesNobody` is a definition of `Panel`
and one of `Online`: `front` checks the desk's search, `day` the website's.

Deadlock is not checked anywhere: the bounds (`MaxLog`, `MaxTime`, the ids) let
every instance run out of work, and a page that is laid out is finished. That no
request waits for ever, no message and no webhook, is `EverythingSettles`.

Each property of a passing run is paired in `PROJECT.json` with a mutated
definition that breaks it under the run's own configuration: the operators called
`Mut...` in the modules, each a way the code could plausibly be wrong.

### Bounds, and why they are enough

- *Two sessions, two desks, two jobs, two sweeps.* Every race in the code is
  between one reader's snapshot and somebody else's committed write; that other
  writer may be the same second session several times over. The proofs cover any
  number where there are proofs.
- *Ticks.* Windows and durations are a few ticks long, so each boundary (cutoff,
  start, end, grace, undo and correction windows) is crossed both ways. With
  `UndoWindow = 1` and `MaxLag = 1` an undo can be decided at the window's edge.
- *Three events* are enough for tap, correction and undo by another session, and
  for cancel, reinstate, cancel. The undo race needs four.
- *Three visits on two chairs.* One client's two visits with touching buffers and
  a stranger are the smallest case in which the two chair constraints and the
  preferred chair differ. The re-servicing of `book_room` has two visits and the
  two edits that gain and lose a chair.
- *A colour with a gap* is the composition with a pattern: worked, free, worked, so
  that a visit fits into the gap and a cut falls inside it. In `Settings` a second
  list has two gaps, so that two saved lists can be mixed up.
- *Upsets and mishaps* count what may go wrong or change from outside: a dead job,
  a lost answer, the desk's retry, a flip of the kill switch, a change of a visit.
  Three are enough for a dead job whose row is taken over by a second one and lost
  again, and for a visit moved away and back between two attempts. The webhooks have
  two mishaps, which is what two overlapping replays take, or a death and a replay,
  or a sweep that begins while another is at work and a reading of the log. The
  theorems have any number.
- *`Lookback = 1`* of a clock of several ticks: a freed slot expires within the run,
  and a note edited in time renews it.
- *`MoveTo` and `PushBy`* move a visit to two marks and by one mark either way, out of
  the hours, under an absence and back.
- *Liveness* has one job and two notices, because a row in the hands of one job is
  out of reach of the others until it goes stale, and one notice could be starved
  by the other. The safety runs have two jobs and one message.
- *A day of six marks* holds any window a form can type, over midnight or not, with
  any break or a second window beside it, on a day that stands still, skips two
  marks or repeats two. The engine's step is one mark.
- *A page of three visits* over nineteen kinds of rows, a perm with a gap and what
  fits into it among them, has every branch of `assignLanes`; the theorem about
  lanes has any number of visits.
- *Three weeks* of a series, the second in a clock change, with extensions of one
  and two weeks: two desks can claim the same ordinals in every order.
- *Four mornings* of a column: back to back, a colour whose gap takes a cut, a long
  visit, and an override over a visit with buffers that occupies the column from the
  same mark, which ties; four taps are a claim, a client seated, and two of a
  checkout, a push or another claim.
- *Three client records* are the smallest chain of merges.
- *One key* and three requests: claimed, abandoned and reclaimed, and beaten. Keys
  do not meet in the code (each is a row).
- *The website's two chairs* let one stylist lose a race while another is still free
  and has a chair; with one chair the search would have nobody to find.
- *`Reliability = 0`* in the lists of `day`: an absence counts for one day, so that a
  client is owed a call and stops being owed it within the clock.
- `MaxTaps`, `MaxActs`, `MaxDeskTaps`, `MaxPresses`, `MaxPrints`, `MaxEdits`, `MaxRequests`, `MaxProposals`,
  `MaxReads`, `MaxRounds`, `MaxEvents`, `MaxClock`, `MaxNow`, `MaxHour`, `LastTick` and
  `LastMoment` cap counters and clocks in the guards and model nothing of the code.

### Fairness

`BothFairSpec` of `MCOutbound` is the only specification with fairness, and
`EverythingSettles` the only liveness property. Its three parts assume:

- of the desks, that a connection that is alive takes its next statement (weak
  fairness on the engine, chair and write steps) and that a lock which keeps
  coming free is obtained (strong fairness on `Lock`, because PostgreSQL queues
  the waiters of an advisory lock). Nothing is assumed of `Abort`: the property
  does not rest on the timeout. The mutant that takes the two locks in the order
  they are named deadlocks two movers that swap columns;
- of the outbox, that the scheduler keeps calling the route (weak fairness on
  `SweepStarts`), that a call that is not killed takes its next step, and that time
  passes. Nothing is assumed of the provider: after `MaxAttempts` the row is
  `failed`, which is a settled state and one the desk sees. It is stated for runs
  in which sending is switched on for good at some point, because the kill switch
  leaves the queue alone on purpose;
- of the webhooks, the same of sweeps and time, and that a transaction that begins
  to commit ends, because the counter row is locked until then. Nothing is assumed
  of receivers; a delivery that is given up on is settled, and the promise is to an
  endpoint that is active from some point on, about the events past `since`: what
  overlapping replays passed over is not swept again.

## Findings

Six runs expect a violation. Each shows that a sentence of the repository does
not hold of the code as it stands.

1. *`undo_race`.* `undoStatusMove` reads the newest event and writes under
   `status = from`. If other sessions move the status away and back in between,
   the undo commits although its tap is no longer the last.
2. *`reinstated`.* A reinstatement re-picks a chair but does not ask the engine;
   an override's blocks are zero-width, so the constraint that "knows whether
   the time has been sold" does not know.
3. *`moved_away`.* A reschedule's update is conditional on the start time only,
   so a visit cancelled or checked in since it was loaded is moved.
4. *`stale_length`.* The same update writes an end computed from the services
   as loaded. For a plain visit nothing refuses it; for a visit with a pattern
   the CHECK does, with an error no caller maps to an answer.
5. *`confirmed`.* The key of an online booking is the stylist, the services, the
   time and the client, and a retry is answered by the row it finds, whatever its
   status. Whoever cancels and books the same again is told she is confirmed.
6. *`trap`.* A service taken off the menu is not looked at when the lead time is
   shortened, and not validated when it is put back. A client may then book online
   what she is at once too late to cancel.

### Noted, not run

What follows was met while modelling. Nothing here is checked by a run of its own;
several are definitions in a module that no configuration lists (their names are
given), others are why a property above is stated the way it is.

*Status, booking, moving.* A new start after midnight in an overnight window is
locked and asked under the next business day, so one window has two lock keys
(`booking/book.ts:184`); `OverridesStillSeen` is claimed for visits within a day,
and for instances without reinstated or lengthened overrides, which take no
provider-day lock. `findFreeResource` compares the bounds of a hold, so the empty
hold of a no-show released at her own start blocks a visit that lies strictly
around it, which the constraints allow (`ChooserIsNotStricter`,
`booking/resources.ts:98`). Of two in-flight bookings with one key the second is
refused as taken instead of being answered. `bookAsStaff` offers an override when
there is no chair without looking for somebody else, as the public path does. A
change of services is conditional on end and status only
(`change-services.ts:263`). A move writes back the chair it loaded
(`reschedule.ts:190`), which a change of services may have given up meanwhile: a
chair is then held by a visit that does not need one. The appointment page posts the whole service list, the
whole note and the stylist it was drawn with.

*Release and opened-up time.* A visit shortened and then cancelled or moved loses
its tail from the list (`opened.ts`, near 426); shortened twice it lists
overlapping tails; shortened and then reassigned it lists the wrong stylist; a
column push is not an event type that vacates time; the sentence of a release can
differ from the list on a tie (`release-time.ts:120`). A note saved on a cancelled
visit keeps her time on the list for another 14 days (`opened.ts:360`), which is why
the property ends where the lookback does.

*The day.* A push notice is keyed by the destination, like a move's, so a visit
pushed back to a time it was once announced at is pushed silently
(`push-column.ts:647`, `NobodyMovedSilently`); a push updates by id a visit that
was cancelled, moved or released since its preview (717), and overwrites a lateness
stated meanwhile (798). The grid says "Back at" the end of the run it draws and the
panel the end of the processing gap (`ReturnTimesAgree`, `view-model.ts:450`,
`free-runs.ts:275`). A no-show released at her own start is on no page although
she is not cancelled (`day-view.ts:410`). A break typed backwards past midnight is
stored, drawn as free and makes the engine refuse the day
(`NobodyIsDrawnThroughLunch`, `windows.ts:117`); windows that open in a skipped
hour or close in a doubled one are an hour off. A visit that was cancelled when the
sheet was drawn is not on it (`day-sheet.tsx:260`), and reinstated afterwards it is
not counted either, because a tap is no change of the column's (`changes.ts:25`):
the paper lacks a client who is coming and says nothing, which `print-drift.tsx:4`
would have it say. `DriftIsCounted` excepts exactly that visit. Nor does the count
see writes that were under way and changes of services (`print-drift.tsx:7`), and a
cancelled print dialog restarts it.

*Hours.* An override is looked up, emptied and rewritten in three statements, so
two edits leave the children of both, or two rows for the salon's day, whose NULL
provider the unique index does not compare (`OneOverridePerDay`,
`availability.ts:206`); a process that dies between an edit and its reading
records nobody; a break added over a booked visit strands nobody; a reassignment
updates by id and does not ask the hours. A move within the column and a push keep
`conflictAckAt` (`reschedule.ts:203`, `push-column.ts:717`), so the flag hides a visit
behind an absence it was not set about; a push or a reinstatement outside the hours,
or a move asked of the hours just before they changed, writes its own event and
nobody is told that the hours are not there.

*Settings.* `replaceSegments` is three commits although `segments.ts:54` says one
transaction, so parts may not add up to their service for a while or, after a crash,
for good (`PartsAddUp`); parts are saved without looking at the stylists' own
durations, which SEG-02 wants refused at save time (`OverridesFit`); a booking reads
durations twice. The guard against deactivating the last owner counts and then
writes.

*Clients.* Two merges at once break "one hop by construction" (`clients.ts:531`); a
merge overwrites a note saved while it ran, without a version of its own
(`schema.prisma:816`); the page reads the note before its newest version, so a save
from it may be accepted although the text is older (`page.tsx:53`); two online
bookings of a new person create two records.

*Series.* An extension under way while the series ends leaves visits after the end
(D-39); a process that dies before `endedAt` is written is never made up for; a
client who sat down after the preview is cancelled with the rest
(`WalkOutsAreDeliberate`, `end-series.ts:200`).

*Messages.* `MAX_ATTEMPTS` is documented as the number of times a row may be claimed
(`core/notifications/retry.ts:60`), and the claim does not read it; the job route
says it is called every five minutes (`api/jobs/reminders/route.ts:15`), and
`vercel.json` says once a day. `replayFromSeq` reads the cursor outside its
transaction (`webhook-endpoints.ts:157`): of two replays of history the later may
move the cursor forward over what the first asked for, which is then never sent,
although the comment there promises all of it. The failure count of an endpoint loses updates when
two sweeps fail at once (`webhooks.ts:186`). Of several links of a visit each keeps
the expiry of its own last re-pointing when a reminder races a move
(`manage-token.ts:51`).

*Assistant and API.* A move's commit reads where the visit is before it is reassigned
and rescheduled, so a visit moved in between is reassigned at another time than the
summary said (`prepare-reschedule.ts:104`); a cancellation counted by the clock at
commit may be late though the summary did not say so (`TheWholeSentence`); after a
refused commit, or a death between claim and write, a second call is told "already
committed". An error between the write's commit and the record, or in the record
itself, is put on file as INTERNAL although the book has changed
(`commit-proposal.ts:71`, `prepare-reschedule.ts:151`). `appointmentView` reads the row and its version in two queries, and the
version has a millisecond's resolution.

*Screens and lists.* The fallback button of the panel posts the form's current time,
and a typed time composed for the day just left is selected late
(`booking-panel.tsx:852`, 211). `setWaitlistEntryStatus` is unconditional, and two
bookings from one entry both commit (`waitlist.ts:204`, `book.ts:262`). A call mark
outlives a reinstatement and a second cancellation (`TheCallIsAboutThisDebt`); a
debtor older than the window with no completed visit is on no list (`owed.ts:16`).

## What is proved

Everything is proved for arbitrary constants: any number of sessions, desks, jobs,
writers, sweeps, requests, visits, stylists, chairs, clients and entries, any menu
and any length of the windows. The only assumptions are named and stand in the
module that declares the constants: `WindowsAssumption` (the windows are naturals),
`ColumnAssumption` (visits have their length, and a day's windows are a finite list),
`VisitAssumption`, `SalonAssumption` and `PatternAssumption` (durations are positive
and a pattern fits its service), `RequestsAssumption` (bookings are well-formed),
`OutboxAssumption` and `RunBoundAssumption` (the platform ends a job before its
claims go stale), `TimeAssumption`, `HooksAssumption` and `TypeAssumption`,
`ProposalsAssumption`, `WaitingAssumption`, `SheetAssumption`, `LinksAssumption`.
Eight more are operators that the theorems assume by name and the composed modules
assume of their instances, because the constants belong to several components:
`SeriesConstants` (the ceiling and the counts are numbers of weeks),
`OffersConstants` (stylists are numbered, lengths are naturals, a day has marks),
`PanelConstants` and `OnlineConstants` (which add the modes, the gap's time and the
numbers of the requests), `RoundsConstants` (times, windows and what no row is),
`ClientsConstants` and `AvailabilityConstants` (nobody is not a client, the salon is
not a stylist, a visit and an absence are a stylist's), `RunningLateConstants` (a
morning is finitely many visits, of finitely many spans). The runs evaluate all of them.

**LifecycleProofs.** `Inv` is inductive. `LogExplainsStatus` alone is inductive
because of the conditional UPDATE; `StampsAreMeasurements` is not. It needs to
know that a pending undo names an event that arrived at the status it read
(`RequestsAreDecided`), and that an event never undoes a later one and only a
correction leaves a terminal status (`LogIsWellFormed`): otherwise an undo could
withdraw a tap whose timestamp stays on the row. `TypeCorrect`, `LogExplains` and
`StampsMeasure` follow, and `EveryActAnnounced`: the dedupe key of a notice names an
event, so each cancellation and reinstatement on the log has one of its own.

**BookProofs.** `Inv` is `TypeOK`, the targets of the pending transactions, and
`Apart`: the blocks of two live rows of one provider do not meet, nor do the
holds of two live rows of one chair. `Apart` is kept because every step that
writes, writes one row that `accepted` has just compared with all others
(`AcceptedKeepsApart`). The statement users care about is about people, not
blocks, so two more lemmas carry it over: every tick a stylist has her hands on
a client lies in one of that visit's blocks (`HandsOnIsBlocked`, through the
pattern, the buffers and the cut of a released no-show), and every tick somebody
sits in a chair lies in the hold (`SeatedIsHeld`). `NobodyDoubleBooked` and
`NoChairShared` follow. `EveryVisitSeated` needs `ChairInv`, which says of a
transaction in flight that it has a chair in hand, or will ask for one, whenever the
row it is about to write needs one. `OffersHonoured` says that the three copies of
the room's rule agree in every reachable state: what the offer counts as free, the
chooser finds a chair for, and the constraints accept.

**OutboxProofs.** `OneHolder` is not inductive: a claim of a row another job
holds is impossible only because of time. `ClaimInv` says that a row in a job's
batch reads `sending` (`HeldIsClaimed`) and was claimed no longer ago than the
job is old, and that no job outlives the platform's bound (`JobsAreBounded`).
With `RunBoundAssumption`, that the bound is no longer than the stale-claim
window, a held row is never due, so a claim takes only rows nobody holds. The
assumption is the code's own (`dispatch.ts:48`: fifteen minutes is far longer
than any provider call) and it is needed: without it the comment's "genuine
hang" sends twice. `NoNeedlessDuplicate` adds the counts (`AnswersAreCounted`):
a row with no sent status and no answer in a job's hands has exactly as many
acceptances as were lost. `SentIsFinal` follows for every step. `RemindersAreTrue`
carries the last check's reading to the send. `TheWatermarkIsTrue` is about sweeps
that overtake each other: `WatermarkInv` adds that a sweep in flight which saw a
visit in its band has its row, or still has it to write (`SweepsAreHonest`), and that
a row once written stays (`RowsStay`).

**RequestsProofs**, idempotency. `AnswersAlwaysAgree`, and the refinement
`TheRecordKeepsThePromise`: initial states map to initial states and every step to a
step of `WriteOnce` or a stutter. `IInv` has what a reclaim makes necessary: an id
belongs to one key and is older than the next one, on the record and in every hand
(`IdsAreOfOneKey`), so the conditional commit of a request whose claim was taken over
cannot match; and an answer in a hand is the one on record for as long as its claim
is (`AnswersAreOnRecord`). No bound on the speed of a request is assumed.

**RequestsProofs**, webhooks. `NoEventSkipped` and `OneBodyForAll` rest on
`Numbering`: the committed events are a prefix of the numbers, because the counter
stays locked until its holder's commit. With `CursorsBehind` a cursor that moves to
the highest number a sweep saw passes nothing over. The first theorem is about every
cursor an endpoint has had, in whatever order replays that read an older one moved
it, and, below its start, about the history past `since`. The second is of bodies
as they leave, with contacts and replay flag beside the record; `SweepsInHand`,
`RowsHaveBodies`, `ReadersLookAfter` and `BodiesStand` say what of that a sweep, a row
and a reader still hold when others have moved on.

**RequestsProofs**, the website. `ConfirmedIsInTheBook`: a row carries the key it was
written under and the key is of its stylist, services and time (`KeyIsOfRow`); a
cancellation changes a row's status and nothing the key was made of (`RowsKept`), so
what was booked once stays a row of the book; and the request a page waits for is one
of what that page shows (`WaitsForItsOwn`). `NobodyElseWasFree` needs in addition that
what screens, requests and answers carry are visits and instants, and the book a list
of rows in time (`OnlineInTime`), and then `OffersProofs`.

**OffersProofs.** `SearchFindsSomebody`: if anybody could be booked at a time, the
search for that time names somebody who could. It names the least booked stylist, so
the point is that there is one. A load is the number of marks of a finite book
(`LoadIsNat`), rows end at an instant because the length of a visit is a number
(`LengthIsNat`), and that length is a sum defined by a recursive function whose
existence is itself a theorem, `SumExists`. It is proved by the least counterexample,
from the well-foundedness of finite sets, since the library's induction takes an
operator. A finite nonempty set of loads has a least one in the same way (`LeastOf`).

**RecordsProofs.** `TheListsMissNobody` (`Rounds`): the lists are derived, so what
remains is that the rows they are derived from are true: a visit is written before it
is cancelled (`CreatedFirst`), a call is noted under the day the client heard
(`CallsSayTheDay`) and a mark has a time (`MarksAreTimed`). `TheRecordsLoseNothing`
(`Clients`): `RecordsInv` says that two desks never hold the same record
(`LocksExclude`), that a save about to be written is of the newest version
(`DesksAtWork`, `SavesFollowTheirBase`) and, as long as no merge ran beside another
request on the same records, that rows, tombstones and notes are the survivor's and
what each request has read still stands (`NobodyOvertaken`).

**RecordsProofs**, the column running late. `NobodyLateWaitsForNobody` and
`OnlyActsMoveTurns`, for any visits, spans, claims and pushes. The invariant is small
(`ColumnInv`: the types, and nobody was checked out later than now); the work is the
cascade. A client's delay is defined by those of the clients before her, so first the
delays must exist: `DelaysExist` takes, of the sets of clients closed under what comes
before and without delays, one with no member to spare (`SmallestSet`), and computes
the delay of the member that comes last in it. The order is total on ties because the
sort is stable (`OneOrder`), and a maximum over a finite set of spans is one of them
(`MaxIsGreatest`). With `TheDelaysCascade` each delay has a reason (`HeldUp`), which is
the first theorem. For time alone, of the clients who got later one comes first; what
she waits for is no later than it was, so she is not either (`TimeDelaysNobody`). For
the push, every span behind the chair and every delay move by the same minutes in
opposite directions until the delay is spent (`ThePushComesOff`). That step needs what
the property first left out: a client pushed out of a colour's gap begins after the
rinse and waits for it from then on, and two clients booked over each other no longer
wait as they did. `EachInTurn` says that neither is the case; a push that moves such a
client does move her turn, in the code too.

**ScreensProofs**, the panel. `TheScreenIsConsistent`: `PanelInv` numbers the questions
(`QuestionsAreNumbered`) and says that the newest is the one on the screen
(`LatestIsOnScreen`), that its times are out once and nothing is chosen meanwhile but
what a named stylist's column will choose again (`TimesAreOutOnce`), that no services
have no times (`NothingIsAskedOfNothing`), and which questions each mode asks
(`ModesApart`). `TheRescueMissesNobody` adds `PanelInTime`, as the website's does, and
rests on `OffersProofs`.

**ScreensProofs**, proposals. `ProposalsAreKept`: a proposal is carried out at most
once, as its summary named it; an outcome `ok` or `refused` is true of the book, and
INTERNAL, which an error writes before or after the book changed, promises nothing;
a write with `If-Match` replaces what its caller read. `PInv` links four places that know of one proposal
(`OneCall`, `CallsKnow`, `OutcomesAreTrue`, `WrittenOnce`) and says that a row that has
the version a caller read is the row she read (`ApiKnows`).

**ListsProofs.** `NobodyIsForgotten`: of `WInv`, `ABookedEntryIsClosed` needs that what
a page shows names entries that are on file and that an entry is only ever closed.
`TheCountIsTrue`: of `SInv`, `SheetsAreTrue` says that each visit a sheet has elsewhere
than the book has either an event stamped later than the sheet or a write that was
open while it was made (`TrueOrNews`), and that of what the sheet left off only a tap
gives a visit back its time (`OnlyTapsRevive`); it is inductive only with
`StampsHavePassed` and `SheetsAreOnRecord`. The writes may meet on one row, fail, and
land elsewhere than they were asked; what is needed of them is that rows stay
(`RowsRemain`) and that a write leaves an event of its stamp. `StandingLosesNoWeek` (`Series`): weeks planned from a list begin
where the rule ended at some moment since (`ListIsOfThePast`), so a claim that succeeds
asks for weeks nobody asked for; and a session that ends the series knows, of every
week in the book from there on, that it will cancel it, leaves it and says so, or that
it came into the book since (`EndAnswers`). `TheStrandedAreTold` (`Availability`): `HInv` says
that the row an edit is about to replace is its owner's or deleted meanwhile
(`RowsAreTheirs`), that a visit outside the hours is known or some desk is on its way
to looking at it (`SilenceEnds`), and that a flag is right or a desk is on its way to
lifting it (`FlagsAreFresh`); each statement of an edit hands that duty to the next.
Moves, pushes, reassignments and taps in between disturb neither: what they put
outside the hours is `placed`, and a flag they carry along is about `Elsewhere`.

**BookProofs**, pages and links. `ChipsShare` is the correctness of `assignLanes` for
every set of spans. `LInv` says what the loop relies on: spans are taken in the order
of the day (`TakenInOrder`), a lane's end is that of its last occupant and bounds the
others (`LanesEndWithSomebody`, `LanesEndWithTheLast`, `LanesAreLines`), a closed
cluster is over before anything outside it begins (`ClustersAreApart`), and the lane
opened last was opened with somebody in each of the others (`LanesAreNeeded`), which
is why no width is split further than it must be. `LinkLives` and `RefusedForCause`:
`KInv` says that the first link that reached her follows the end of the visit wherever
it moves (`TheFirstLinkFollows`) and that a page on which the visit still stands as
drawn shows what can still be done (`PagesAreTrue`).

**BookProofs**, a page of the day. `NothingLeftOut` rests on `WhatIsLeft`: the free runs
that `subtractSpans` returns, for any hours and any visits, contain an instant exactly
when the hours do and no worked span does. `union` and `subtractSpans` are folds over a
set in the order of the day. The library's induction takes an operator, so the fold is
stated of functions (`Folded`): such a function exists (`FoldExists`), keeps what each
step keeps (`FoldKeeps`) and is the only one (`FoldIsOne`), each by the least set without
it (`FewestOf`). What one step does is `JoinedCovers` and `TakenOutCovers`; the first
needs that a span joins runs that all begin before it, which is what the sort is for.
With that, a moment that is not for sale is in somebody's worked span, and her chip lies
over all of them (`ExtentCovers`), unless it is the buffer of a visit of another day,
which that day's page shows: the property says so since this proof asked for it.

Four of these proofs changed a model, because a step was not provable and the reason
was the model. In `Availability` the id of a deleted override could be used again,
and an edit under way would then have written another owner's row, which no database
id allows; and visits booked over the hours were not known at the start. In
`Clients` two arms of a merge's CASE overlapped, so which one applied was left open,
and an unused row had a client. In `Rounds` a miss older than the reliability window
made the list's silence look wrong, when the code leaves it out on purpose: the
property now says so. In `RunningLate` a visit's buffers, ties, a claim stated twice
in the same words and a push without a claim were missing, and the property about
pushes claimed what is not so for a client in a gap.

### Only model-checked

- `EverythingSettles`: liveness under fairness is out of the prover's reach.
- `OverridesStillSeen`: true of the instances whose overrides are neither reinstated
  nor lengthened and whose visits do not cross midnight, so it is no theorem of `Book`.
- `WhatWasGivenBackIsOffered` (`Opened`): it rests on which run is picked for a span
  and on what each event says of it, beyond what the runs cover (`WhatIsLeft`).
- `SoldIsOpenAndFree` (`SlotEngine`): it goes through windows that carry their breaks,
  and through the zone.
- `PushKeepsItsPreview` (`Push`): the same, of the cascade over the visits in its way.
- `EveryVisitFits` (`Settings`): a saved list of parts is laid end to end by a fold, and
  that its ordinals and its sum are those of one form is a statement about it.

## Plan

1. Proofs of what is left of `Settings`, its ordinals and parts, and of the free runs
   and the push's cascade, which want a fold whose steps can be cited one at a time, as
   `SumExists` does for the length of a visit and `DelaysExist` for the delays.
2. The told marks of the list of clients to ring when a column runs late
   (`running-late.ts:388`), no-shows not yet released, another chair for one visit,
   the extension request of a series from its page.
3. Pure algorithms against reference definitions: `scaleSegments`, `worstCutoff`, the
   retry table.

## Not modelled

- Wording, layout, payloads and prices; the dashboard's and the reports' sums; seeds
  and the evaluation harness.
- Authentication, sessions, API keys, scopes and the rate limiter's window: they keep
  no scheduling state and gate a request before anything here begins.
- Several resource types: one type of chair stands for them, and a composition names
  whether its first line requires it. Chairs, buffers and the order of lists are not
  edited.
- Calendar arithmetic over weeks and weekdays: one day, its neighbour and one
  transition of the clock are.
- The told-about marks of running late, bulk reassignment (a loop of the single one),
  rebooking suggestions and the list of open days behind a manage link.
- Of the outbox: channels an adapter does not support, the sandbox redirect, and the
  two screens that list rows. The dispatcher's clock is taken to be read when it
  claims, which is the next thing it does. Of the webhooks: the edits of an endpoint's
  address, secret, event types and wish for contacts.
- Of `Availability`: a process that dies between an edit and its reading, and bookings
  made meanwhile (the visits are there from the start, cancelled ones come back).
- The browser's drawing. A page is what its loader returned and what its reducer
  keeps.
