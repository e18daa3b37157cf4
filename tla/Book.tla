-------------------------------- MODULE Book --------------------------------
(***************************************************************************)
(* The appointment book under concurrent writers: bookAppointment,         *)
(* rescheduleAppointment, changeVisitServices, the occupancy half of       *)
(* transitionAppointment, releaseNoShowTime and unreleaseNoShowTime.       *)
(*                                                                         *)
(* A desk is one database transaction at READ COMMITTED.  Each step is one *)
(* statement and reads what is committed when it runs: load the row, take  *)
(* the provider-day locks one at a time, ask the engine, choose a chair,   *)
(* write.  The write, the triggers it fires, the exclusion constraints and *)
(* the COMMIT are one step: a writer that meets an uncommitted conflict    *)
(* waits for it in PostgreSQL, so it decides against committed rows too.   *)
(***************************************************************************)
EXTENDS Occupancy

CONSTANTS
  Desk,          \* concurrent transactions
  DayLength,     \* ticks in a business day
  Bookings,      \* requested visits: rows with status booked and no chair
  Moves,         \* requested destinations <<provider, startAt>>
  Edits,         \* requested new services
  StatusMoves,   \* requested <<from, to>> edges of the transition table
  Releases       \* instants at which a no-show is given up on

Edge == UNION {clause.from \X {clause.to} : clause \in TRANSITIONS}

ASSUME RequestsAssumption ==
  /\ DayLength \in Nat \ {0}
  /\ Bookings \subseteq Row
  /\ \A r \in Bookings : /\ r.status = "booked" /\ r.chair = NoChair
                         /\ r.releasedAt = NoTime
                         /\ r.endAt = r.startAt + Duration[r.service]
  /\ Moves \subseteq Provider \X Int
  /\ Edits \subseteq Service
  /\ StatusMoves \subseteq Edge
  /\ Releases \subseteq Int

VARIABLES
  rows,    \* the committed Appointment table
  txn      \* what each desk's transaction has read and decided, and its locks

vars == <<rows, txn>>

Key == Provider \X Int
NoAppt == "none"

Idle == [pc |-> "idle", held |-> {}]

Working == [pc : {"lock", "engine", "seat", "write"},
            op : {"book", "move", "services", "status", "release", "restore"},
            id : Appt \cup {NoAppt},
            seen : Row \cup {NoRow},     \* the row as it was loaded
            want : Row,                  \* the row the transaction would write
            held : SUBSET Key, todo : SUBSET Key]

-----------------------------------------------------------------------------
businessDay(t) == t \div DayLength

\* Mutant: the column she leaves is locked and the one she joins is not.
MutmoveLockKeys(seen, want) ==
  {<<seen.provider, businessDay(seen.startAt)>>}

\* moveLockKeys: both provider-days, once each.
moveLockKeys(seen, want) ==
  {<<seen.provider, businessDay(seen.startAt)>>,
   <<want.provider, businessDay(want.startAt)>>}

Before(j, k) == j[1] < k[1] \/ (j[1] = k[1] /\ j[2] < k[2])

\* Mutant: source first, then destination, in the order they were named.
MutnextKey(t) ==
  IF t.op = "move" /\ <<t.seen.provider, businessDay(t.seen.startAt)>> \in t.todo
  THEN {<<t.seen.provider, businessDay(t.seen.startAt)>>}
  ELSE t.todo

\* The least key still to take: every transaction locks in the same order.
nextKey(t) == {k \in t.todo : \A j \in t.todo \ {k} : Before(k, j)}

unheld(k) == \A d \in Desk : k \notin txn[d].held

Transaction(pc, op, id, seen, want, keys) ==
  [pc |-> pc, op |-> op, id |-> id, seen |-> seen, want |-> want,
   held |-> {}, todo |-> keys]

Begin(d, t) ==
  /\ txn' = [txn EXCEPT ![d] = t]
  /\ UNCHANGED rows

-----------------------------------------------------------------------------
Init ==
  /\ rows = [a \in Appt |-> NoRow]
  /\ txn = [d \in Desk |-> Idle]

\* Bound: a booking starts only while an id is left for it.
IdLeftOver ==
  Cardinality({d \in Desk : txn[d].pc # "idle" /\ txn[d].op = "book"})
    < Cardinality({a \in Appt : rows[a] = NoRow})

\* bookAppointment, up to its lock.
StartBook(d) ==
  /\ txn[d].pc = "idle"
  /\ IdLeftOver
  /\ \E r \in Bookings :
       Begin(d, Transaction("lock", "book", NoAppt, NoRow, r,
                            {<<r.provider, businessDay(r.startAt)>>}))

\* rescheduleAppointment: load, refuse a move to where it already is,
\* assertMovable, then the locks.
StartMove(d) ==
  /\ txn[d].pc = "idle"
  /\ \E a \in Appt : LET r == rows[a] IN
       /\ r.status \in {"booked", "confirmed"}
       /\ \E m \in Moves :
            LET want == [r EXCEPT !.provider = m[1], !.startAt = m[2],
                                  !.endAt = m[2] + Duration[r.service]]
            IN /\ m[2] # r.startAt
               /\ Begin(d, Transaction("lock", "move", a, r, want, moveLockKeys(r, want)))

\* changeVisitServices: no lock, and the engine only when the visit grew and
\* the desk is not overriding.
StartServices(d) ==
  /\ txn[d].pc = "idle"
  /\ \E a \in Appt : LET r == rows[a] IN
       /\ canChangeServices(r.status)
       /\ \E s \in Edits \ {r.service}, isOverride \in BOOLEAN :
            LET want == [r EXCEPT !.service = s, !.endAt = r.startAt + Duration[s]]
                grew == Duration[s] > Duration[r.service]
            IN Begin(d, Transaction(IF grew /\ ~isOverride THEN "engine" ELSE "seat",
                                    "services", a, r, want, {}))

\* Time given back and now taken again picks a chair (A-116).
reinstating(from, to) == from \in SlotFreeing /\ to \notin SlotFreeing

\* transitionAppointment along an edge of the table.
StartStatus(d) ==
  /\ txn[d].pc = "idle"
  /\ \E a \in Appt, e \in StatusMoves : LET r == rows[a] IN
       /\ r.status = e[1]
       /\ Begin(d, Transaction(
            IF reinstating(e[1], e[2]) /\ r.chair # NoChair THEN "seat" ELSE "write",
            "status", a, r, [r EXCEPT !.status = e[2]], {}))

\* releasableAt: a no-show not yet released, at an instant within its visit.
releasableAt(r, at) ==
  /\ r.status = "no_show" /\ r.releasedAt = NoTime
  /\ r.startAt <= at /\ at < r.endAt

StartRelease(d) ==
  /\ txn[d].pc = "idle"
  /\ \E a \in Appt, at \in Releases :
       /\ releasableAt(rows[a], at)
       /\ Begin(d, Transaction("write", "release", a, rows[a],
                               [rows[a] EXCEPT !.releasedAt = at], {}))

\* unreleaseNoShowTime, up to its write.
StartRestore(d) ==
  /\ txn[d].pc = "idle"
  /\ \E a \in Appt :
       /\ rows[a].status = "no_show" /\ rows[a].releasedAt # NoTime
       /\ Begin(d, Transaction("write", "restore", a, rows[a],
                               [rows[a] EXCEPT !.releasedAt = NoTime], {}))

-----------------------------------------------------------------------------
\* pg_advisory_xact_lock on one provider-day, then the next.
Lock(d) ==
  /\ txn[d].pc = "lock"
  /\ \E k \in nextKey(txn[d]) :
       /\ unheld(k)
       /\ txn' = [txn EXCEPT ![d].held = @ \cup {k}, ![d].todo = @ \ {k},
                             ![d].pc = IF txn[d].todo = {k} THEN "engine" ELSE "lock"]
  /\ UNCHANGED rows

\* Mutant: a session lock, kept by the pooled connection.
MutEnd(d) == txn' = [txn EXCEPT ![d].pc = "idle"]

\* A refusal, or a write the database refuses, rolls back: nothing is written
\* and the transaction-scoped locks go.
End(d) == txn' = [txn EXCEPT ![d] = Idle]

Refuse(d) == End(d) /\ UNCHANGED rows

\* The engine asked again inside the transaction.  An override books whatever
\* it answers.
engineAllows(t) ==
  \/ t.op = "book" /\ t.want.isOverride
  \/ offered(rows, t.id, t.want)

AskEngine(d) ==
  /\ txn[d].pc = "engine"
  /\ IF engineAllows(txn[d])
     THEN txn' = [txn EXCEPT ![d].pc = "seat"] /\ UNCHANGED rows
     ELSE Refuse(d)

\* Mutant: a change of services carries the chair it has forward.
MutneedsSeat(t) == IF t.op = "book" THEN ~t.want.isOverride /\ NeedsChair[t.want.service]
                   ELSE t.seen.chair # NoChair

\* An override holds no chair; a move re-picks the chair it holds and never
\* starts or stops holding one.
needsSeat(t) ==
  IF t.op \in {"book", "services"}
  THEN ~t.want.isOverride /\ NeedsChair[t.want.service]
  ELSE t.seen.chair # NoChair

\* A visit that gains a chair is not excluded from the holds it looks at: as
\* it was loaded, it had none.
excludedFromHolds(t) == IF t.want.chair = NoChair THEN NoAppt ELSE t.id

chairsFor(t) ==
  IF needsSeat(t) THEN findFreeResource(rows, excludedFromHolds(t), t.want, t.want.chair)
                  ELSE {NoChair}

ChooseChair(d) ==
  /\ txn[d].pc = "seat"
  /\ IF chairsFor(txn[d]) = {} THEN Refuse(d)
     ELSE \E c \in chairsFor(txn[d]) :
            /\ txn' = [txn EXCEPT ![d].want.chair = c, ![d].pc = "write"]
            /\ UNCHANGED rows

\* One row written, if the database accepts it, and the transaction is over.
Commit(d, a, r) ==
  /\ End(d)
  /\ rows' = IF accepted(rows, a, r) THEN [rows EXCEPT ![a] = r] ELSE rows

\* writeAppointment.
WriteBooking(d) ==
  /\ txn[d].pc = "write" /\ txn[d].op = "book"
  /\ \E a \in Appt : rows[a] = NoRow /\ Commit(d, a, txn[d].want)

\* The WHERE of each conditional update, on the current row.
unchangedSince(t) ==
  LET r == rows[t.id] IN
  CASE t.op = "move" -> r.startAt = t.seen.startAt
    [] t.op = "services" -> r.endAt = t.seen.endAt /\ r.status = t.seen.status
    [] t.op = "status" -> r.status = t.seen.status
    [] t.op = "release" -> r.releasedAt = NoTime /\ r.status = "no_show"
    [] OTHER -> r.releasedAt = t.seen.releasedAt /\ r.status = "no_show"

\* The columns each update sets; every other column keeps its current value.
updated(t) ==
  LET r == rows[t.id]
      w == t.want
  IN CASE t.op = "move" ->
            [r EXCEPT !.startAt = w.startAt, !.endAt = w.endAt, !.provider = w.provider,
                      !.chair = IF t.seen.chair # NoChair THEN w.chair ELSE r.chair]
       [] t.op = "services" ->
            [r EXCEPT !.endAt = w.endAt, !.service = w.service,
                      !.chair = IF t.seen.chair # NoChair \/ w.chair # NoChair
                                THEN w.chair ELSE r.chair]
       [] t.op = "status" ->
            [r EXCEPT !.status = w.status,
                      !.chair = IF reinstating(t.seen.status, w.status) /\ t.seen.chair # NoChair
                                THEN w.chair ELSE r.chair]
       [] OTHER -> [r EXCEPT !.releasedAt = w.releasedAt]

\* The conditional UPDATE of every other operation, and its zero-row answer.
WriteUpdate(d) ==
  /\ txn[d].pc = "write" /\ txn[d].op # "book"
  /\ IF unchangedSince(txn[d]) THEN Commit(d, txn[d].id, updated(txn[d]))
                               ELSE Refuse(d)

\* A lost connection or the 15 s transaction timeout: rolled back.
Abort(d) == txn[d].pc # "idle" /\ Refuse(d)

Takes(d) ==
  \/ StartBook(d) \/ StartMove(d) \/ StartServices(d)
  \/ StartStatus(d) \/ StartRelease(d) \/ StartRestore(d)

Step(d) ==
  \/ Lock(d) \/ AskEngine(d) \/ ChooseChair(d)
  \/ WriteBooking(d) \/ WriteUpdate(d)

Next == \E d \in Desk : Takes(d) \/ Step(d) \/ Abort(d)

Spec == Init /\ [][Next]_vars

\* A connection that lives takes its next statement; PostgreSQL queues the
\* waiters of an advisory lock, so a lock that keeps coming free is obtained.
Fairness ==
  \A d \in Desk : /\ SF_vars(Lock(d))
                  /\ WF_vars(AskEngine(d) \/ ChooseChair(d) \/ WriteBooking(d) \/ WriteUpdate(d))

FairSpec == Spec /\ Fairness
-----------------------------------------------------------------------------
(* What the book promises.                                                 *)

TypeOK ==
  /\ rows \in [Appt -> Row \cup {NoRow}]
  /\ txn \in [Desk -> Working \cup {Idle}]

Sold(a) == a \in Live(rows) /\ ~rows[a].isOverride

\* The ticks a stylist has her hands on this client, told from the visit alone
\* and not from the blocks a trigger wrote.
HandsOn(r) ==
  {t \in r.startAt..(r.endAt - 1) :
     /\ (r.status = "no_show" /\ r.releasedAt # NoTime) => t < r.releasedAt
     /\ Parts[r.service] = <<>> \/ \E i \in 1..Len(Parts[r.service]) :
          /\ r.startAt + Parts[r.service][i][1] <= t
          /\ t < r.startAt + Parts[r.service][i][2]}

\* No stylist is ever hands-on with two clients at once, however the writers
\* interleave and whatever was moved, re-serviced, released or reinstated;
\* only a staff override may do that (D-2, D-8).
NoDoubleBooking ==
  \A a, b \in Appt :
    (a # b /\ Sold(a) /\ Sold(b) /\ rows[a].provider = rows[b].provider)
      => HandsOn(rows[a]) \cap HandsOn(rows[b]) = {}

\* The ticks a client sits in her chair.
Seated(r) ==
  {t \in r.startAt..(r.endAt - 1) : IsCut(r) => t < r.releasedAt}

\* No chair ever has two people in it, and the clean-down around a visit is
\* given only to the same client's next one (D-30, A-063).
NoSharedChair ==
  \A a, b \in Appt :
    (a # b /\ Sold(a) /\ Sold(b) /\ rows[a].chair = rows[b].chair
       /\ rows[a].chair # NoChair)
      => /\ Seated(rows[a]) \cap Seated(rows[b]) = {}
         /\ (rows[a].client = rows[b].client /\ rows[a].client # NoClient)
              \/ ~rangesMeet(blockedRange(rows[a]), blockedRange(rows[b]))

\* Every visit that needs a chair has one, through moves, changes of service
\* and reinstatements that race each other; only an override stands (RES-03).
EveryVisitHasItsChair ==
  \A a \in Appt : (Sold(a) /\ NeedsChair[rows[a].service]) => rows[a].chair # NoChair

\* Under the provider-day lock, what the engine saw of the overrides is still
\* true when the row is written: no customer is put on time a staff override
\* has taken, the one conflict the exclusion constraint cannot see (D-24,
\* races.test.ts 1f).
OverridesStillSeen ==
  \A d \in Desk :
    LET t == txn[d] IN
    (/\ t.pc \in {"seat", "write"}
     /\ t.op = "move" \/ (t.op = "book" /\ ~t.want.isOverride))
      => \A b \in Live(rows) \ {t.id} :
           (rows[b].isOverride /\ rows[b].provider = t.want.provider)
             => ~overlaps(Envelope(t.want), Envelope(rows[b]))

\* A time the engine offers, and nobody else takes, is never refused: the
\* busy set, the room's answer, the chair chooser and the three constraints
\* agree on every book the desks can produce (A-063, A-082).
OffersAreHonoured ==
  \A r \in Bookings :
    (~r.isOverride /\ offered(rows, NoAppt, r))
      => LET chairs == IF NeedsChair[r.service]
                       THEN findFreeResource(rows, NoAppt, r, NoChair) ELSE {NoChair}
         IN /\ chairs # {}
            /\ \A c \in chairs : accepted(rows, NoAppt, [r EXCEPT !.chair = c])

\* The other direction: a chair the database would give is one the chooser
\* sees as free, so work the room can take is not refused
\* (resource-load.ts: "a reader stricter than the constraint does not fail safe").
\* No run checks it, and it is not kept: the empty range of a no-show released
\* at its own start stops the chooser (resources.ts:98) and not the database.
ChooserIsNotStricter ==
  \A r \in Bookings, c \in Chair :
    LET held == [r EXCEPT !.chair = c] IN
    (/\ resource_no_overlap(rows, NoAppt, held)
     /\ resource_body_no_overlap(rows, NoAppt, held))
      => c \in freeChairs(rows, NoAppt, r)

\* Time r would be hands-on in while another live row already is, overrides by
\* the whole range they lie over.
onSoldTime(a, r) ==
  \E b \in Live(rows) \ {a} :
    /\ rows[b].provider = r.provider
    /\ \E x \in busy(rows[b]), y \in busy(r) : overlaps(x, y)

\* A visit that takes its time back, or restores it, never lands on time sold
\* since (transitions.ts: the constraint knows whether the time has been sold).
TimeSoldStaysSold ==
  [][ \A a \in Appt :
        LET r == rows'[a] IN
        (/\ rows[a] # NoRow /\ r.status \in Active /\ ~r.isOverride
         /\ rows[a].status \notin Active \/ ~(busy(r) \subseteq busy(rows[a])))
          => ~onSoldTime(a, r) ]_vars

\* A reschedule moves only what is still booked or confirmed: never a client
\* in the building, a finished visit or a cancelled one (canReschedule).
OnlyTheMovableMove ==
  [][ \A a \in Appt :
        (rows[a] # NoRow /\ rows'[a].startAt # rows[a].startAt)
          => rows[a].status \in {"booked", "confirmed"} ]_vars

\* A visit lasts as long as the services on it, though moves and changes of
\* service race each other (VISIT-01; schema.prisma on segmentPattern).
TheLengthIsTheServices ==
  \A a \in Appt :
    rows[a] # NoRow => rows[a].endAt = rows[a].startAt + Duration[rows[a].service]

\* Every request ends: taking both lock keys in one order leaves no circle of
\* movers waiting on each other (reschedule.ts moveLockKeys).
EveryRequestEnds == \A d \in Desk : txn[d].pc # "idle" ~> txn[d].pc = "idle"
=============================================================================
