----------------------------- MODULE BookProofs -----------------------------
(***************************************************************************)
(* Proofs about Book for any salon, any number of desks and appointments   *)
(* and any requests: type correctness, that no stylist is hands-on with    *)
(* two clients (NoDoubleBooking), that no chair is shared                  *)
(* (NoSharedChair), that every visit that needs a chair has one            *)
(* (EveryVisitHasItsChair), and that what the engine offers is honoured    *)
(* (OffersAreHonoured).                                                    *)
(*                                                                         *)
(* The two safety properties speak of what happens to people, and the      *)
(* constraints of what the triggers wrote.  The invariant Apart is what    *)
(* the constraints keep true of the whole table; HandsOnIsBlocked and      *)
(* SeatedIsHeld say that the triggers leave nothing out.                   *)
(*                                                                         *)
(* Then three promises of pages drawn from the book.  That assignLanes     *)
(* paints nobody over and squeezes nobody (Lanes), for every set of spans: *)
(* the invariant says what the loop relies on - spans are taken in the     *)
(* order of the day, a lane's end is that of its last occupant and bounds  *)
(* the others, and whatever is in a closed cluster is over before anything *)
(* outside it begins.  And that a client's link lives and is not refused   *)
(* without cause (Links), for any menu, starts and pages: her first link   *)
(* follows the end of the visit, and a page on which the visit still       *)
(* stands as it was drawn shows what can still be done.  And that no part  *)
(* of a stylist's hours is missing on her page (Column): what is left of   *)
(* the hours when the visits are taken out of them, as a fold one span     *)
(* after another, is what of them nothing was taken from (WhatIsLeft).     *)
(***************************************************************************)
EXTENDS Book, Lanes, Links, Column, FiniteSetTheorems, TLAPS

\* What the exclusion constraints keep true of every two live rows.
BlocksApart(rs) ==
  \A a, b \in Live(rs) :
    (a # b /\ rs[a].provider = rs[b].provider)
      => \A x \in blocks(rs[a]), y \in blocks(rs[b]) : ~rangesMeet(x, y)

ChairsApart(rs) ==
  \A a, b \in Live(rs) :
    (a # b /\ rs[a].chair = rs[b].chair /\ rs[a].chair # NoChair)
      => /\ ~rangesMeet(body(rs[a]), body(rs[b]))
         /\ sameHolder(rs[a].client, rs[b].client)
              \/ ~rangesMeet(blockedRange(rs[a]), blockedRange(rs[b]))

Apart == BlocksApart(rows) /\ ChairsApart(rows)

\* A transaction on an existing visit names a row that is there: nothing
\* deletes one.
Targets ==
  \A d \in Desk : (txn[d].pc # "idle" /\ txn[d].op # "book")
                    => txn[d].id \in Appt /\ rows[txn[d].id] \in Row

Inv == TypeOK /\ Targets /\ Apart

-----------------------------------------------------------------------------
(* The shape of the data.                                                  *)

LEMMA NoRowIsNoRow == NoRow \notin Row
BY DEF NoRow, Row, AppointmentStatus

\* Anything with a status of the vocabulary is a row.
LEMMA StatusMeansRow ==
  ASSUME TypeOK, NEW a \in Appt, rows[a].status \in AppointmentStatus
  PROVE rows[a] \in Row
<1>1. rows[a] \in Row \cup {NoRow}
  BY DEF TypeOK
<1>2. NoRow.status = "none"
  BY DEF NoRow
<1> QED
  BY <1>1, <1>2 DEF AppointmentStatus

LEMMA EdgeType ==
  ASSUME NEW e \in Edge
  PROVE e[1] \in AppointmentStatus /\ e[2] \in AppointmentStatus
<1>1. PICK clause \in TRANSITIONS : e \in clause.from \X {clause.to}
  BY DEF Edge
<1>2. clause.from \subseteq AppointmentStatus /\ clause.to \in AppointmentStatus
  BY DEF TRANSITIONS, Clause, AppointmentStatus, NotYetArrived, SlotFreeing
<1> QED
  BY <1>1, <1>2

LEMMA DayKeyType ==
  ASSUME NEW p \in Provider, NEW t \in Int
  PROVE <<p, businessDay(t)>> \in Key
<1>1. businessDay(t) \in Int
  BY RequestsAssumption DEF businessDay
<1> QED
  BY <1>1 DEF Key

LEMMA TransactionType ==
  ASSUME NEW pc \in {"lock", "engine", "seat", "write"},
         NEW op \in {"book", "move", "services", "status", "release", "restore"},
         NEW id \in Appt \cup {NoAppt}, NEW seen \in Row \cup {NoRow},
         NEW want \in Row, NEW keys \in SUBSET Key
  PROVE Transaction(pc, op, id, seen, want, keys) \in Working
BY DEF Transaction, Working

LEMMA EndType ==
  ASSUME TypeOK, NEW d \in Desk, End(d)
  PROVE txn' \in [Desk -> Working \cup {Idle}]
BY DEF TypeOK, End

LEMMA ActiveIsWorking ==
  ASSUME TypeOK, NEW d \in Desk, txn[d].pc # "idle"
  PROVE txn[d] \in Working
BY DEF TypeOK, Idle

LEMMA ChairType ==
  ASSUME NEW rs, NEW self, NEW r, NEW prefer,
         NEW c \in findFreeResource(rs, self, r, prefer)
  PROVE c \in Chair
BY DEF findFreeResource, freeChairs

LEMMA UpdatedType ==
  ASSUME NEW t \in Working, rows[t.id] \in Row
  PROVE updated(t) \in Row
<1> DEFINE r == rows[t.id]
           w == t.want
<1>1. r \in Row /\ w \in Row
  BY DEF Working
<1> HIDE DEF r, w
<1>2. [r EXCEPT !.startAt = w.startAt, !.endAt = w.endAt, !.provider = w.provider,
                !.chair = IF t.seen.chair # NoChair THEN w.chair ELSE r.chair] \in Row
  BY <1>1 DEF Row
<1>3. [r EXCEPT !.endAt = w.endAt, !.service = w.service,
                !.chair = IF t.seen.chair # NoChair \/ w.chair # NoChair
                          THEN w.chair ELSE r.chair] \in Row
  BY <1>1 DEF Row
<1>4. [r EXCEPT !.status = w.status,
                !.chair = IF reinstating(t.seen.status, w.status) /\ t.seen.chair # NoChair
                          THEN w.chair ELSE r.chair] \in Row
  BY <1>1 DEF Row
<1>5. [r EXCEPT !.releasedAt = w.releasedAt] \in Row
  BY <1>1 DEF Row
<1> QED
  BY <1>2, <1>3, <1>4, <1>5 DEF updated, r, w

-----------------------------------------------------------------------------
(* What a request has read by the time it is a transaction.                *)

LEMMA MoveWanted ==
  ASSUME NEW r \in Row, NEW m \in Moves
  PROVE LET want == [r EXCEPT !.provider = m[1], !.startAt = m[2],
                              !.endAt = m[2] + Duration[r.service]]
        IN want \in Row /\ moveLockKeys(r, want) \in SUBSET Key
<1> DEFINE want == [r EXCEPT !.provider = m[1], !.startAt = m[2],
                             !.endAt = m[2] + Duration[r.service]]
<1>1. m[1] \in Provider /\ m[2] \in Int
  BY RequestsAssumption
<1>2. r.service \in Service /\ r.provider \in Provider /\ r.startAt \in Int
  BY DEF Row
<1>3. m[2] + Duration[r.service] \in Int
  BY <1>1, <1>2, SalonAssumption
<1>4. want \in Row
  BY <1>1, <1>3 DEF Row
<1>5. want.provider \in Provider /\ want.startAt \in Int
  BY <1>4 DEF Row
<1> HIDE DEF want
<1>6. moveLockKeys(r, want) \in SUBSET Key
  BY <1>2, <1>5, DayKeyType DEF moveLockKeys
<1> QED
  BY <1>4, <1>6 DEF want

LEMMA ServicesWanted ==
  ASSUME NEW r \in Row, NEW s \in Edits
  PROVE [r EXCEPT !.service = s, !.endAt = r.startAt + Duration[s]] \in Row
<1>1. s \in Service /\ r.startAt \in Int
  BY RequestsAssumption DEF Row
<1>2. r.startAt + Duration[s] \in Int
  BY <1>1, SalonAssumption
<1> QED
  BY <1>1, <1>2 DEF Row

\* Every start opens a well-typed transaction on a row that is there.
LEMMA StartOpens ==
  ASSUME TypeOK, NEW d \in Desk, Takes(d)
  PROVE \E t \in Working : /\ Begin(d, t)
                           /\ t.op # "book" => t.id \in Appt /\ rows[t.id] \in Row
<1>1. CASE StartBook(d)
  <2>1. PICK r \in Bookings :
          Begin(d, Transaction("lock", "book", NoAppt, NoRow, r,
                               {<<r.provider, businessDay(r.startAt)>>}))
    BY <1>1 DEF StartBook
  <2>2. r \in Row
    BY RequestsAssumption
  <2>3. {<<r.provider, businessDay(r.startAt)>>} \in SUBSET Key
    <3>1. r.provider \in Provider /\ r.startAt \in Int
      BY <2>2 DEF Row
    <3> QED
      BY <3>1, DayKeyType
  <2>4. Transaction("lock", "book", NoAppt, NoRow, r,
                    {<<r.provider, businessDay(r.startAt)>>}) \in Working
    BY <2>2, <2>3, TransactionType
  <2> QED
    BY <2>1, <2>4 DEF Transaction
<1>2. CASE StartMove(d)
  <2>1. PICK a \in Appt, m \in Moves :
          /\ rows[a].status \in {"booked", "confirmed"}
          /\ LET want == [rows[a] EXCEPT !.provider = m[1], !.startAt = m[2],
                                         !.endAt = m[2] + Duration[rows[a].service]]
             IN Begin(d, Transaction("lock", "move", a, rows[a], want,
                                     moveLockKeys(rows[a], want)))
    BY <1>2 DEF StartMove
  <2>2. rows[a] \in Row
    BY <2>1, StatusMeansRow DEF AppointmentStatus
  <2> DEFINE want == [rows[a] EXCEPT !.provider = m[1], !.startAt = m[2],
                                     !.endAt = m[2] + Duration[rows[a].service]]
             keys == moveLockKeys(rows[a], want)
  <2>3. want \in Row /\ keys \in SUBSET Key
    BY <2>2, MoveWanted
  <2>4. Begin(d, Transaction("lock", "move", a, rows[a], want, keys))
    BY <2>1
  <2> HIDE DEF want, keys
  <2>5. Transaction("lock", "move", a, rows[a], want, keys) \in Working
    BY <2>2, <2>3, TransactionType
  <2> QED
    BY <2>2, <2>4, <2>5 DEF Transaction
<1>3. CASE StartServices(d)
  <2>1. PICK a \in Appt, s \in Edits, pc \in {"engine", "seat"} :
          /\ rows[a].status \in ServiceEditable
          /\ Begin(d, Transaction(pc, "services", a, rows[a],
                        [rows[a] EXCEPT !.service = s, !.endAt = rows[a].startAt + Duration[s]],
                        {}))
    BY <1>3 DEF StartServices, canChangeServices
  <2>2. rows[a] \in Row
    BY <2>1, StatusMeansRow DEF AppointmentStatus, ServiceEditable
  <2> DEFINE want == [rows[a] EXCEPT !.service = s, !.endAt = rows[a].startAt + Duration[s]]
  <2>3. want \in Row
    BY <2>2, ServicesWanted
  <2>4. Begin(d, Transaction(pc, "services", a, rows[a], want, {}))
    BY <2>1
  <2> HIDE DEF want
  <2>5. Transaction(pc, "services", a, rows[a], want, {}) \in Working
    BY <2>2, <2>3, TransactionType
  <2> QED
    BY <2>2, <2>4, <2>5 DEF Transaction
<1>4. CASE StartStatus(d)
  <2>1. PICK a \in Appt, e \in StatusMoves, pc \in {"seat", "write"} :
          /\ rows[a].status = e[1]
          /\ Begin(d, Transaction(pc, "status", a, rows[a],
                                  [rows[a] EXCEPT !.status = e[2]], {}))
    BY <1>4 DEF StartStatus
  <2>2. e[1] \in AppointmentStatus /\ e[2] \in AppointmentStatus
    BY RequestsAssumption, EdgeType
  <2>3. rows[a] \in Row
    BY <2>1, <2>2, StatusMeansRow
  <2> DEFINE want == [rows[a] EXCEPT !.status = e[2]]
  <2>4. want \in Row
    BY <2>2, <2>3 DEF Row
  <2>5. Begin(d, Transaction(pc, "status", a, rows[a], want, {}))
    BY <2>1
  <2> HIDE DEF want
  <2>6. Transaction(pc, "status", a, rows[a], want, {}) \in Working
    BY <2>3, <2>4, TransactionType
  <2> QED
    BY <2>3, <2>5, <2>6 DEF Transaction
<1>5. CASE StartRelease(d) \/ StartRestore(d)
  <2>1. PICK a \in Appt, op \in {"release", "restore"}, at \in Int \cup {NoTime} :
          /\ rows[a].status = "no_show"
          /\ Begin(d, Transaction("write", op, a, rows[a],
                                  [rows[a] EXCEPT !.releasedAt = at], {}))
    BY <1>5, RequestsAssumption DEF StartRelease, StartRestore, releasableAt
  <2>2. rows[a] \in Row
    BY <2>1, StatusMeansRow DEF AppointmentStatus
  <2> DEFINE want == [rows[a] EXCEPT !.releasedAt = at]
  <2>3. want \in Row
    BY <2>2 DEF Row
  <2>4. Begin(d, Transaction("write", op, a, rows[a], want, {}))
    BY <2>1
  <2> HIDE DEF want
  <2>5. Transaction("write", op, a, rows[a], want, {}) \in Working
    BY <2>2, <2>3, TransactionType
  <2> QED
    BY <2>2, <2>4, <2>5 DEF Transaction
<1> QED
  BY <1>1, <1>2, <1>3, <1>4, <1>5 DEF Takes

-----------------------------------------------------------------------------
(* What a step does to the transactions and to the table.                  *)

\* A transaction keeps the operation and the row it was opened for.
OnSameVisit(t, u) == u.op = t.op /\ u.id = t.id

\* The table is as it was, or one row was written that the database accepts.
RowWritten ==
  \/ rows' = rows
  \/ \E a \in Appt, r \in Row : accepted(rows, a, r) /\ rows' = [rows EXCEPT ![a] = r]

LEMMA CommitWrites ==
  ASSUME TypeOK, NEW d \in Desk, NEW a \in Appt, NEW r \in Row, Commit(d, a, r)
  PROVE txn' \in [Desk -> Working \cup {Idle}] /\ txn' = [txn EXCEPT ![d] = Idle] /\ RowWritten
<1>1. End(d)
  BY DEF Commit
<1> QED
  BY <1>1, EndType DEF Commit, End, RowWritten

LEMMA StepEffect ==
  ASSUME TypeOK, Targets, NEW d \in Desk, Step(d) \/ Abort(d)
  PROVE /\ \E u \in Working \cup {Idle} :
             /\ txn' = [txn EXCEPT ![d] = u]
             /\ u.pc # "idle" => txn[d].pc # "idle" /\ OnSameVisit(txn[d], u)
        /\ RowWritten
<1> DEFINE Moved(u) == /\ txn' = [txn EXCEPT ![d] = u]
                       /\ u.pc # "idle" => txn[d].pc # "idle" /\ OnSameVisit(txn[d], u)
<1>1. ASSUME End(d)
      PROVE Idle \in Working \cup {Idle} /\ Moved(Idle)
  BY <1>1 DEF End, Idle
<1>2. CASE Lock(d)
  <2>1. PICK k \in nextKey(txn[d]) :
          txn' = [txn EXCEPT ![d].held = @ \cup {k}, ![d].todo = @ \ {k},
                             ![d].pc = IF txn[d].todo = {k} THEN "engine" ELSE "lock"]
    BY <1>2 DEF Lock
  <2>2. txn[d] \in Working /\ txn \in [Desk -> Working \cup {Idle}]
    BY <1>2, ActiveIsWorking DEF Lock, TypeOK
  <2>3. k \in Key
    BY <2>2 DEF nextKey, Working
  <2> DEFINE u == [txn[d] EXCEPT !.held = @ \cup {k}, !.todo = @ \ {k},
                                 !.pc = IF txn[d].todo = {k} THEN "engine" ELSE "lock"]
  <2>4. u \in Working
    BY <2>2, <2>3 DEF Working
  <2>5. txn' = [txn EXCEPT ![d] = u]
    BY <2>1, <2>2
  <2>6. OnSameVisit(txn[d], u)
    BY <2>2 DEF OnSameVisit, Working
  <2>7. txn[d].pc # "idle"
    BY <1>2 DEF Lock
  <2> HIDE DEF u
  <2> QED
    BY <1>2, <2>4, <2>5, <2>6, <2>7 DEF Lock, RowWritten
<1>3. CASE AskEngine(d)
  <2>1. CASE engineAllows(txn[d])
    <3> DEFINE u == [txn[d] EXCEPT !.pc = "seat"]
    <3>1. txn[d] \in Working /\ txn \in [Desk -> Working \cup {Idle}]
      BY <1>3, ActiveIsWorking DEF AskEngine, TypeOK
    <3>2. u \in Working /\ OnSameVisit(txn[d], u)
      BY <3>1 DEF Working, OnSameVisit
    <3>3. txn' = [txn EXCEPT ![d] = u] /\ rows' = rows /\ txn[d].pc # "idle"
      BY <1>3, <2>1, <3>1 DEF AskEngine
    <3> HIDE DEF u
    <3> QED
      BY <3>2, <3>3 DEF RowWritten
  <2>2. CASE ~engineAllows(txn[d])
    <3>1. End(d) /\ rows' = rows
      BY <1>3, <2>2 DEF AskEngine, Refuse
    <3> QED
      BY <1>1, <3>1 DEF RowWritten
  <2> QED
    BY <2>1, <2>2
<1>4. CASE ChooseChair(d)
  <2>1. CASE chairsFor(txn[d]) = {}
    <3>1. End(d) /\ rows' = rows
      BY <1>4, <2>1 DEF ChooseChair, Refuse
    <3> QED
      BY <1>1, <3>1 DEF RowWritten
  <2>2. CASE chairsFor(txn[d]) # {}
    <3>1. PICK c \in chairsFor(txn[d]) :
            txn' = [txn EXCEPT ![d].want.chair = c, ![d].pc = "write"] /\ rows' = rows
      BY <1>4, <2>2 DEF ChooseChair
    <3>2. txn[d] \in Working /\ txn \in [Desk -> Working \cup {Idle}] /\ txn[d].pc # "idle"
      BY <1>4, ActiveIsWorking DEF ChooseChair, TypeOK
    <3>3. c \in Chair \cup {NoChair}
      BY ChairType DEF chairsFor
    <3> DEFINE w == [txn[d].want EXCEPT !.chair = c]
               u == [txn[d] EXCEPT !.want = w, !.pc = "write"]
    <3>4. w \in Row
      <4>1. txn[d].want \in Row
        BY <3>2 DEF Working
      <4> QED
        BY <3>3, <4>1 DEF Row
    <3>5. txn' = [txn EXCEPT ![d] = u]
      BY <3>1, <3>2
    <3> HIDE DEF w
    <3>6. u \in Working /\ OnSameVisit(txn[d], u)
      BY <3>2, <3>4 DEF Working, OnSameVisit
    <3> HIDE DEF u
    <3> QED
      BY <3>1, <3>2, <3>5, <3>6 DEF RowWritten
  <2> QED
    BY <2>1, <2>2
<1>5. CASE WriteBooking(d)
  <2>1. PICK a \in Appt : Commit(d, a, txn[d].want)
    BY <1>5 DEF WriteBooking
  <2>2. txn[d].want \in Row
    BY <1>5, ActiveIsWorking DEF WriteBooking, Working
  <2>3. End(d) /\ RowWritten
    BY <2>1, <2>2, CommitWrites DEF Commit
  <2> QED
    BY <1>1, <2>3
<1>6. CASE WriteUpdate(d)
  <2>1. CASE unchangedSince(txn[d])
    <3>1. txn[d] \in Working /\ txn[d].id \in Appt /\ rows[txn[d].id] \in Row
      BY <1>6, ActiveIsWorking DEF WriteUpdate, Targets
    <3>2. updated(txn[d]) \in Row
      BY <3>1, UpdatedType
    <3>3. Commit(d, txn[d].id, updated(txn[d]))
      BY <1>6, <2>1 DEF WriteUpdate
    <3>4. End(d) /\ RowWritten
      BY <3>1, <3>2, <3>3, CommitWrites DEF Commit
    <3> QED
      BY <1>1, <3>4
  <2>2. CASE ~unchangedSince(txn[d])
    <3>1. End(d) /\ rows' = rows
      BY <1>6, <2>2 DEF WriteUpdate, Refuse
    <3> QED
      BY <1>1, <3>1 DEF RowWritten
  <2> QED
    BY <2>1, <2>2
<1>7. CASE Abort(d)
  <2>1. End(d) /\ rows' = rows
    BY <1>7 DEF Abort, Refuse
  <2> QED
    BY <1>1, <2>1 DEF RowWritten
<1> QED
  BY <1>2, <1>3, <1>4, <1>5, <1>6, <1>7 DEF Step

-----------------------------------------------------------------------------
(* The constraints keep every two live rows apart.                         *)

\* Rows are compared by whole numbers, whatever was cut or overridden.
LEMMA RangesAreNumbers ==
  ASSUME NEW r \in Row
  PROVE /\ blockedRange(r).start \in Int /\ blockedRange(r).end \in Int
        /\ body(r).start \in Int /\ body(r).end \in Int
        /\ Envelope(r).start \in Int /\ Envelope(r).end \in Int
<1>1. /\ r.startAt \in Int /\ r.endAt \in Int
      /\ r.service \in Service /\ r.releasedAt \in Int \cup {NoTime}
  BY DEF Row
<1>2. BufferBefore[r.service] \in Nat /\ BufferAfter[r.service] \in Nat
  BY <1>1, SalonAssumption
<1>3. IsCut(r) => r.releasedAt \in Int
  BY <1>1 DEF IsCut
<1>4. Envelope(r).start \in Int /\ Envelope(r).end \in Int
  BY <1>1, <1>2 DEF Envelope, Span
<1>5. blockedEnd(r) \in Int
  BY <1>1, <1>3, <1>4 DEF blockedEnd
<1> QED
  BY <1>1, <1>3, <1>4, <1>5 DEF blockedRange, body, Span

LEMMA MeetingIsMutual ==
  ASSUME NEW x, NEW y, rangesMeet(x, y)
  PROVE rangesMeet(y, x)
BY DEF rangesMeet, overlaps

LEMMA HoldersAreMutual ==
  ASSUME NEW c1, NEW c2, sameHolder(c1, c2)
  PROVE sameHolder(c2, c1)
BY DEF sameHolder

LEMMA AcceptedKeepsApart ==
  ASSUME BlocksApart(rows), ChairsApart(rows), TypeOK,
         NEW a \in Appt, NEW r \in Row, accepted(rows, a, r),
         rows' = [rows EXCEPT ![a] = r]
  PROVE BlocksApart(rows') /\ ChairsApart(rows')
<1>1. /\ rows'[a] = r
      /\ \A b \in Appt \ {a} : rows'[b] = rows[b]
  BY DEF TypeOK
<1>2. \A b \in Live(rows') \ {a} : b \in Live(rows) /\ rows'[b] = rows[b]
  BY <1>1 DEF Live
<1>3. a \in Live(rows') => r.status \in Active
  BY <1>1 DEF Live
<1>4. BlocksApart(rows')
  <2> SUFFICES ASSUME NEW b \in Live(rows'), NEW c \in Live(rows'),
                      b # c, rows'[b].provider = rows'[c].provider,
                      NEW x \in blocks(rows'[b]), NEW y \in blocks(rows'[c])
               PROVE ~rangesMeet(x, y)
    BY DEF BlocksApart
  <2>1. CASE b # a /\ c # a
    BY <1>2, <2>1 DEF BlocksApart
  <2>2. CASE b = a
    BY <1>1, <1>2, <1>3, <2>2 DEF accepted, block_no_overlap
  <2>3. CASE c = a
    <3>1. ~rangesMeet(y, x)
      BY <1>1, <1>2, <1>3, <2>3 DEF accepted, block_no_overlap
    <3> QED
      BY <3>1, MeetingIsMutual
  <2> QED
    BY <2>1, <2>2, <2>3
<1>5. ChairsApart(rows')
  <2> DEFINE Clear(p, q) == /\ ~rangesMeet(body(p), body(q))
                            /\ sameHolder(p.client, q.client)
                                 \/ ~rangesMeet(blockedRange(p), blockedRange(q))
  <2> SUFFICES ASSUME NEW b \in Live(rows'), NEW c \in Live(rows'),
                      b # c, rows'[b].chair = rows'[c].chair, rows'[b].chair # NoChair
               PROVE Clear(rows'[b], rows'[c])
    BY DEF ChairsApart
  <2>1. CASE b # a /\ c # a
    BY <1>2, <2>1 DEF ChairsApart
  <2>2. ASSUME NEW o \in Live(rows') \ {a}, a \in Live(rows'),
               rows'[o].chair = r.chair, r.chair # NoChair
        PROVE Clear(r, rows'[o]) /\ Clear(rows'[o], r)
    <3>1. /\ o \in Live(rows) \ {a} /\ rows'[o] = rows[o]
          /\ resource_no_overlap(rows, a, r)
          /\ resource_body_no_overlap(rows, a, r)
      BY <1>2, <1>3, <2>2 DEF accepted
    <3>2. ~rangesMeet(body(r), body(rows[o]))
      BY <2>2, <3>1 DEF resource_body_no_overlap
    <3>3. sameHolder(rows[o].client, r.client)
            \/ ~rangesMeet(blockedRange(r), blockedRange(rows[o]))
      BY <2>2, <3>1 DEF resource_no_overlap
    <3> QED
      BY <3>1, <3>2, <3>3, MeetingIsMutual, HoldersAreMutual
  <2>3. CASE b = a
    <3>1. c \in Live(rows') \ {a} /\ rows'[b] = r
      BY <1>1, <2>3
    <3> QED
      BY <2>2, <2>3, <3>1
  <2>4. CASE c = a
    <3>1. b \in Live(rows') \ {a} /\ rows'[c] = r
      BY <1>1, <2>4
    <3> QED
      BY <2>2, <2>4, <3>1
  <2> QED
    BY <2>1, <2>3, <2>4
<1> QED
  BY <1>4, <1>5

-----------------------------------------------------------------------------
(* The inductive invariant.                                                *)

LEMMA InvInit ==
  ASSUME Init
  PROVE Inv
<1>1. TypeOK
  BY DEF Init, TypeOK
<1>2. Targets
  BY DEF Init, Targets, Idle
<1>3. Live(rows) = {}
  BY DEF Init, Live, NoRow, Active, AppointmentStatus
<1> QED
  BY <1>1, <1>2, <1>3 DEF Inv, Apart, BlocksApart, ChairsApart

LEMMA RowsStay ==
  ASSUME TypeOK, RowWritten
  PROVE /\ rows' \in [Appt -> Row \cup {NoRow}]
        /\ \A a \in Appt : rows[a] \in Row => rows'[a] \in Row
BY DEF TypeOK, RowWritten

LEMMA InvNext ==
  ASSUME Inv, [Next]_vars
  PROVE Inv'
<1> USE DEF Inv
<1>1. ASSUME NEW d \in Desk, NEW u \in Working \cup {Idle},
             txn' = [txn EXCEPT ![d] = u], RowWritten,
             (u.pc # "idle" /\ u.op # "book") => u.id \in Appt /\ rows[u.id] \in Row
      PROVE Inv'
  <2>1. TypeOK'
    BY <1>1, RowsStay DEF TypeOK
  <2>2. Targets'
    <3> SUFFICES ASSUME NEW e \in Desk, txn'[e].pc # "idle", txn'[e].op # "book"
                 PROVE txn'[e].id \in Appt /\ rows'[txn'[e].id] \in Row
      BY DEF Targets
    <3>1. txn'[e].id \in Appt /\ rows[txn'[e].id] \in Row
      <4>1. CASE e = d
        BY <1>1, <4>1 DEF TypeOK
      <4>2. CASE e # d
        BY <1>1, <4>2 DEF TypeOK, Targets
      <4> QED
        BY <4>1, <4>2
    <3> QED
      BY <1>1, <3>1, RowsStay
  <2>3. Apart'
    <3>1. CASE rows' = rows
      BY <3>1 DEF Apart
    <3>2. CASE rows' # rows
      <4>1. PICK a \in Appt, r \in Row :
              accepted(rows, a, r) /\ rows' = [rows EXCEPT ![a] = r]
        BY <1>1, <3>2 DEF RowWritten
      <4> QED
        BY <4>1, AcceptedKeepsApart DEF Apart
    <3> QED
      BY <3>1, <3>2
  <2> QED
    BY <2>1, <2>2, <2>3
<1>2. ASSUME NEW d \in Desk, Takes(d)
      PROVE Inv'
  <2>1. PICK t \in Working : /\ Begin(d, t)
                             /\ t.op # "book" => t.id \in Appt /\ rows[t.id] \in Row
    BY <1>2, StartOpens
  <2>2. txn' = [txn EXCEPT ![d] = t] /\ RowWritten
    BY <2>1 DEF Begin, RowWritten
  <2> QED
    BY <1>1, <2>1, <2>2
<1>3. ASSUME NEW d \in Desk, Step(d) \/ Abort(d)
      PROVE Inv'
  <2>1. PICK u \in Working \cup {Idle} :
          /\ txn' = [txn EXCEPT ![d] = u]
          /\ u.pc # "idle" => txn[d].pc # "idle" /\ OnSameVisit(txn[d], u)
          /\ RowWritten
    BY <1>3, StepEffect
  <2>2. (u.pc # "idle" /\ u.op # "book") => u.id \in Appt /\ rows[u.id] \in Row
    BY <2>1 DEF Targets, OnSameVisit
  <2> QED
    BY <1>1, <2>1, <2>2
<1>4. CASE UNCHANGED vars
  BY <1>4 DEF vars, TypeOK, Targets, Apart
<1> QED
  BY <1>2, <1>3, <1>4 DEF Next

-----------------------------------------------------------------------------
(* What the triggers wrote covers what happens to people.                  *)

Holds(x, t) == x.start <= t /\ t < x.end

\* Two ranges that hold the same tick meet.
LEMMA SharedTickMeets ==
  ASSUME NEW t \in Int, NEW x, NEW y,
         x.start \in Int, x.end \in Int, y.start \in Int, y.end \in Int,
         Holds(x, t), Holds(y, t)
  PROVE rangesMeet(x, y)
BY DEF Holds, rangesMeet, overlaps

\* A plain visit: its one block is its blocked range.
LEMMA PlainHandsOn ==
  ASSUME NEW r \in Row, ~r.isOverride, NEW t \in HandsOn(r)
  PROVE Holds(blockedRange(r), t)
<1>1. /\ r.startAt \in Int /\ r.endAt \in Int
      /\ r.service \in Service /\ r.releasedAt \in Int \cup {NoTime}
  BY DEF Row
<1>2. BufferBefore[r.service] \in Nat /\ BufferAfter[r.service] \in Nat
  BY <1>1, SalonAssumption
<1>3. /\ t \in Int /\ r.startAt <= t /\ t < r.endAt
      /\ IsCut(r) => t < r.releasedAt
  BY <1>1 DEF HandsOn, IsCut
<1>4. blockedRange(r).start = r.startAt - BufferBefore[r.service]
  BY DEF blockedRange, Envelope, Span
<1>5. blockedRange(r).end = IF IsCut(r) THEN r.releasedAt
                            ELSE r.endAt + BufferAfter[r.service]
  BY DEF blockedRange, blockedEnd, Envelope, Span
<1>6. CASE IsCut(r)
  BY <1>1, <1>2, <1>3, <1>4, <1>5, <1>6 DEF Holds
<1>7. CASE ~IsCut(r)
  BY <1>1, <1>2, <1>3, <1>4, <1>5, <1>7 DEF Holds
<1> QED
  BY <1>6, <1>7

LEMMA PartType ==
  ASSUME NEW r \in Row, NEW i \in 1..Len(Parts[r.service])
  PROVE /\ Parts[r.service][i][1] \in Nat /\ Parts[r.service][i][2] \in Nat
        /\ partBlock(r, i).start \in Int /\ partBlock(r, i).end \in Int
        /\ partBlock(r, i).start <= r.startAt + Parts[r.service][i][1]
        /\ r.startAt + Parts[r.service][i][2] <= partBlock(r, i).end
<1>1. r.startAt \in Int /\ r.service \in Service
  BY DEF Row
<1>2. /\ BufferBefore[r.service] \in Nat /\ BufferAfter[r.service] \in Nat
      /\ Parts[r.service] \in Seq(Nat \X Nat)
  BY <1>1, SalonAssumption
<1>3. Parts[r.service][i] \in Nat \X Nat
  BY <1>2
<1>4. Parts[r.service][i][1] \in Nat /\ Parts[r.service][i][2] \in Nat
  BY <1>3
<1> DEFINE from == Parts[r.service][i][1]
           to == Parts[r.service][i][2]
           lead == IF i = 1 THEN BufferBefore[r.service] ELSE 0
           tail == IF i = Len(Parts[r.service]) THEN BufferAfter[r.service] ELSE 0
           x == partBlock(r, i)
<1>5. lead \in Nat /\ tail \in Nat
  BY <1>2
<1>6. x.start = r.startAt + from - lead /\ x.end = r.startAt + to + tail
  BY DEF partBlock, Span
<1>7. from \in Nat /\ to \in Nat
  BY <1>4
<1> HIDE DEF from, to, lead, tail, x
<1>8. /\ x.start \in Int /\ x.end \in Int
      /\ x.start <= r.startAt + from /\ r.startAt + to <= x.end
  BY <1>1, <1>5, <1>6, <1>7
<1> QED
  BY <1>4, <1>8 DEF x, from, to

\* A visit with a pattern: the tick lies in the block of a worked part, and a
\* release that has not reached the tick leaves it there.
LEMMA PatternHandsOn ==
  ASSUME NEW r \in Row, ~r.isOverride, Parts[r.service] # <<>>, NEW t \in HandsOn(r)
  PROVE \E x \in blocks(r) : x.start \in Int /\ x.end \in Int /\ Holds(x, t)
<1>1. r.startAt \in Int /\ r.endAt \in Int /\ r.releasedAt \in Int \cup {NoTime}
  BY DEF Row
<1>2. PICK i \in 1..Len(Parts[r.service]) :
        /\ r.startAt + Parts[r.service][i][1] <= t
        /\ t < r.startAt + Parts[r.service][i][2]
  BY DEF HandsOn
<1>3. t \in Int /\ (IsCut(r) => t < r.releasedAt)
  BY <1>1 DEF HandsOn, IsCut
<1> DEFINE b == partBlock(r, i)
           worked == {partBlock(r, k) : k \in 1..Len(Parts[r.service])}
<1>4. b.start \in Int /\ b.end \in Int /\ Holds(b, t) /\ b \in worked
  <2>1. b \in worked
    OBVIOUS
  <2>2. /\ Parts[r.service][i][1] \in Nat /\ Parts[r.service][i][2] \in Nat
        /\ b.start \in Int /\ b.end \in Int
        /\ b.start <= r.startAt + Parts[r.service][i][1]
        /\ r.startAt + Parts[r.service][i][2] <= b.end
    BY PartType
  <2> HIDE DEF b, worked
  <2> QED
    BY <1>1, <1>2, <1>3, <2>1, <2>2 DEF Holds
<1>5. CASE IsCut(r)
  <2>1. blockedEnd(r) = r.releasedAt /\ r.releasedAt \in Int
    BY <1>1, <1>5 DEF blockedEnd, IsCut
  <2> DEFINE x == Span(b.start, IF b.end > blockedEnd(r) THEN blockedEnd(r) ELSE b.end)
  <2> HIDE DEF b, worked
  <2>2. b.start < blockedEnd(r)
    BY <1>3, <1>4, <1>5, <2>1 DEF Holds
  <2>3. x \in truncated(worked, blockedEnd(r))
    BY <1>4, <2>2 DEF truncated
  <2>4. blocks(r) = truncated(worked, blockedEnd(r))
    BY <1>5 DEF blocks, worked
  <2>5. x.start = b.start /\ x.end = (IF b.end > blockedEnd(r) THEN blockedEnd(r) ELSE b.end)
    BY DEF Span
  <2>6. x.start \in Int /\ x.end \in Int /\ Holds(x, t)
    BY <1>3, <1>4, <1>5, <2>1, <2>5 DEF Holds
  <2> QED
    BY <2>3, <2>4, <2>6
<1>6. CASE ~IsCut(r)
  <2>1. blocks(r) = worked
    BY <1>6 DEF blocks
  <2> HIDE DEF b, worked
  <2> QED
    BY <1>4, <2>1
<1> QED
  BY <1>5, <1>6

LEMMA HandsOnIsBlocked ==
  ASSUME NEW r \in Row, ~r.isOverride, NEW t \in HandsOn(r)
  PROVE \E x \in blocks(r) : x.start \in Int /\ x.end \in Int /\ Holds(x, t)
<1>1. CASE Parts[r.service] = <<>>
  <2>1. blockedRange(r) \in blocks(r)
    BY <1>1 DEF blocks
  <2> QED
    BY <2>1, PlainHandsOn, RangesAreNumbers
<1>2. CASE Parts[r.service] # <<>>
  BY <1>2, PatternHandsOn
<1> QED
  BY <1>1, <1>2

LEMMA SeatedIsHeld ==
  ASSUME NEW r \in Row, NEW t \in Seated(r)
  PROVE t \in Int /\ Holds(body(r), t)
<1>1. r.startAt \in Int /\ r.endAt \in Int /\ r.releasedAt \in Int \cup {NoTime}
  BY DEF Row
<1>2. t \in Int /\ r.startAt <= t /\ t < r.endAt /\ (IsCut(r) => t < r.releasedAt)
  BY <1>1 DEF Seated
<1>3. body(r).start = r.startAt /\ body(r).end = IF IsCut(r) THEN r.releasedAt ELSE r.endAt
  BY DEF body, Span
<1> QED
  BY <1>2, <1>3 DEF Holds

LEMMA InvMeansNoDoubleBooking ==
  ASSUME Inv
  PROVE NoDoubleBooking
<1> SUFFICES ASSUME NEW a \in Appt, NEW b \in Appt, a # b, Sold(a), Sold(b),
                    rows[a].provider = rows[b].provider,
                    NEW t \in HandsOn(rows[a]), t \in HandsOn(rows[b])
             PROVE FALSE
  BY DEF NoDoubleBooking
<1>1. /\ a \in Live(rows) /\ ~rows[a].isOverride
      /\ b \in Live(rows) /\ ~rows[b].isOverride
  BY DEF Sold
<1>2. rows[a] \in Row /\ rows[b] \in Row
  BY <1>1, StatusMeansRow DEF Live, Active, Inv
<1>3. PICK x \in blocks(rows[a]) : x.start \in Int /\ x.end \in Int /\ Holds(x, t)
  BY <1>1, <1>2, HandsOnIsBlocked
<1>4. PICK y \in blocks(rows[b]) : y.start \in Int /\ y.end \in Int /\ Holds(y, t)
  BY <1>1, <1>2, HandsOnIsBlocked
<1>5. t \in Int
  BY <1>2 DEF HandsOn, Row
<1>6. rangesMeet(x, y)
  BY <1>3, <1>4, <1>5, SharedTickMeets
<1> QED
  BY <1>1, <1>6 DEF Inv, Apart, BlocksApart

LEMMA InvMeansNoSharedChair ==
  ASSUME Inv
  PROVE NoSharedChair
<1> SUFFICES ASSUME NEW a \in Appt, NEW b \in Appt, a # b, Sold(a), Sold(b),
                    rows[a].chair = rows[b].chair, rows[a].chair # NoChair
             PROVE /\ Seated(rows[a]) \cap Seated(rows[b]) = {}
                   /\ (rows[a].client = rows[b].client /\ rows[a].client # NoClient)
                        \/ ~rangesMeet(blockedRange(rows[a]), blockedRange(rows[b]))
  BY DEF NoSharedChair
<1>1. a \in Live(rows) /\ b \in Live(rows)
  BY DEF Sold
<1>2. rows[a] \in Row /\ rows[b] \in Row
  BY <1>1, StatusMeansRow DEF Live, Active, Inv
<1>3. /\ ~rangesMeet(body(rows[a]), body(rows[b]))
      /\ sameHolder(rows[a].client, rows[b].client)
           \/ ~rangesMeet(blockedRange(rows[a]), blockedRange(rows[b]))
  BY <1>1 DEF Inv, Apart, ChairsApart
<1>4. ASSUME NEW t \in Seated(rows[a]), t \in Seated(rows[b])
      PROVE FALSE
  <2>1. t \in Int /\ Holds(body(rows[a]), t) /\ Holds(body(rows[b]), t)
    BY <1>2, <1>4, SeatedIsHeld
  <2>2. rangesMeet(body(rows[a]), body(rows[b]))
    BY <1>2, <2>1, SharedTickMeets, RangesAreNumbers
  <2> QED
    BY <1>3, <2>2
<1> QED
  BY <1>3, <1>4 DEF sameHolder

-----------------------------------------------------------------------------
(* The theorems.                                                           *)

\* The rows, the transactions in flight and the constraints' grip on the whole
\* table survive every interleaving of the desks.
THEOREM InvIsInvariant == Spec => []Inv
<1>1. Init => Inv
  BY InvInit
<1>2. Inv /\ [Next]_vars => Inv'
  BY InvNext
<1> QED
  BY <1>1, <1>2, PTL DEF Spec

\* Every row is a row of the table, and a desk holds locks and a decision only
\* while its transaction is open.
THEOREM TypeCorrect == Spec => []TypeOK
<1>1. Inv => TypeOK
  BY DEF Inv
<1> QED
  BY <1>1, InvIsInvariant, PTL

\* bookAppointment, rescheduleAppointment, changeVisitServices, the status
\* machine and the release, in any number and any order, never leave a stylist
\* hands-on with two clients outside a staff override.
THEOREM NobodyDoubleBooked == Spec => []NoDoubleBooking
<1>1. Inv => NoDoubleBooking
  BY InvMeansNoDoubleBooking
<1> QED
  BY <1>1, InvIsInvariant, PTL

\* The same writers never seat two clients in one chair, and let only one
\* client's own visits share the clean-down between them.
THEOREM NoChairShared == Spec => []NoSharedChair
<1>1. Inv => NoSharedChair
  BY InvMeansNoSharedChair
<1> QED
  BY <1>1, InvIsInvariant, PTL

-----------------------------------------------------------------------------
(* Every visit has its chair.                                              *)

HasChair(r) == (~r.isOverride /\ NeedsChair[r.service]) => r.chair # NoChair

\* The write of a move, and of time taken back, sets the chair it chose.
SetsChair(t) == t.op = "move" \/ (t.op = "status" /\ reinstating(t.seen.status, t.want.status))

\* What a transaction has in hand will leave its visit a chair: an override
\* stays one, and whoever has come to the write has chosen.
InHand(t) ==
  /\ t.op # "book" => t.want.isOverride = rows[t.id].isOverride
  /\ t.pc = "write" =>
       /\ t.op \in {"book", "services"} => HasChair(t.want)
       /\ (SetsChair(t) /\ t.seen.chair # NoChair) => t.want.chair # NoChair

ChairInv ==
  /\ \A a \in Appt : rows[a] \in Row => HasChair(rows[a])
  /\ \A d \in Desk : txn[d].pc # "idle" => InHand(txn[d])

LEMMA ChairIsOne == \A c \in Chair : c # NoChair
BY SalonAssumption DEF Chair, NoChair

LEMMA StartInHand ==
  ASSUME TypeOK, NEW d \in Desk, Takes(d)
  PROVE  \E t : txn' = [txn EXCEPT ![d] = t] /\ rows' = rows /\ InHand(t)
<1> USE DEF Begin, Transaction, InHand, SetsChair
<1>1. CASE StartBook(d)
  BY <1>1 DEF StartBook
<1>2. CASE StartMove(d)
  <2>1. PICK a \in Appt, m \in Moves :
          /\ rows[a].status \in {"booked", "confirmed"}
          /\ LET want == [rows[a] EXCEPT !.provider = m[1], !.startAt = m[2],
                                         !.endAt = m[2] + Duration[rows[a].service]]
             IN Begin(d, Transaction("lock", "move", a, rows[a], want,
                                     moveLockKeys(rows[a], want)))
    BY <1>2 DEF StartMove
  <2> DEFINE want == [rows[a] EXCEPT !.provider = m[1], !.startAt = m[2],
                                     !.endAt = m[2] + Duration[rows[a].service]]
             t == Transaction("lock", "move", a, rows[a], want, moveLockKeys(rows[a], want))
  <2>2. rows[a] \in Row
    BY <2>1, StatusMeansRow DEF AppointmentStatus
  <2>3. want.isOverride = rows[a].isOverride
    BY <2>2 DEF Row
  <2>4. t.op = "move" /\ t.id = a /\ t.want = want /\ t.pc = "lock"
    OBVIOUS
  <2>5. txn' = [txn EXCEPT ![d] = t] /\ rows' = rows
    BY <2>1
  <2> HIDE DEF t, want
  <2>6. InHand(t)
    BY <2>3, <2>4
  <2> QED
    BY <2>5, <2>6
<1>3. CASE StartServices(d)
  <2>1. PICK a \in Appt, s \in Edits, pc \in {"engine", "seat"} :
          /\ rows[a].status \in ServiceEditable
          /\ Begin(d, Transaction(pc, "services", a, rows[a],
                        [rows[a] EXCEPT !.service = s, !.endAt = rows[a].startAt + Duration[s]],
                        {}))
    BY <1>3 DEF StartServices, canChangeServices
  <2> DEFINE want == [rows[a] EXCEPT !.service = s, !.endAt = rows[a].startAt + Duration[s]]
             t == Transaction(pc, "services", a, rows[a], want, {})
  <2>2. rows[a] \in Row
    BY <2>1, StatusMeansRow DEF AppointmentStatus, ServiceEditable
  <2>3. want.isOverride = rows[a].isOverride
    BY <2>2 DEF Row
  <2>4. t.op = "services" /\ t.id = a /\ t.want = want /\ t.pc # "write"
    OBVIOUS
  <2>5. txn' = [txn EXCEPT ![d] = t] /\ rows' = rows
    BY <2>1
  <2> HIDE DEF t, want
  <2>6. InHand(t)
    BY <2>3, <2>4
  <2> QED
    BY <2>5, <2>6
<1>4. CASE StartStatus(d)
  <2>1. PICK a \in Appt, e \in StatusMoves, pc \in {"seat", "write"} :
          /\ rows[a].status = e[1]
          /\ pc = "write" => ~(reinstating(e[1], e[2]) /\ rows[a].chair # NoChair)
          /\ Begin(d, Transaction(pc, "status", a, rows[a],
                                  [rows[a] EXCEPT !.status = e[2]], {}))
    BY <1>4 DEF StartStatus
  <2> DEFINE want == [rows[a] EXCEPT !.status = e[2]]
             t == Transaction(pc, "status", a, rows[a], want, {})
  <2>2. rows[a] \in Row
    <3>1. e[1] \in AppointmentStatus
      BY RequestsAssumption, EdgeType
    <3> QED
      BY <2>1, <3>1, StatusMeansRow
  <2>3. want.isOverride = rows[a].isOverride /\ want.status = e[2]
    BY <2>2 DEF Row
  <2>4. /\ t.op = "status" /\ t.id = a /\ t.want = want /\ t.pc = pc /\ t.seen = rows[a]
    OBVIOUS
  <2>5. txn' = [txn EXCEPT ![d] = t] /\ rows' = rows
    BY <2>1
  <2> HIDE DEF t, want
  <2>6. InHand(t)
    BY <2>1, <2>3, <2>4
  <2> QED
    BY <2>5, <2>6
<1>5. CASE StartRelease(d) \/ StartRestore(d)
  <2>1. PICK a \in Appt, op \in {"release", "restore"}, at \in Int \cup {NoTime} :
          /\ rows[a].status = "no_show"
          /\ Begin(d, Transaction("write", op, a, rows[a],
                                  [rows[a] EXCEPT !.releasedAt = at], {}))
    BY <1>5, RequestsAssumption DEF StartRelease, StartRestore, releasableAt
  <2> DEFINE want == [rows[a] EXCEPT !.releasedAt = at]
             t == Transaction("write", op, a, rows[a], want, {})
  <2>2. rows[a] \in Row
    BY <2>1, StatusMeansRow DEF AppointmentStatus
  <2>3. want.isOverride = rows[a].isOverride
    BY <2>2 DEF Row
  <2>4. t.op = op /\ t.id = a /\ t.want = want
    OBVIOUS
  <2>5. txn' = [txn EXCEPT ![d] = t] /\ rows' = rows
    BY <2>1
  <2> HIDE DEF t, want
  <2>6. InHand(t)
    BY <2>3, <2>4
  <2> QED
    BY <2>5, <2>6
<1> QED
  BY <1>1, <1>2, <1>3, <1>4, <1>5 DEF Takes

\* What the chair statement chooses is what its operation needs.
LEMMA ChooserGivesAChair ==
  ASSUME TypeOK, Targets, NEW d \in Desk, InHand(txn[d]), txn[d].pc = "seat",
         NEW c \in chairsFor(txn[d])
  PROVE  \E u : /\ [txn EXCEPT ![d].want.chair = c, ![d].pc = "write"] = [txn EXCEPT ![d] = u]
                /\ InHand(u)
<1> DEFINE t == txn[d]
           w == [t.want EXCEPT !.chair = c]
           u == [t EXCEPT !.want = w, !.pc = "write"]
<1>1. t \in Working
  BY ActiveIsWorking
<1>2. t.want \in Row
  BY <1>1 DEF Working
<1>3. [txn EXCEPT ![d].want.chair = c, ![d].pc = "write"] = [txn EXCEPT ![d] = u]
  BY <1>1 DEF TypeOK
<1>4. w.isOverride = t.want.isOverride /\ w.service = t.want.service /\ w.status = t.want.status
      /\ w.chair = c
  BY <1>2 DEF Row
<1>5. u.op = t.op /\ u.id = t.id /\ u.seen = t.seen /\ u.want = w
  BY <1>1 DEF Working
<1>6. needsSeat(t) => c # NoChair
  <2>1. needsSeat(t) => c \in Chair
    BY ChairType DEF chairsFor
  <2> QED
    BY <2>1, ChairIsOne
<1>7. InHand(u)
  <2>1. u.op # "book" => u.want.isOverride = rows[u.id].isOverride
    BY <1>4, <1>5 DEF InHand
  <2>2. u.op \in {"book", "services"} => HasChair(u.want)
    BY <1>4, <1>5, <1>6 DEF HasChair, needsSeat
  <2>3. SetsChair(u) /\ u.seen.chair # NoChair => u.want.chair # NoChair
    BY <1>4, <1>5, <1>6 DEF SetsChair, needsSeat
  <2> HIDE DEF u, w
  <2> QED
    BY <2>1, <2>2, <2>3 DEF InHand
<1> QED
  BY <1>3, <1>7

\* One row written leaves every visit what it holds: it is seated, and an
\* override stays an override.
SeatedWrite ==
  \/ rows' = rows
  \/ \E a \in Appt, r \in Row :
       /\ rows' = [rows EXCEPT ![a] = r] /\ HasChair(r)
       /\ rows[a] \in Row => r.isOverride = rows[a].isOverride

\* What the conditional update writes is seated.
LEMMA UpdateIsSeated ==
  ASSUME NEW t \in Working, t.pc = "write", t.op # "book", InHand(t),
         rows[t.id] \in Row, HasChair(rows[t.id])
  PROVE  HasChair(updated(t)) /\ updated(t).isOverride = rows[t.id].isOverride
<1> DEFINE r == rows[t.id]
           w == t.want
           u == updated(t)
<1>1. r \in Row /\ w \in Row /\ HasChair(r)
  BY DEF Working
<1>2. w.isOverride = r.isOverride
  BY DEF InHand
<1>3. CASE t.op = "move"
  <2>1. u = [r EXCEPT !.startAt = w.startAt, !.endAt = w.endAt, !.provider = w.provider,
                      !.chair = IF t.seen.chair # NoChair THEN w.chair ELSE r.chair]
    BY <1>3 DEF updated
  <2>2. t.seen.chair # NoChair => w.chair # NoChair
    BY <1>3 DEF InHand, SetsChair
  <2> HIDE DEF u, w, r
  <2>3. /\ u.isOverride = r.isOverride /\ u.service = r.service
        /\ u.chair = IF t.seen.chair # NoChair THEN w.chair ELSE r.chair
    BY <1>1, <2>1 DEF Row
  <2>4. HasChair(u) /\ u.isOverride = r.isOverride
    BY <1>1, <2>2, <2>3 DEF HasChair
  <2> QED
    BY <2>4 DEF u, r
<1>4. CASE t.op = "services"
  <2>1. u = [r EXCEPT !.endAt = w.endAt, !.service = w.service,
                      !.chair = IF t.seen.chair # NoChair \/ w.chair # NoChair
                                THEN w.chair ELSE r.chair]
    BY <1>4 DEF updated
  <2>2. HasChair(w)
    BY <1>4 DEF InHand
  <2> HIDE DEF u, w, r
  <2>3. /\ u.isOverride = r.isOverride /\ u.service = w.service
        /\ u.chair = IF t.seen.chair # NoChair \/ w.chair # NoChair THEN w.chair ELSE r.chair
    BY <1>1, <2>1 DEF Row
  <2>4. HasChair(u) /\ u.isOverride = r.isOverride
    BY <1>1, <1>2, <2>2, <2>3 DEF HasChair
  <2> QED
    BY <2>4 DEF u, r
<1>5. CASE t.op = "status"
  <2>1. u = [r EXCEPT !.status = w.status,
                      !.chair = IF reinstating(t.seen.status, w.status) /\ t.seen.chair # NoChair
                                THEN w.chair ELSE r.chair]
    BY <1>5 DEF updated
  <2>2. reinstating(t.seen.status, w.status) /\ t.seen.chair # NoChair => w.chair # NoChair
    BY <1>5 DEF InHand, SetsChair
  <2> HIDE DEF u, w, r
  <2>3. /\ u.isOverride = r.isOverride /\ u.service = r.service
        /\ u.chair = IF reinstating(t.seen.status, w.status) /\ t.seen.chair # NoChair
                     THEN w.chair ELSE r.chair
    BY <1>1, <2>1 DEF Row
  <2>4. HasChair(u) /\ u.isOverride = r.isOverride
    BY <1>1, <2>2, <2>3 DEF HasChair
  <2> QED
    BY <2>4 DEF u, r
<1>6. CASE t.op \in {"release", "restore"}
  <2>1. u = [r EXCEPT !.releasedAt = w.releasedAt]
    BY <1>6 DEF updated
  <2> HIDE DEF u, w, r
  <2>2. u.isOverride = r.isOverride /\ u.service = r.service /\ u.chair = r.chair
    BY <1>1, <2>1 DEF Row
  <2>3. HasChair(u) /\ u.isOverride = r.isOverride
    BY <1>1, <2>2 DEF HasChair
  <2> QED
    BY <2>3 DEF u, r
<1> QED
  BY <1>3, <1>4, <1>5, <1>6 DEF Working

LEMMA CommitSeated ==
  ASSUME NEW d \in Desk, NEW a \in Appt, NEW r \in Row, Commit(d, a, r), HasChair(r),
         rows[a] \in Row => r.isOverride = rows[a].isOverride
  PROVE  End(d) /\ SeatedWrite
BY DEF Commit, SeatedWrite

\* A step of a desk either keeps its decision in hand and writes nothing, or
\* is the last of its transaction.
LEMMA StepSeats ==
  ASSUME TypeOK, Targets, ChairInv, NEW d \in Desk, Step(d) \/ Abort(d)
  PROVE  \/ End(d) /\ SeatedWrite
         \/ \E u : txn' = [txn EXCEPT ![d] = u] /\ rows' = rows /\ InHand(u)
<1>1. txn[d].pc # "idle" => txn[d] \in Working /\ InHand(txn[d])
  BY ActiveIsWorking DEF ChairInv
<1>2. CASE Lock(d)
  <2>1. PICK k \in nextKey(txn[d]) :
          txn' = [txn EXCEPT ![d].held = @ \cup {k}, ![d].todo = @ \ {k},
                             ![d].pc = IF txn[d].todo = {k} THEN "engine" ELSE "lock"]
    BY <1>2 DEF Lock
  <2> DEFINE u == [txn[d] EXCEPT !.held = @ \cup {k}, !.todo = @ \ {k},
                                 !.pc = IF txn[d].todo = {k} THEN "engine" ELSE "lock"]
  <2>2. txn' = [txn EXCEPT ![d] = u] /\ rows' = rows
    BY <1>2, <2>1 DEF TypeOK, Lock
  <2>3. txn[d] \in Working /\ InHand(txn[d])
    BY <1>1, <1>2 DEF Lock
  <2>4. u.op = txn[d].op /\ u.id = txn[d].id /\ u.want = txn[d].want /\ u.pc # "write"
    BY <2>3 DEF Working
  <2> HIDE DEF u
  <2>5. InHand(u)
    BY <2>3, <2>4 DEF InHand
  <2> QED
    BY <2>2, <2>5
<1>3. CASE AskEngine(d)
  <2>1. CASE engineAllows(txn[d])
    <3> DEFINE u == [txn[d] EXCEPT !.pc = "seat"]
    <3>1. txn' = [txn EXCEPT ![d] = u] /\ rows' = rows
      BY <1>3, <2>1 DEF TypeOK, AskEngine
    <3>2. txn[d] \in Working /\ InHand(txn[d])
      BY <1>1, <1>3 DEF AskEngine
    <3>3. u.op = txn[d].op /\ u.id = txn[d].id /\ u.want = txn[d].want /\ u.pc # "write"
      BY <3>2 DEF Working
    <3> HIDE DEF u
    <3>4. InHand(u)
      BY <3>2, <3>3 DEF InHand
    <3> QED
      BY <3>1, <3>4
  <2>2. CASE ~engineAllows(txn[d])
    BY <1>3, <2>2 DEF AskEngine, Refuse, SeatedWrite
  <2> QED
    BY <2>1, <2>2
<1>4. CASE ChooseChair(d)
  <2>1. CASE chairsFor(txn[d]) = {}
    BY <1>4, <2>1 DEF ChooseChair, Refuse, SeatedWrite
  <2>2. CASE chairsFor(txn[d]) # {}
    <3>1. PICK c \in chairsFor(txn[d]) :
            txn' = [txn EXCEPT ![d].want.chair = c, ![d].pc = "write"] /\ rows' = rows
      BY <1>4, <2>2 DEF ChooseChair
    <3>2. InHand(txn[d]) /\ txn[d].pc = "seat"
      BY <1>1, <1>4 DEF ChooseChair
    <3> QED
      BY <3>1, <3>2, ChooserGivesAChair
  <2> QED
    BY <2>1, <2>2
<1>5. CASE WriteBooking(d)
  <2>1. PICK a \in Appt : rows[a] = NoRow /\ Commit(d, a, txn[d].want)
    BY <1>5 DEF WriteBooking
  <2>2. txn[d].want \in Row /\ HasChair(txn[d].want)
    BY <1>1, <1>5 DEF WriteBooking, Working, InHand
  <2> QED
    BY <2>1, <2>2, CommitSeated, NoRowIsNoRow
<1>6. CASE WriteUpdate(d)
  <2>1. CASE unchangedSince(txn[d])
    <3>1. txn[d] \in Working /\ InHand(txn[d]) /\ txn[d].pc = "write" /\ txn[d].op # "book"
      BY <1>1, <1>6 DEF WriteUpdate
    <3>2. txn[d].id \in Appt /\ rows[txn[d].id] \in Row
      BY <3>1 DEF Targets
    <3>3. HasChair(rows[txn[d].id])
      BY <3>2 DEF ChairInv
    <3>4. HasChair(updated(txn[d])) /\ updated(txn[d]).isOverride = rows[txn[d].id].isOverride
      BY <3>1, <3>2, <3>3, UpdateIsSeated
    <3>5. updated(txn[d]) \in Row
      BY <3>1, <3>2, UpdatedType
    <3>6. Commit(d, txn[d].id, updated(txn[d]))
      BY <1>6, <2>1 DEF WriteUpdate
    <3> QED
      BY <3>2, <3>4, <3>5, <3>6, CommitSeated
  <2>2. CASE ~unchangedSince(txn[d])
    BY <1>6, <2>2 DEF WriteUpdate, Refuse, SeatedWrite
  <2> QED
    BY <2>1, <2>2
<1>7. CASE Abort(d)
  BY <1>7 DEF Abort, Refuse, SeatedWrite
<1> QED
  BY <1>2, <1>3, <1>4, <1>5, <1>6, <1>7 DEF Step

\* What another desk writes leaves a decision standing.
LEMMA OthersStayInHand ==
  ASSUME Targets, SeatedWrite, NEW e \in Desk, txn[e].pc # "idle", txn'[e] = txn[e],
         InHand(txn[e])
  PROVE  InHand(txn[e])'
<1>1. CASE rows' = rows
  BY <1>1 DEF InHand, SetsChair, HasChair
<1>2. CASE rows' # rows
  <2>1. PICK a \in Appt, r \in Row :
          /\ rows' = [rows EXCEPT ![a] = r]
          /\ rows[a] \in Row => r.isOverride = rows[a].isOverride
    BY <1>2 DEF SeatedWrite
  <2>2. txn[e].op # "book" => rows'[txn[e].id].isOverride = rows[txn[e].id].isOverride
    BY <2>1 DEF Targets
  <2> QED
    BY <2>2 DEF InHand, SetsChair, HasChair
<1> QED
  BY <1>1, <1>2

LEMMA ChairInvNext ==
  ASSUME Inv, ChairInv, [Next]_vars
  PROVE  ChairInv'
<1> USE DEF Inv
<1>1. CASE UNCHANGED vars
  BY <1>1 DEF vars, ChairInv, InHand, SetsChair, HasChair
<1>2. ASSUME NEW d \in Desk, Takes(d) \/ Step(d) \/ Abort(d)
      PROVE  ChairInv'
  <2>1. /\ SeatedWrite
        /\ \E u : txn' = [txn EXCEPT ![d] = u] /\ (u.pc # "idle" => rows' = rows /\ InHand(u))
    <3>1. CASE Takes(d)
      BY <3>1, StartInHand DEF SeatedWrite
    <3>2. CASE Step(d) \/ Abort(d)
      <4>1. CASE End(d) /\ SeatedWrite
        <5>1. txn' = [txn EXCEPT ![d] = Idle] /\ Idle.pc = "idle"
          BY <4>1 DEF End, Idle
        <5> QED
          BY <4>1, <5>1
      <4>2. CASE \E u : txn' = [txn EXCEPT ![d] = u] /\ rows' = rows /\ InHand(u)
        BY <4>2 DEF SeatedWrite
      <4> QED
        BY <3>2, <4>1, <4>2, StepSeats
    <3> QED
      BY <1>2, <3>1, <3>2
  <2>2. ASSUME NEW a \in Appt, rows'[a] \in Row
        PROVE  HasChair(rows'[a])
    BY <2>1, <2>2 DEF SeatedWrite, ChairInv, TypeOK
  <2>3. ASSUME NEW e \in Desk, txn'[e].pc # "idle"
        PROVE  InHand(txn[e])'
    <3>1. PICK u : txn' = [txn EXCEPT ![d] = u] /\ (u.pc # "idle" => rows' = rows /\ InHand(u))
      BY <2>1
    <3>2. CASE e = d
      <4>1. txn'[d] = u
        BY <3>1 DEF TypeOK
      <4>2. rows' = rows /\ InHand(u)
        BY <2>3, <3>1, <3>2, <4>1
      <4> QED
        BY <3>2, <4>1, <4>2 DEF InHand, SetsChair, HasChair
    <3>3. CASE e # d
      <4>1. txn'[e] = txn[e]
        BY <3>1, <3>3 DEF TypeOK
      <4> QED
        BY <2>1, <2>3, <4>1, OthersStayInHand DEF ChairInv
    <3> QED
      BY <3>2, <3>3
  <2>4. \A a \in Appt : rows'[a] \in Row => HasChair(rows[a])'
    BY <2>2 DEF HasChair
  <2> QED
    BY <2>3, <2>4 DEF ChairInv
<1> QED
  BY <1>1, <1>2 DEF Next

\* Whatever moves, changes of service and reinstatements race each other, a
\* visit that needs a chair and is not an override has one (RES-03).
THEOREM EveryVisitSeated == Spec => []EveryVisitHasItsChair
<1>1. Init => ChairInv
  BY NoRowIsNoRow DEF Init, ChairInv, Idle
<1>2. Inv /\ ChairInv /\ [Next]_vars => ChairInv'
  BY ChairInvNext
<1>3. Inv /\ ChairInv => EveryVisitHasItsChair
  BY StatusMeansRow DEF Inv, ChairInv, HasChair, EveryVisitHasItsChair, Sold, Live, Active
<1> QED
  BY <1>1, <1>2, <1>3, InvIsInvariant, PTL DEF Spec

-----------------------------------------------------------------------------
(* What the engine offers, the chooser can seat and the database accepts.  *)

LEMMA LeastOf ==
  ASSUME NEW T \in SUBSET Nat, T # {}
  PROVE  \E x \in T : \A y \in T : x <= y
<1> DEFINE S == FiniteSubsetsOf(Nat)
           R == StrictSubsetOrdering(Nat)
           U == {1..c : c \in T}
<1>1. IsWellFoundedOn(R, S)
  BY FS_StrictSubsetOrderingWellFounded
<1>2. U \subseteq S /\ U # {}
  <2>1. ASSUME NEW c \in T
        PROVE  1..c \in S
    <3>1. IsFiniteSet(1..c) /\ 1..c \in SUBSET Nat
      BY FS_Interval
    <3> QED
      BY <3>1 DEF FiniteSubsetsOf
  <2> HIDE DEF S
  <2> QED
    BY <2>1
<1>3. ASSUME NEW c \in T, NEW k \in T, k < c
      PROVE  <<1..k, 1..c>> \in R
  <2>1. 1..k \subseteq 1..c /\ c \in 1..c /\ c \notin 1..k
    BY <1>3
  <2> QED
    BY <2>1 DEF StrictSubsetOrdering
<1>4. \E x \in U : \A y \in U : <<y, x>> \notin R
  <2> HIDE DEF R, S, U
  <2> QED
    BY <1>1, <1>2, WFMin
<1>5. PICK c \in T : \A k \in T : <<1..k, 1..c>> \notin R
  BY <1>4
<1> HIDE DEF R, S, U
<1>6. ASSUME NEW k \in T
      PROVE  c <= k
  <2>1. ~(k < c)
    BY <1>3, <1>5
  <2> QED
    BY <2>1
<1> QED
  BY <1>6

\* The chooser answers whenever a chair is free, and only with a free one.
LEMMA ChooserAnswers ==
  ASSUME NEW rs, NEW self, NEW r, canSeat(rs, self, r)
  PROVE  /\ findFreeResource(rs, self, r, NoChair) # {}
         /\ findFreeResource(rs, self, r, NoChair) \subseteq freeChairs(rs, self, r)
<1> DEFINE free == freeChairs(rs, self, r)
           wanted == chairsAlreadyHeldBy(rs, self, r)
           first == {c \in free : \A k \in free : c <= k}
<1>1. free # {} /\ free \in SUBSET Nat
  <2>1. free \subseteq Chair
    BY DEF freeChairs
  <2>2. Chair \subseteq Nat
    BY SalonAssumption DEF Chair
  <2> QED
    BY <2>1, <2>2 DEF canSeat
<1>2. findFreeResource(rs, self, r, NoChair) =
        IF wanted = {} THEN first ELSE UNION {IF c \in free THEN {c} ELSE first : c \in wanted}
  BY DEF findFreeResource
<1> HIDE DEF wanted
<1>3. first # {} /\ first \subseteq free
  <2> HIDE DEF free
  <2> QED
    BY <1>1, LeastOf
<1> HIDE DEF free, first
<1>4. UNION {IF c \in free THEN {c} ELSE first : c \in wanted} \subseteq free
  BY <1>3
<1>5. wanted # {} => UNION {IF c \in free THEN {c} ELSE first : c \in wanted} # {}
  <2> SUFFICES ASSUME NEW c \in wanted
               PROVE  \E x : x \in UNION {IF k \in free THEN {k} ELSE first : k \in wanted}
    OBVIOUS
  <2>1. PICK x : x \in IF c \in free THEN {c} ELSE first
    BY <1>3
  <2> QED
    BY <2>1
<1> QED
  BY <1>2, <1>3, <1>4, <1>5 DEF free

\* What a booking would block lies in what the engine asked about.
Within(x, y) == x.start \in Int /\ x.end \in Int /\ y.start <= x.start /\ x.end <= y.end

LEMMA LeadLiesWithin ==
  \A s \in Int : \A f, l, b \in Nat : l <= b => s - b <= s + f - l
OBVIOUS

LEMMA TailLiesWithin ==
  \A s \in Int : \A to, len, l, b \in Nat : (to <= len /\ l <= b) => s + to + l <= s + len + b
OBVIOUS

LEMMA BlocksLieWithin ==
  ASSUME NEW r \in Row, ~r.isOverride, r.releasedAt = NoTime,
         r.endAt = r.startAt + Duration[r.service], NEW x \in blocks(r)
  PROVE  Within(x, Envelope(r))
<1> DEFINE parts == Parts[r.service]
           e == Envelope(r)
<1>1. /\ r.startAt \in Int /\ r.endAt \in Int /\ r.service \in Service
      /\ e.start \in Int /\ e.end \in Int
  BY RangesAreNumbers DEF Row
<1>2. ~IsCut(r)
  BY DEF IsCut
<1>3. /\ BufferBefore[r.service] \in Nat /\ BufferAfter[r.service] \in Nat
      /\ parts \in Seq(Nat \X Nat) /\ Duration[r.service] \in Nat
  BY <1>1, SalonAssumption
<1>4. /\ e.start = r.startAt - BufferBefore[r.service]
      /\ e.end = r.endAt + BufferAfter[r.service]
  BY DEF Envelope, Span
<1>5. CASE parts = <<>>
  <2>1. x = blockedRange(r)
    BY <1>5 DEF blocks
  <2>2. blockedRange(r).start = e.start /\ blockedRange(r).end = e.end
    BY <1>2 DEF blockedRange, blockedEnd, Span
  <2> HIDE DEF e
  <2> QED
    BY <1>1, <2>1, <2>2 DEF Within, e
<1>6. CASE parts # <<>>
  <2>1. PICK i \in 1..Len(parts) : x = partBlock(r, i)
    BY <1>2, <1>6 DEF blocks
  <2> DEFINE from == parts[i][1]
             to == parts[i][2]
             lead == IF i = 1 THEN BufferBefore[r.service] ELSE 0
             tail == IF i = Len(parts) THEN BufferAfter[r.service] ELSE 0
  <2>2. x.start = r.startAt + from - lead /\ x.end = r.startAt + to + tail
    BY <2>1 DEF partBlock, Span
  <2>3. from \in Nat /\ to \in Nat
    BY PartType
  <2>4. to <= Duration[r.service]
    BY <1>1, PatternAssumption
  <2>5. /\ lead \in Nat /\ lead <= BufferBefore[r.service]
        /\ tail \in Nat /\ tail <= BufferAfter[r.service]
    BY <1>3
  <2> HIDE DEF from, to, lead, tail, e, parts
  <2>6. x.start \in Int /\ x.end \in Int
    BY <1>1, <2>2, <2>3, <2>5
  <2>7. e.start <= x.start
    <3>1. r.startAt - BufferBefore[r.service] <= r.startAt + from - lead
      BY <1>1, <1>3, <2>3, <2>5, LeadLiesWithin
    <3> QED
      BY <1>4, <2>2, <3>1
  <2>8. x.end <= e.end
    <3>1. r.startAt + to + tail <= r.startAt + Duration[r.service] + BufferAfter[r.service]
      BY <1>1, <1>3, <2>3, <2>4, <2>5, TailLiesWithin
    <3> QED
      BY <1>4, <2>2, <3>1
  <2> QED
    BY <2>6, <2>7, <2>8 DEF Within, e
<1> QED
  BY <1>5, <1>6

\* Blocks are compared by whole numbers, those a release truncated too.
LEMMA BlocksAreNumbers ==
  ASSUME NEW r \in Row, NEW y \in blocks(r)
  PROVE  y.start \in Int /\ y.end \in Int
<1>1. CASE r.isOverride \/ Parts[r.service] = <<>>
  BY <1>1, RangesAreNumbers DEF blocks
<1>2. CASE ~(r.isOverride \/ Parts[r.service] = <<>>)
  <2> DEFINE worked == {partBlock(r, i) : i \in 1..Len(Parts[r.service])}
  <2>1. \A x \in worked : x.start \in Int /\ x.end \in Int
    BY PartType
  <2>2. CASE IsCut(r)
    <3>1. blockedEnd(r) \in Int
      BY <2>2 DEF blockedEnd, IsCut, Row
    <3>2. blocks(r) = truncated(worked, blockedEnd(r))
      BY <1>2, <2>2 DEF blocks
    <3> HIDE DEF worked
    <3>3. PICK x \in worked : y = Span(x.start, IF x.end > blockedEnd(r) THEN blockedEnd(r) ELSE x.end)
      BY <3>2 DEF truncated
    <3> QED
      BY <2>1, <3>1, <3>3 DEF Span
  <2>3. CASE ~IsCut(r)
    BY <1>2, <2>1, <2>3 DEF blocks
  <2> QED
    BY <2>2, <2>3
<1> QED
  BY <1>1, <1>2

\* A block of a row the engine saw nothing of is empty.
LEMMA UnseenIsEmpty ==
  ASSUME NEW r \in Row, NEW y \in blocks(r), y \notin busy(r)
  PROVE  ~(y.start < y.end) \/ r.isOverride
BY DEF busy

LEMMA OfferIsAccepted ==
  ASSUME TypeOK, NEW r \in Bookings, ~r.isOverride, offered(rows, NoAppt, r),
         NEW c \in Chair \cup {NoChair},
         c # NoChair => c \in freeChairs(rows, NoAppt, r)
  PROVE  accepted(rows, NoAppt, [r EXCEPT !.chair = c])
<1> DEFINE h == [r EXCEPT !.chair = c]
<1>1. /\ r \in Row /\ r.status = "booked" /\ r.releasedAt = NoTime
      /\ r.endAt = r.startAt + Duration[r.service]
  BY RequestsAssumption
<1>2. /\ h \in Row /\ h.status = "booked" /\ h.releasedAt = NoTime /\ ~h.isOverride
      /\ h.startAt = r.startAt /\ h.endAt = r.endAt /\ h.service = r.service
      /\ h.provider = r.provider /\ h.client = r.client /\ h.chair = c
  BY <1>1 DEF Row
<1> HIDE DEF h
<1>3. /\ Envelope(h) = Envelope(r) /\ ~IsCut(h)
      /\ blockedRange(h) = Envelope(r) /\ body(h) = Span(r.startAt, r.endAt)
  BY <1>2 DEF Envelope, IsCut, blockedRange, blockedEnd, body, Span
<1>4. released_within_visit(h)
  BY <1>2 DEF released_within_visit
<1>5. segment_pattern_sums(h)
  <2>1. h.service \in Service
    BY <1>2 DEF Row
  <2>2. Parts[h.service] \in Seq(Nat \X Nat)
    BY <2>1, SalonAssumption
  <2>3. Parts[h.service] # <<>> => Len(Parts[h.service]) \in 1..Len(Parts[h.service])
    BY <2>2
  <2> QED
    BY <1>1, <1>2, <2>1, <2>3, PatternAssumption DEF segment_pattern_sums
<1>6. block_no_overlap(rows, NoAppt, h)
  <2> SUFFICES ASSUME NEW b \in Live(rows) \ {NoAppt}, rows[b].provider = h.provider,
                      NEW x \in blocks(h), NEW y \in blocks(rows[b]), rangesMeet(x, y)
               PROVE  FALSE
    BY DEF block_no_overlap
  <2>1. rows[b] \in Row
    BY StatusMeansRow DEF Live, Active
  <2>2. y.start \in Int /\ y.end \in Int /\ y.start < y.end
    BY <2>1, BlocksAreNumbers DEF rangesMeet
  <2>3. Within(x, Envelope(r))
    BY <1>1, <1>2, <1>3, BlocksLieWithin
  <2>4. Envelope(r).start \in Int /\ Envelope(r).end \in Int
    BY <1>1, RangesAreNumbers
  <2>5. overlaps(Envelope(r), y)
    BY <2>2, <2>3, <2>4 DEF rangesMeet, overlaps, Within
  <2>6. y \notin busy(rows[b])
    BY <1>2, <2>5 DEF offered, columnFree
  <2>7. rows[b].isOverride
    BY <2>1, <2>2, <2>6, UnseenIsEmpty
  <2>8. y.start = rows[b].startAt /\ y.end = rows[b].startAt
    BY <2>7 DEF blocks, blockedRange, blockedEnd, Span
  <2> QED
    BY <2>2, <2>8
<1>7. ASSUME c # NoChair
      PROVE  resource_no_overlap(rows, NoAppt, h) /\ resource_body_no_overlap(rows, NoAppt, h)
  <2>1. \A b \in Live(rows) \ {NoAppt} : rows[b].chair = c => ~seatBlocked(rows[b], r)
    BY <1>7 DEF freeChairs
  <2> QED
    BY <1>2, <1>3, <2>1
    DEF seatBlocked, resource_no_overlap, resource_body_no_overlap, rangesMeet, overlaps
<1>8. accepted(rows, NoAppt, h)
  BY <1>2, <1>4, <1>5, <1>6, <1>7 DEF accepted
<1> QED
  BY <1>8 DEF h

\* On every book the desks can produce, the engine, the chooser and the three
\* constraints agree: a time offered, and taken by nobody else, is booked.
THEOREM OffersHonoured == Spec => []OffersAreHonoured
<1>1. TypeOK => OffersAreHonoured
  <2> SUFFICES ASSUME TypeOK, NEW r \in Bookings, ~r.isOverride, offered(rows, NoAppt, r)
               PROVE  LET chairs == IF NeedsChair[r.service]
                                    THEN findFreeResource(rows, NoAppt, r, NoChair) ELSE {NoChair}
                      IN /\ chairs # {}
                         /\ \A c \in chairs : accepted(rows, NoAppt, [r EXCEPT !.chair = c])
    BY DEF OffersAreHonoured
  <2>1. CASE NeedsChair[r.service]
    <3>1. canSeat(rows, NoAppt, r)
      BY <2>1 DEF offered
    <3>2. /\ findFreeResource(rows, NoAppt, r, NoChair) # {}
          /\ findFreeResource(rows, NoAppt, r, NoChair) \subseteq freeChairs(rows, NoAppt, r)
      BY <3>1, ChooserAnswers
    <3>3. \A c \in findFreeResource(rows, NoAppt, r, NoChair) :
            accepted(rows, NoAppt, [r EXCEPT !.chair = c])
      BY <3>2, ChairType, OfferIsAccepted
    <3> QED
      BY <2>1, <3>2, <3>3
  <2>2. CASE ~NeedsChair[r.service]
    BY <2>2, OfferIsAccepted
  <2> QED
    BY <2>1, <2>2
<1> QED
  BY <1>1, TypeCorrect, PTL
-----------------------------------------------------------------------------
(* The lanes.                                                              *)

LanesTypes ==
  /\ Drawable
  /\ laneEnds \in Seq(Int)
  /\ cluster \in [DOMAIN cluster -> DOMAIN laneEnds]
  /\ DOMAIN cluster \subseteq DOMAIN spans
  /\ DOMAIN out \subseteq DOMAIN spans
  /\ \A x \in DOMAIN cluster : x \notin DOMAIN out

\* What is taken begins no later than what still waits.
TakenInOrder == \A x \in DOMAIN cluster \cup DOMAIN out, y \in Waiting : top(x) <= top(y)

\* A lane ends with one of its occupants, and with the last of them.
LanesEndWithSomebody ==
  \A l \in DOMAIN laneEnds : \E x \in DOMAIN cluster : cluster[x] = l /\ end(x) = laneEnds[l]
LanesEndWithTheLast == \A x \in DOMAIN cluster : end(x) <= laneEnds[cluster[x]]

\* The occupants of a lane follow one another.
LanesAreLines ==
  \A x, y \in DOMAIN cluster : (x # y /\ cluster[x] = cluster[y]) => ~overlapsSpan(x, y)

\* A closed cluster is over before anything outside it begins.
ClustersAreApart == \A x \in DOMAIN out, y \in DOMAIN spans \ DOMAIN out : end(x) <= top(y)

\* The lane opened last was opened with somebody in each of the others.
LanesAreNeeded ==
  laneEnds # <<>> =>
    \E y \in DOMAIN cluster : \A l \in DOMAIN laneEnds :
      \E z \in DOMAIN cluster : cluster[z] = l /\ On(z, top(y))

LInv ==
  /\ LanesTypes /\ TakenInOrder
  /\ LanesEndWithSomebody /\ LanesEndWithTheLast /\ LanesAreLines
  /\ ClustersAreApart /\ LanesAreNeeded
  /\ NobodyIsPaintedOver /\ NobodyIsSqueezed
-----------------------------------------------------------------------------
\* Tops and ends are integers, and nothing ends before it begins.
LEMMA Extents ==
  ASSUME Drawable
  PROVE  \A x \in DOMAIN spans : top(x) \in Int /\ end(x) \in Int /\ top(x) <= end(x)
<1> SUFFICES ASSUME NEW x \in DOMAIN spans
             PROVE  top(x) \in Int /\ end(x) \in Int /\ top(x) <= end(x)
  OBVIOUS
<1>1. spans[x] \in [top : Int, minutes : Nat]
  BY DEF Drawable
<1>2. spans[x].top \in Int /\ spans[x].minutes \in Nat
  BY <1>1
<1> QED BY <1>2 DEF top, end

\* The next to be taken begins no later than anything else that waits.
LEMMA NextIsFirst ==
  ASSUME Drawable, NEW x, IsNext(x)
  PROVE  \A y \in Waiting : top(x) <= top(y)
<1> SUFFICES ASSUME NEW y \in Waiting PROVE top(x) <= top(y)
  OBVIOUS
<1>1. x \in DOMAIN spans /\ y \in DOMAIN spans
  BY DEF IsNext, Waiting
<1>2. top(x) \in Int /\ top(y) \in Int
  BY <1>1, Extents
<1> QED BY <1>2 DEF IsNext, InOrder

LEMMA LanesStart == Drawable /\ LanesInit => LInv
<1> SUFFICES ASSUME Drawable, LanesInit PROVE LInv
  OBVIOUS
<1>1. DOMAIN cluster = {} /\ DOMAIN out = {} /\ DOMAIN laneEnds = {}
  BY DEF LanesInit
<1>2. LanesTypes
  <2>1. laneEnds \in Seq(Int)
    BY DEF LanesInit
  <2>2. cluster \in [DOMAIN cluster -> DOMAIN laneEnds]
    BY <1>1 DEF LanesInit
  <2> QED BY <1>1, <2>1, <2>2 DEF LanesTypes
<1>3. TakenInOrder /\ LanesEndWithSomebody /\ LanesEndWithTheLast /\ LanesAreLines
  BY <1>1 DEF TakenInOrder, LanesEndWithSomebody, LanesEndWithTheLast, LanesAreLines
<1>4. ClustersAreApart /\ LanesAreNeeded
  BY <1>1 DEF ClustersAreApart, LanesAreNeeded, LanesInit
<1>5. NobodyIsPaintedOver /\ NobodyIsSqueezed
  BY <1>1 DEF NobodyIsPaintedOver, NobodyIsSqueezed
<1> QED BY <1>2, <1>3, <1>4, <1>5 DEF LInv
-----------------------------------------------------------------------------
\* What taking x into a lane leaves as it was, whichever lane that is.
LEMMA Taken ==
  ASSUME LInv, NEW x, IsNext(x), NEW l, InLane(x, l), UNCHANGED <<spans, out>>
  PROVE  /\ x \in DOMAIN spans /\ x \notin DOMAIN cluster
         /\ DOMAIN cluster' = DOMAIN cluster \cup {x}
         /\ cluster'[x] = l /\ \A y \in DOMAIN cluster : cluster'[y] = cluster[y] /\ y # x
         /\ \A y \in DOMAIN cluster' : y \notin DOMAIN out
         /\ TakenInOrder' /\ ClustersAreApart'
         /\ NobodyIsPaintedOver' /\ NobodyIsSqueezed'
<1>1. x \in DOMAIN spans /\ x \notin DOMAIN cluster /\ x \notin DOMAIN out
  BY DEF IsNext, Waiting
<1>2. DOMAIN cluster' = DOMAIN cluster \cup {x}
  BY DEF InLane
<1>3. cluster'[x] = l /\ \A y \in DOMAIN cluster : cluster'[y] = cluster[y] /\ y # x
  BY <1>1 DEF InLane
<1>4. \A y \in DOMAIN cluster' : y \notin DOMAIN out
  BY <1>1, <1>2 DEF LInv, LanesTypes
<1>5. TakenInOrder'
  <2> SUFFICES ASSUME NEW y \in (DOMAIN cluster' \cup DOMAIN out'), NEW z \in Waiting'
               PROVE  top(y)' <= top(z)'
    BY DEF TakenInOrder
  <2>1. z \in Waiting
    BY <1>2 DEF Waiting
  <2>2. top(y)' = top(y) /\ top(z)' = top(z)
    BY DEF top
  <2>3. CASE y = x
    BY <2>1, <2>2, <2>3, NextIsFirst DEF LInv, LanesTypes
  <2>4. CASE y # x
    BY <1>2, <2>1, <2>2, <2>4 DEF LInv, TakenInOrder
  <2> QED BY <2>3, <2>4
<1>6. ClustersAreApart'
  BY DEF LInv, ClustersAreApart, top, end
<1>7. NobodyIsPaintedOver' /\ NobodyIsSqueezed'
  BY DEF LInv, NobodyIsPaintedOver, NobodyIsSqueezed, overlapsSpan, On, top, end
<1> QED BY <1>1, <1>2, <1>3, <1>4, <1>5, <1>6, <1>7

LEMMA TakeLaneKeeps ==
  ASSUME LInv, NEW x \in DOMAIN spans, TakeLane(x)
  PROVE  LInv'
<1>0. PICK l \in Free(x) : InLane(x, l) /\ laneEnds' = [laneEnds EXCEPT ![l] = end(x)]
  BY DEF TakeLane
<1>1. l \in DOMAIN laneEnds /\ laneEnds[l] <= top(x)
  BY <1>0 DEF Free
<1>2. IsNext(x) /\ spans' = spans /\ out' = out
  BY DEF TakeLane
<1>3. /\ x \in DOMAIN spans /\ x \notin DOMAIN cluster
      /\ DOMAIN cluster' = DOMAIN cluster \cup {x}
      /\ cluster'[x] = l /\ \A y \in DOMAIN cluster : cluster'[y] = cluster[y] /\ y # x
      /\ \A y \in DOMAIN cluster' : y \notin DOMAIN out
      /\ TakenInOrder' /\ ClustersAreApart'
      /\ NobodyIsPaintedOver' /\ NobodyIsSqueezed'
  BY <1>0, <1>2, Taken
<1>4. \A y : top(y)' = top(y) /\ end(y)' = end(y)
  BY <1>2 DEF top, end
<1>5. \A y \in DOMAIN spans : top(y) \in Int /\ end(y) \in Int /\ top(y) <= end(y)
  BY Extents DEF LInv, LanesTypes
<1>6. laneEnds \in Seq(Int) /\ \A m \in DOMAIN laneEnds : laneEnds[m] \in Int
  BY DEF LInv, LanesTypes
<1>7. /\ laneEnds' \in Seq(Int) /\ DOMAIN laneEnds' = DOMAIN laneEnds
      /\ laneEnds'[l] = end(x)
      /\ \A m \in DOMAIN laneEnds : m # l => laneEnds'[m] = laneEnds[m]
  BY <1>0, <1>1, <1>5, <1>6
<1>8. \A y \in DOMAIN cluster : y \in DOMAIN spans /\ cluster[y] \in DOMAIN laneEnds
  BY DEF LInv, LanesTypes
<1>9. LanesTypes'
  <2>1. Drawable'
    BY <1>2 DEF LInv, LanesTypes, Drawable
  <2>2. \A y \in DOMAIN cluster' : cluster'[y] \in DOMAIN laneEnds'
    BY <1>1, <1>3, <1>7, <1>8
  <2>3. cluster' \in [DOMAIN cluster' -> DOMAIN laneEnds']
    <3>1. cluster' = [y \in DOMAIN cluster \cup {x} |-> IF y = x THEN l ELSE cluster[y]]
      BY <1>0 DEF InLane
    <3> QED BY <2>2, <3>1, <1>3
  <2> QED BY <1>2, <1>3, <1>7, <2>1, <2>3 DEF LInv, LanesTypes
<1>10. LanesEndWithSomebody'
  <2> SUFFICES ASSUME NEW m \in DOMAIN laneEnds
               PROVE  \E y \in DOMAIN cluster' : cluster'[y] = m /\ end(y) = laneEnds'[m]
    BY <1>4, <1>7 DEF LanesEndWithSomebody
  <2>1. CASE m = l
    BY <1>3, <1>7, <2>1
  <2>2. CASE m # l
    BY <1>3, <1>7, <2>2 DEF LInv, LanesEndWithSomebody
  <2> QED BY <2>1, <2>2
<1>11. LanesEndWithTheLast'
  <2> SUFFICES ASSUME NEW y \in DOMAIN cluster'
               PROVE  end(y) <= laneEnds'[cluster'[y]]
    BY <1>4 DEF LanesEndWithTheLast
  <2>1. CASE y = x
    BY <1>3, <1>5, <1>7, <2>1
  <2>2. CASE y # x
    <3>1. y \in DOMAIN cluster /\ cluster'[y] = cluster[y] /\ end(y) <= laneEnds[cluster[y]]
      BY <1>3, <2>2 DEF LInv, LanesEndWithTheLast
    <3>2. laneEnds[cluster[y]] <= laneEnds'[cluster[y]]
      BY <1>1, <1>5, <1>6, <1>7, <1>8, <3>1
    <3>3. laneEnds'[cluster[y]] \in Int
      BY <1>5, <1>6, <1>7, <1>8, <3>1
    <3> QED BY <1>5, <1>6, <1>8, <3>1, <3>2, <3>3
  <2> QED BY <2>1, <2>2
<1>12. LanesAreLines'
  <2>1. \A y \in DOMAIN cluster : cluster[y] = l => end(y) <= top(x)
    BY <1>1, <1>5, <1>6, <1>8 DEF LInv, LanesEndWithTheLast
  <2>2. \A y \in DOMAIN cluster : cluster[y] = l => ~overlapsSpan(x, y) /\ ~overlapsSpan(y, x)
    BY <1>5, <1>8, <2>1 DEF overlapsSpan
  <2>3. \A y, z : overlapsSpan(y, z)' <=> overlapsSpan(y, z)
    BY <1>4 DEF overlapsSpan
  <2> SUFFICES ASSUME NEW y \in DOMAIN cluster', NEW z \in DOMAIN cluster',
                      y # z, cluster'[y] = cluster'[z]
               PROVE  ~overlapsSpan(y, z)
    BY <2>3 DEF LanesAreLines
  <2>4. CASE y = x
    BY <1>3, <2>2, <2>4
  <2>5. CASE z = x
    BY <1>3, <2>2, <2>5
  <2>6. CASE y # x /\ z # x
    BY <1>3, <2>6 DEF LInv, LanesAreLines
  <2> QED BY <2>4, <2>5, <2>6
<1>13. LanesAreNeeded'
  <2>1. laneEnds # <<>>
    BY <1>1
  <2>2. PICK y \in DOMAIN cluster : \A m \in DOMAIN laneEnds :
          \E z \in DOMAIN cluster : cluster[z] = m /\ On(z, top(y))
    BY <2>1 DEF LInv, LanesAreNeeded
  <2>3. \A m \in DOMAIN laneEnds' : \E z \in DOMAIN cluster' : cluster'[z] = m /\ On(z, top(y))'
    BY <1>3, <1>4, <1>7, <2>2 DEF On
  <2> QED BY <1>3, <2>3 DEF LanesAreNeeded
<1> QED BY <1>3, <1>9, <1>10, <1>11, <1>12, <1>13 DEF LInv
LEMMA OpenLaneKeeps ==
  ASSUME LInv, NEW x \in DOMAIN spans, OpenLane(x)
  PROVE  LInv'
<1> DEFINE n == Len(laneEnds) + 1
<1>1. /\ IsNext(x) /\ spans' = spans /\ out' = out
      /\ InLane(x, n) /\ laneEnds' = Append(laneEnds, end(x))
  BY DEF OpenLane
<1>2. /\ x \notin DOMAIN cluster
      /\ DOMAIN cluster' = DOMAIN cluster \cup {x}
      /\ cluster'[x] = n /\ \A y \in DOMAIN cluster : cluster'[y] = cluster[y] /\ y # x
      /\ \A y \in DOMAIN cluster' : y \notin DOMAIN out
      /\ TakenInOrder' /\ ClustersAreApart'
      /\ NobodyIsPaintedOver' /\ NobodyIsSqueezed'
  <2> HIDE DEF n
  <2> QED BY <1>1, Taken
<1>3. \A y : top(y)' = top(y) /\ end(y)' = end(y)
  BY <1>1 DEF top, end
<1>4. \A y \in DOMAIN spans : top(y) \in Int /\ end(y) \in Int /\ top(y) <= end(y)
  BY Extents DEF LInv, LanesTypes
<1>5. laneEnds \in Seq(Int) /\ \A m \in DOMAIN laneEnds : laneEnds[m] \in Int
  BY DEF LInv, LanesTypes
<1>6. /\ laneEnds' \in Seq(Int) /\ DOMAIN laneEnds' = DOMAIN laneEnds \cup {n}
      /\ n \notin DOMAIN laneEnds /\ laneEnds'[n] = end(x)
      /\ \A m \in DOMAIN laneEnds : laneEnds'[m] = laneEnds[m]
  BY <1>1, <1>4, <1>5
<1>7. \A y \in DOMAIN cluster : y \in DOMAIN spans /\ cluster[y] \in DOMAIN laneEnds
  BY DEF LInv, LanesTypes
<1> HIDE DEF n
<1>8. LanesTypes'
  <2>1. Drawable'
    BY <1>1 DEF LInv, LanesTypes, Drawable
  <2>2. \A y \in DOMAIN cluster' : cluster'[y] \in DOMAIN laneEnds'
    BY <1>2, <1>6, <1>7
  <2>3. cluster' \in [DOMAIN cluster' -> DOMAIN laneEnds']
    <3>1. cluster' = [y \in DOMAIN cluster \cup {x} |-> IF y = x THEN n ELSE cluster[y]]
      BY <1>1 DEF InLane
    <3> QED BY <2>2, <3>1, <1>2
  <2> QED BY <1>1, <1>2, <1>6, <2>1, <2>3 DEF LInv, LanesTypes
<1>9. LanesEndWithSomebody'
  <2> SUFFICES ASSUME NEW m \in DOMAIN laneEnds'
               PROVE  \E y \in DOMAIN cluster' : cluster'[y] = m /\ end(y) = laneEnds'[m]
    BY <1>3 DEF LanesEndWithSomebody
  <2>1. CASE m = n
    BY <1>2, <1>6, <2>1
  <2>2. CASE m # n
    BY <1>2, <1>6, <2>2 DEF LInv, LanesEndWithSomebody
  <2> QED BY <2>1, <2>2
<1>10. LanesEndWithTheLast'
  <2> SUFFICES ASSUME NEW y \in DOMAIN cluster'
               PROVE  end(y) <= laneEnds'[cluster'[y]]
    BY <1>3 DEF LanesEndWithTheLast
  <2>1. CASE y = x
    BY <1>2, <1>4, <1>6, <2>1
  <2>2. CASE y # x
    BY <1>2, <1>6, <1>7, <2>2 DEF LInv, LanesEndWithTheLast
  <2> QED BY <2>1, <2>2
<1>11. LanesAreLines'
  <2>1. \A y, z : overlapsSpan(y, z)' <=> overlapsSpan(y, z)
    BY <1>3 DEF overlapsSpan
  <2> SUFFICES ASSUME NEW y \in DOMAIN cluster', NEW z \in DOMAIN cluster',
                      y # z, cluster'[y] = cluster'[z]
               PROVE  ~overlapsSpan(y, z)
    BY <2>1 DEF LanesAreLines
  <2>2. y # x /\ z # x
    BY <1>2, <1>6, <1>7
  <2> QED BY <1>2, <2>2 DEF LInv, LanesAreLines
<1>12. LanesAreNeeded'
  \* Whoever holds the end of a lane is still on when x begins.
  <2>1. ASSUME NEW m \in DOMAIN laneEnds
        PROVE  \E z \in DOMAIN cluster : cluster[z] = m /\ On(z, top(x))
    <3>1. PICK z \in DOMAIN cluster : cluster[z] = m /\ end(z) = laneEnds[m]
      BY DEF LInv, LanesEndWithSomebody
    <3>2. top(z) <= top(x)
      BY <1>1 DEF LInv, TakenInOrder, IsNext
    <3>3. m \notin Free(x)
      BY DEF OpenLane
    <3>4. top(x) < end(z)
      BY <1>4, <1>5, <1>7, <3>1, <3>3 DEF Free
    <3> QED BY <3>1, <3>2, <3>4 DEF On
  <2>2. On(x, top(x))
    BY <1>4 DEF On
  <2>3. \A m \in DOMAIN laneEnds' : \E z \in DOMAIN cluster' : cluster'[z] = m /\ On(z, top(x))
    BY <1>2, <1>6, <2>1, <2>2
  <2>4. \A z : On(z, top(x))' <=> On(z, top(x))
    BY <1>3 DEF On
  <2>5. \A m \in DOMAIN laneEnds' : \E z \in DOMAIN cluster' : cluster'[z] = m /\ On(z, top(x))'
    BY <2>3, <2>4
  <2>6. x \in DOMAIN cluster'
    BY <1>2
  <2> QED BY <2>5, <2>6 DEF LanesAreNeeded
<1> QED BY <1>2, <1>8, <1>9, <1>10, <1>11, <1>12 DEF LInv

\* What is laid out of a closed cluster: its members, each in its lane.
LEMMA CloseKeeps ==
  ASSUME LInv, closeCluster
  PROVE  LInv'
<1> DEFINE laid(x) == [lane |-> cluster[x], lanes |-> Len(laneEnds)]
<1>1. /\ laneEnds # <<>> /\ spans' = spans /\ cluster' = <<>> /\ laneEnds' = <<>>
      /\ \/ Waiting = {}
         \/ \E x \in Waiting : IsNext(x) /\ NothingReaches(x)
  BY DEF closeCluster
<1>2. DOMAIN cluster' = {} /\ DOMAIN laneEnds' = {}
  BY <1>1
<1>3. /\ DOMAIN out' = DOMAIN out \cup DOMAIN cluster
      /\ \A x \in DOMAIN cluster : out'[x] = laid(x)
      /\ \A x \in DOMAIN out : out'[x] = out[x] /\ x \notin DOMAIN cluster
  BY DEF closeCluster, LInv, LanesTypes
<1>4. \A x : top(x)' = top(x) /\ end(x)' = end(x)
  BY <1>1 DEF top, end
<1>5. \A x \in DOMAIN spans : top(x) \in Int /\ end(x) \in Int /\ top(x) <= end(x)
  BY Extents DEF LInv, LanesTypes
<1>6. laneEnds \in Seq(Int) /\ \A l \in DOMAIN laneEnds : laneEnds[l] \in Int
  BY DEF LInv, LanesTypes
<1>7. DOMAIN laneEnds = 1 .. Len(laneEnds) /\ Len(laneEnds) \in Nat
  BY <1>6
<1>8. \A x \in DOMAIN cluster : x \in DOMAIN spans /\ cluster[x] \in DOMAIN laneEnds
  BY DEF LInv, LanesTypes
<1>9. \A x \in DOMAIN cluster : laid(x).lane = cluster[x] /\ laid(x).lanes = Len(laneEnds)
  OBVIOUS
<1>10. Waiting' = Waiting
  <2>1. \A x : x \in Waiting' <=> x \in Waiting
    BY <1>1, <1>2, <1>3 DEF Waiting
  <2> QED BY <2>1
<1> HIDE DEF laid
<1>11. LanesTypes'
  <2>1. Drawable' /\ laneEnds' \in Seq(Int)
    BY <1>1 DEF LInv, LanesTypes, Drawable
  <2>2. cluster' \in [DOMAIN cluster' -> DOMAIN laneEnds']
    BY <1>1, <1>2
  <2>3. DOMAIN out' \subseteq DOMAIN spans'
    BY <1>1, <1>3, <1>8 DEF LInv, LanesTypes
  <2> QED BY <1>2, <2>1, <2>2, <2>3 DEF LanesTypes
<1>12. TakenInOrder'
  BY <1>2, <1>3, <1>4, <1>10 DEF LInv, TakenInOrder
<1>13. LanesEndWithSomebody' /\ LanesEndWithTheLast' /\ LanesAreLines' /\ LanesAreNeeded'
  BY <1>1, <1>2 DEF LanesEndWithSomebody, LanesEndWithTheLast, LanesAreLines, LanesAreNeeded
<1>14. ClustersAreApart'
  <2> SUFFICES ASSUME NEW x \in DOMAIN out', NEW y \in DOMAIN spans, y \notin DOMAIN out'
               PROVE  end(x) <= top(y)
    BY <1>1, <1>4 DEF ClustersAreApart
  <2>1. y \in Waiting
    BY <1>3 DEF Waiting
  <2>2. CASE x \in DOMAIN out
    BY <1>3, <2>2 DEF LInv, ClustersAreApart
  <2>3. CASE x \in DOMAIN cluster
    <3>1. PICK z \in Waiting : IsNext(z) /\ NothingReaches(z)
      BY <1>1, <2>1
    <3>2. end(x) <= laneEnds[cluster[x]] /\ laneEnds[cluster[x]] <= top(z)
      BY <1>8, <2>3, <3>1 DEF LInv, LanesEndWithTheLast, NothingReaches
    <3>3. top(z) <= top(y)
      BY <2>1, <3>1, NextIsFirst DEF LInv, LanesTypes
    <3>4. z \in DOMAIN spans
      BY DEF Waiting
    <3> QED BY <1>5, <1>6, <1>8, <2>3, <3>2, <3>3, <3>4
  <2> QED BY <1>3, <2>2, <2>3
<1>15. NobodyIsPaintedOver'
  <2>1. \A x, y : overlapsSpan(x, y)' <=> overlapsSpan(x, y)
    BY <1>4 DEF overlapsSpan
  <2> SUFFICES ASSUME NEW x \in DOMAIN out', NEW y \in DOMAIN out', x # y, overlapsSpan(x, y)
               PROVE  out'[x].lanes = out'[y].lanes /\ out'[x].lane # out'[y].lane
    BY <2>1 DEF NobodyIsPaintedOver
  <2>2. ASSUME NEW v \in DOMAIN out, NEW w \in DOMAIN cluster
        PROVE  ~overlapsSpan(v, w) /\ ~overlapsSpan(w, v)
    <3>1. w \in DOMAIN spans /\ w \notin DOMAIN out /\ v \in DOMAIN spans
      BY <1>3, <1>8 DEF LInv, LanesTypes
    <3>2. end(v) <= top(w)
      BY <3>1 DEF LInv, ClustersAreApart
    <3> QED BY <1>5, <3>1, <3>2 DEF overlapsSpan
  <2>3. CASE x \in DOMAIN out /\ y \in DOMAIN out
    BY <1>3, <2>3 DEF LInv, NobodyIsPaintedOver
  <2>4. CASE x \in DOMAIN cluster /\ y \in DOMAIN cluster
    BY <1>3, <1>9, <2>4 DEF LInv, LanesAreLines
  <2> QED BY <1>3, <2>2, <2>3, <2>4
<1>16. NobodyIsSqueezed'
  <2>1. \A x, y : On(x, top(y))' <=> On(x, top(y))
    BY <1>4 DEF On
  <2> SUFFICES ASSUME NEW x \in DOMAIN out'
               PROVE  /\ out'[x].lane \in 1 .. out'[x].lanes
                      /\ \E y \in DOMAIN out' : \A l \in 1 .. out'[x].lanes :
                           \E z \in DOMAIN out' :
                             /\ out'[z] = [lane |-> l, lanes |-> out'[x].lanes]
                             /\ On(z, top(y))
    BY <2>1 DEF NobodyIsSqueezed
  <2>2. CASE x \in DOMAIN out
    BY <1>3, <2>2 DEF LInv, NobodyIsSqueezed
  <2>3. CASE x \in DOMAIN cluster
    <3>1. out'[x].lane = cluster[x] /\ out'[x].lanes = Len(laneEnds)
      BY <1>3, <1>9, <2>3
    <3>2. PICK y \in DOMAIN cluster : \A l \in DOMAIN laneEnds :
            \E z \in DOMAIN cluster : cluster[z] = l /\ On(z, top(y))
      BY <1>1 DEF LInv, LanesAreNeeded
    <3>3. \A z \in DOMAIN cluster : out'[z] = [lane |-> cluster[z], lanes |-> Len(laneEnds)]
      BY <1>3 DEF laid
    <3> QED BY <1>3, <1>7, <1>8, <2>3, <3>1, <3>2, <3>3
  <2> QED BY <1>3, <2>2, <2>3
<1> QED BY <1>11, <1>12, <1>13, <1>14, <1>15, <1>16 DEF LInv

LEMMA LanesStep == LInv /\ [LanesNext]_lanesVars => LInv'
<1> SUFFICES ASSUME LInv, [LanesNext]_lanesVars PROVE LInv'
  OBVIOUS
<1>1. ASSUME NEW x \in DOMAIN spans, TakeLane(x) PROVE LInv'
  BY <1>1, TakeLaneKeeps
<1>2. ASSUME NEW x \in DOMAIN spans, OpenLane(x) PROVE LInv'
  BY <1>2, OpenLaneKeeps
<1>3. CASE closeCluster
  BY <1>3, CloseKeeps
<1>4. CASE UNCHANGED lanesVars
  BY <1>4 DEF lanesVars, LInv, LanesTypes, Drawable, TakenInOrder, LanesEndWithSomebody,
              LanesEndWithTheLast, LanesAreLines, ClustersAreApart, LanesAreNeeded,
              NobodyIsPaintedOver, NobodyIsSqueezed, Waiting, On, overlapsSpan, top, end
<1> QED BY <1>1, <1>2, <1>3, <1>4 DEF LanesNext

LEMMA LanesHold == LanesSpec => []LInv
<1> QED BY LanesStart, LanesStep, PTL DEF LanesSpec

\* Of any number of chips, however they overlap: none is drawn over another,
\* and none is narrower than the hour it is in makes it (A-099).
THEOREM ChipsShare == LanesSpec => []ChipsShareTheWidth
<1>1. LInv => ChipsShareTheWidth
  BY DEF LInv, ChipsShareTheWidth
<1> QED BY <1>1, LanesHold, PTL
-----------------------------------------------------------------------------
(* The links.                                                              *)

VisitType ==
  [status : AppointmentStatus, startAt : Nat, minutes : Nat, cutoff : Nat, version : Nat]
LinkType == [expiresAt : Nat, revoked : BOOLEAN]

LinkTypes ==
  /\ visit \in VisitType
  /\ links \in Seq(LinkType) /\ Len(links) >= 1
  /\ clock \in Nat
  /\ sweep # Swept => sweep \in VisitType
  /\ DOMAIN tab = Tab

\* The link of her confirmation works for a day after the end, wherever that is.
TheFirstLinkFollows ==
  ~links[1].revoked /\ links[1].expiresAt = manageTokenExpiry(endAt(visit))

\* A page is of the visit as it was; while it has not been written since, what
\* the page offers can be asked for.
PagesAreTrue ==
  \A t \in Tab :
    tab[t].pc \in {"drawn", "late"} =>
      /\ tab[t].seen \in VisitType
      /\ tab[t].seen.version <= visit.version
      /\ tab[t].seen.version = visit.version => tab[t].seen = visit
      /\ (tab[t].seen.version = visit.version /\ tab[t].pc = "late") => insideCutoff
      /\ (tab[t].pc = "drawn" /\ tab[t].movable) => tab[t].seen.status \in NotYetArrived

KInv == LinkTypes /\ TheFirstLinkFollows /\ PagesAreTrue

LEMMA LinksStart == LinksInit => KInv
<1> SUFFICES ASSUME LinksInit PROVE KInv
  OBVIOUS
<1>1. PICK s \in StartTimes, m \in Menu :
        visit = [status |-> "booked", startAt |-> s, minutes |-> m.minutes,
                 cutoff |-> m.cutoff, version |-> 0]
  BY DEF LinksInit
<1>2. s \in Nat /\ m.minutes \in Nat /\ m.cutoff \in Nat
  BY LinksAssumption
<1>3. visit \in VisitType
  BY <1>1, <1>2 DEF VisitType, AppointmentStatus
<1>4. endAt(visit) \in Nat /\ manageTokenExpiry(endAt(visit)) \in Nat
  BY <1>3, LinksAssumption DEF VisitType, endAt, manageTokenExpiry
<1>5. links = <<[expiresAt |-> manageTokenExpiry(endAt(visit)), revoked |-> FALSE]>>
  <2>1. links = Append(<<>>, [expiresAt |-> manageTokenExpiry(endAt(visit)), revoked |-> FALSE])
    BY DEF LinksInit, issueManageToken
  <2> QED BY <2>1
<1>6. LinkTypes
  <2>1. [expiresAt |-> manageTokenExpiry(endAt(visit)), revoked |-> FALSE] \in LinkType
    BY <1>4 DEF LinkType
  <2>2. links \in Seq(LinkType) /\ Len(links) >= 1
    BY <1>5, <2>1
  <2>3. clock \in Nat /\ sweep = Swept /\ DOMAIN tab = Tab
    BY DEF LinksInit
  <2> QED BY <1>3, <2>2, <2>3 DEF LinkTypes
<1>7. TheFirstLinkFollows
  BY <1>5 DEF TheFirstLinkFollows
<1>8. PagesAreTrue
  BY DEF PagesAreTrue, LinksInit, Blank
<1> QED BY <1>6, <1>7, <1>8 DEF KInv

\* A write of the row is later than every page.
LEMMA WrittenSince ==
  ASSUME KInv, NEW v, v \in VisitType, v.version = visit.version, Written(v),
         \A t \in Tab : tab'[t].pc \in {"drawn", "late"} => tab'[t] = tab[t]
  PROVE  visit' \in VisitType /\ visit'.version = visit.version + 1 /\ endAt(visit') = endAt(v)
         /\ visit'.status = v.status /\ PagesAreTrue'
<1>1. visit' = [v EXCEPT !.version = v.version + 1]
  BY DEF Written
<1>2. visit' \in VisitType /\ visit'.version = visit.version + 1 /\ visit.version \in Nat
      /\ visit'.status = v.status /\ visit'.startAt = v.startAt /\ visit'.minutes = v.minutes
  BY <1>1 DEF VisitType, KInv, LinkTypes
<1>3. PagesAreTrue'
  <2> SUFFICES ASSUME NEW t \in Tab, tab'[t].pc \in {"drawn", "late"}
               PROVE  /\ tab'[t].seen \in VisitType
                      /\ tab'[t].seen.version <= visit'.version
                      /\ tab'[t].seen.version # visit'.version
                      /\ (tab'[t].pc = "drawn" /\ tab'[t].movable)
                           => tab'[t].seen.status \in NotYetArrived
    BY DEF PagesAreTrue
  <2>1. tab'[t] = tab[t]
    OBVIOUS
  <2>2. /\ tab[t].seen \in VisitType /\ tab[t].seen.version <= visit.version
        /\ (tab[t].pc = "drawn" /\ tab[t].movable) => tab[t].seen.status \in NotYetArrived
    BY <2>1 DEF KInv, PagesAreTrue
  <2>3. tab[t].seen.version \in Nat
    BY <2>2 DEF VisitType
  <2> QED BY <1>2, <2>1, <2>2, <2>3
<1> QED BY <1>2, <1>3 DEF endAt

\* Re-pointing keeps the links, and brings the first to the new end.
LEMMA Repointed ==
  ASSUME KInv, NEW v, v \in VisitType, Rearranged(v), endAt(visit') = endAt(v)
  PROVE  links' \in Seq(LinkType) /\ Len(links') >= 1 /\ TheFirstLinkFollows'
<1> DEFINE x == manageTokenExpiry(endAt(v))
<1>1. x \in Nat
  BY LinksAssumption DEF VisitType, endAt, manageTokenExpiry
<1>2. links' = [l \in DOMAIN links |->
                  IF links[l].revoked THEN links[l] ELSE [links[l] EXCEPT !.expiresAt = x]]
  BY DEF Rearranged, repointManageTokens
<1>3. links \in Seq(LinkType) /\ Len(links) >= 1 /\ DOMAIN links = 1 .. Len(links)
      /\ \A l \in DOMAIN links : links[l] \in LinkType
  BY DEF KInv, LinkTypes
<1> HIDE DEF x
<1>4. \A l \in DOMAIN links : [links[l] EXCEPT !.expiresAt = x] \in LinkType
  BY <1>1, <1>3 DEF LinkType
<1>5. links' \in [1 .. Len(links) -> LinkType]
  BY <1>2, <1>3, <1>4
<1>6. links' \in Seq(LinkType) /\ Len(links') = Len(links)
  BY <1>3, <1>5
<1>7. 1 \in DOMAIN links /\ ~links[1].revoked
  BY <1>3 DEF KInv, TheFirstLinkFollows
<1>8. links'[1] = [links[1] EXCEPT !.expiresAt = x] /\ links[1] \in LinkType
  BY <1>2, <1>3, <1>7
<1>9. ~links'[1].revoked /\ links'[1].expiresAt = x
  BY <1>7, <1>8 DEF LinkType
<1>10. manageTokenExpiry(endAt(visit))' = x
  BY DEF x, manageTokenExpiry, endAt
<1> QED BY <1>3, <1>6, <1>9, <1>10 DEF TheFirstLinkFollows

\* What can still be cancelled is, plainly or as late; what is booked can be confirmed.
LEMMA HerAnswers ==
  /\ visit.status = "booked" => canTransition(visit.status, "confirmed", Her)
  /\ visit.status \in NotYetArrived =>
       (canTransition(visit.status, "cancelled", Her) \/ insideCutoff)
  /\ insideCutoff => canTransition(visit.status, "cancelled_late", Her)
  /\ visit.status \in NotYetArrived => (canReschedule(visit.status, Her) \/ insideCutoff)
<1>1. Her.actor = "customer_token"
  BY DEF Her, context
<1>2. visit.status = "booked" => canTransition(visit.status, "confirmed", Her)
  <2> DEFINE c == Clause({"booked"}, "confirmed", "customer_token", "none", FALSE)
  <2>1. c \in TRANSITIONS
    BY DEF TRANSITIONS
  <2>2. c.from = {"booked"} /\ c.to = "confirmed" /\ c.actor = "customer_token" /\ check(c, Her)
    BY DEF Clause, check
  <2> HIDE DEF c
  <2> QED BY <1>1, <2>1, <2>2 DEF canTransition
<1>3. visit.status \in NotYetArrived =>
        (canTransition(visit.status, "cancelled", Her) \/ insideCutoff)
  <2> DEFINE c == Clause(NotYetArrived, "cancelled", "customer_token", "outside-cutoff", FALSE)
  <2>1. c \in TRANSITIONS
    BY DEF TRANSITIONS
  <2>2. c.from = NotYetArrived /\ c.to = "cancelled" /\ c.actor = "customer_token"
        /\ (~isInsideCancellationCutoff(Her) => check(c, Her))
    BY DEF Clause, check
  <2> HIDE DEF c
  <2> QED BY <1>1, <2>1, <2>2 DEF canTransition, insideCutoff, NotYetArrived
<1>4. insideCutoff => canTransition(visit.status, "cancelled_late", Her)
  <2> DEFINE c == Clause(NotYetArrived, "cancelled_late", "customer_token", "inside-cutoff", FALSE)
  <2>1. c \in TRANSITIONS
    BY DEF TRANSITIONS
  <2>2. c.from = NotYetArrived /\ c.to = "cancelled_late" /\ c.actor = "customer_token"
        /\ (isInsideCancellationCutoff(Her) => check(c, Her))
    BY DEF Clause, check
  <2> HIDE DEF c
  <2> QED BY <1>1, <2>1, <2>2 DEF canTransition, insideCutoff, NotYetArrived
<1>5. visit.status \in NotYetArrived => (canReschedule(visit.status, Her) \/ insideCutoff)
  BY DEF canReschedule, insideCutoff, NotYetArrived
<1> QED BY <1>2, <1>3, <1>4, <1>5
\* A step that writes neither the row nor a page leaves the pages true: the
\* cutoff, once passed, stays passed.
LEMMA PagesStay ==
  ASSUME KInv, UNCHANGED <<visit, tab>>, clock' \in Nat, clock <= clock'
  PROVE  PagesAreTrue'
<1>1. insideCutoff => insideCutoff'
  <2>1. visit \in VisitType /\ clock \in Nat
    BY DEF KInv, LinkTypes
  <2>2. visit.startAt - visit.cutoff \in Int
    BY <2>1 DEF VisitType
  <2> QED BY <2>1, <2>2 DEF insideCutoff, isInsideCancellationCutoff, Her, context
<1> QED BY <1>1 DEF KInv, PagesAreTrue

\* A page that shows an answer, or nothing, is of no visit.
LEMMA OnePage ==
  ASSUME KInv, NEW t \in Tab, NEW v, Draws(t, v), UNCHANGED <<visit, clock>>,
         v.pc \in {"drawn", "late"} =>
           /\ v.seen \in VisitType /\ v.seen.version <= visit.version
           /\ v.seen.version = visit.version => v.seen = visit
           /\ (v.seen.version = visit.version /\ v.pc = "late") => insideCutoff
           /\ (v.pc = "drawn" /\ v.movable) => v.seen.status \in NotYetArrived
  PROVE  PagesAreTrue' /\ DOMAIN tab' = Tab
<1>1. DOMAIN tab' = Tab /\ tab'[t] = v /\ \A u \in Tab : u # t => tab'[u] = tab[u]
  BY DEF Draws, KInv, LinkTypes
<1>2. insideCutoff' <=> insideCutoff
  BY DEF insideCutoff, isInsideCancellationCutoff, Her, context
<1> SUFFICES ASSUME NEW u \in Tab, tab'[u].pc \in {"drawn", "late"}
             PROVE  /\ tab'[u].seen \in VisitType
                    /\ tab'[u].seen.version <= visit.version
                    /\ tab'[u].seen.version = visit.version => tab'[u].seen = visit
                    /\ (tab'[u].seen.version = visit.version /\ tab'[u].pc = "late")
                         => insideCutoff
                    /\ (tab'[u].pc = "drawn" /\ tab'[u].movable)
                         => tab'[u].seen.status \in NotYetArrived
  BY <1>1, <1>2 DEF PagesAreTrue
<1>3. CASE u = t
  BY <1>1, <1>3
<1>4. CASE u # t
  <2>1. tab'[u] = tab[u]
    BY <1>1, <1>4
  <2> QED BY <2>1 DEF KInv, PagesAreTrue
<1> QED BY <1>3, <1>4

\* A step that leaves the row and the links alone keeps the first link.
LEMMA FirstStays ==
  ASSUME KInv, UNCHANGED <<visit, links>>
  PROVE  TheFirstLinkFollows'
<1> QED BY DEF KInv, TheFirstLinkFollows, endAt, manageTokenExpiry

\* A tap, of a desk or of hers.
LEMMA StatusWritten ==
  ASSUME KInv, NEW to \in AppointmentStatus, Written([visit EXCEPT !.status = to]),
         UNCHANGED <<links, clock, sweep>>, DOMAIN tab' = Tab,
         \A t \in Tab : tab'[t].pc \in {"drawn", "late"} => tab'[t] = tab[t]
  PROVE  KInv'
<1> DEFINE v == [visit EXCEPT !.status = to]
<1>1. v \in VisitType /\ v.version = visit.version /\ endAt(v) = endAt(visit)
  BY DEF KInv, LinkTypes, VisitType, endAt
<1>2. Written(v)
  OBVIOUS
<1> HIDE DEF v
<1>3. visit' \in VisitType /\ endAt(visit') = endAt(v) /\ PagesAreTrue'
  BY <1>1, <1>2, WrittenSince
<1>4. TheFirstLinkFollows'
  BY <1>1, <1>3 DEF KInv, TheFirstLinkFollows, endAt, manageTokenExpiry
<1>5. LinkTypes'
  BY <1>3 DEF KInv, LinkTypes
<1> QED BY <1>3, <1>4, <1>5 DEF KInv

\* A move of the visit or of its end, of a desk or of hers.
LEMMA EndWritten ==
  ASSUME KInv, NEW v, v \in VisitType, v.version = visit.version, Rearranged(v),
         UNCHANGED <<clock, sweep>>, DOMAIN tab' = Tab,
         \A t \in Tab : tab'[t].pc \in {"drawn", "late"} => tab'[t] = tab[t]
  PROVE  KInv'
<1>1. visit' \in VisitType /\ endAt(visit') = endAt(v) /\ PagesAreTrue'
  BY WrittenSince DEF Rearranged
<1>2. links' \in Seq(LinkType) /\ Len(links') >= 1 /\ TheFirstLinkFollows'
  BY <1>1, Repointed
<1> QED BY <1>1, <1>2 DEF KInv, LinkTypes

LEMMA RemindKeeps == KInv /\ Remind => KInv'
<1> SUFFICES ASSUME KInv, Remind PROVE KInv'
  OBVIOUS
<1>1. visit' = visit /\ tab' = tab /\ clock' = clock /\ sweep' = Swept
  BY DEF Remind
<1>2. links \in Seq(LinkType) /\ Len(links) >= 1 /\ clock \in Nat
  BY DEF KInv, LinkTypes
<1>3. PagesAreTrue'
  BY <1>1, <1>2, PagesStay
<1>4. CASE links' = links
  BY <1>1, <1>3, <1>4, FirstStays DEF KInv, LinkTypes
<1>5. CASE links' = issueManageToken(links, endAt(sweep))
  <2> DEFINE l == [expiresAt |-> manageTokenExpiry(endAt(sweep)), revoked |-> FALSE]
  <2>1. sweep \in VisitType
    BY DEF Remind, KInv, LinkTypes
  <2>2. l \in LinkType
    BY <2>1, LinksAssumption DEF VisitType, LinkType, endAt, manageTokenExpiry
  <2>3. links' = Append(links, l)
    BY <1>5 DEF issueManageToken
  <2> HIDE DEF l
  <2>4. links' \in Seq(LinkType) /\ Len(links') >= 1 /\ links'[1] = links[1]
    BY <1>2, <2>2, <2>3
  <2>5. TheFirstLinkFollows'
    BY <1>1, <2>4 DEF KInv, TheFirstLinkFollows, endAt, manageTokenExpiry
  <2> QED BY <1>1, <1>3, <2>4, <2>5 DEF KInv, LinkTypes
<1> QED BY <1>4, <1>5 DEF Remind

LEMMA DeskKeeps ==
  ASSUME KInv,
         \/ \E to \in AppointmentStatus : Tap(to)
         \/ \E s \in StartTimes : Move(s) \/ PushColumn(s)
         \/ \E m \in Menu : ChangeServices(m)
  PROVE  KInv'
<1>1. visit \in VisitType /\ DOMAIN tab = Tab
  BY DEF KInv, LinkTypes
<1>2. ASSUME NEW to \in AppointmentStatus, Tap(to) PROVE KInv'
  BY <1>1, <1>2, StatusWritten DEF Tap
<1>3. ASSUME NEW s \in StartTimes, Move(s) \/ PushColumn(s) PROVE KInv'
  <2> DEFINE v == [visit EXCEPT !.startAt = s]
  <2>1. v \in VisitType /\ v.version = visit.version
    BY <1>1, LinksAssumption DEF VisitType
  <2>2. Rearranged(v) /\ UNCHANGED <<clock, sweep, tab>>
    BY <1>3 DEF Move, PushColumn
  <2> HIDE DEF v
  <2> QED BY <1>1, <2>1, <2>2, EndWritten
<1>4. ASSUME NEW m \in Menu, ChangeServices(m) PROVE KInv'
  <2> DEFINE v == [visit EXCEPT !.minutes = m.minutes, !.cutoff = m.cutoff]
  <2>1. v \in VisitType /\ v.version = visit.version
    BY <1>1, LinksAssumption DEF VisitType
  <2>2. Rearranged(v) /\ UNCHANGED <<clock, sweep, tab>>
    BY <1>4 DEF ChangeServices
  <2> HIDE DEF v
  <2> QED BY <1>1, <2>1, <2>2, EndWritten
<1> QED BY <1>2, <1>3, <1>4

LEMMA NotBefore == \A n \in Nat : n <= n
OBVIOUS

\* Where a page draws but the row and the links stay.
LEMMA PageKeeps ==
  ASSUME KInv, NEW t \in Tab,
         \/ \E l \in held : ManagePage(t, l)
         \/ NoLink(t)
         \/ /\ Refused(t) \/ (Draws(t, Told("too close")) /\ UNCHANGED visit)
                \/ (/\ insideCutoff /\ tab[t].pc = "drawn"
                    /\ Draws(t, [pc |-> "late", seen |-> tab[t].seen]) /\ UNCHANGED visit)
            /\ UNCHANGED <<links, clock, sweep>>
  PROVE  KInv'
<1>1. visit \in VisitType /\ UNCHANGED <<visit, links, clock, sweep>>
  BY DEF KInv, LinkTypes, ManagePage, NoLink, Refused
<1>2. visit.version <= visit.version
  <2>1. visit.version \in Nat
    BY <1>1 DEF VisitType
  <2> QED BY <2>1, NotBefore
<1>3. PagesAreTrue' /\ DOMAIN tab' = Tab
  <2>1. ASSUME NEW l \in held, ManagePage(t, l) PROVE PagesAreTrue' /\ DOMAIN tab' = Tab
    <3>1. CASE verifyManageToken(l)
      <4> DEFINE v == [pc |-> "drawn", link |-> l, seen |-> visit,
                       movable |-> canReschedule(visit.status, Her)]
      <4>1. Draws(t, v)
        BY <2>1, <3>1 DEF ManagePage
      <4>2. v.pc = "drawn" /\ v.seen = visit /\ (v.movable => visit.status \in NotYetArrived)
        BY DEF canReschedule, NotYetArrived
      <4> HIDE DEF v
      <4> QED BY <1>1, <1>2, <4>1, <4>2, OnePage
    <3>2. CASE ~verifyManageToken(l)
      <4>1. Draws(t, Told("gone")) /\ Told("gone").pc = "told"
        BY <2>1, <3>2 DEF ManagePage, Told
      <4> QED BY <1>1, <4>1, OnePage
    <3> QED BY <3>1, <3>2
  <2>2. ASSUME NEW word, Draws(t, Told(word)) PROVE PagesAreTrue' /\ DOMAIN tab' = Tab
    <3>1. Told(word).pc = "told"
      BY DEF Told
    <3> QED BY <1>1, <2>2, <3>1, OnePage
  <2>3. ASSUME insideCutoff, tab[t].pc = "drawn", Draws(t, [pc |-> "late", seen |-> tab[t].seen])
        PROVE  PagesAreTrue' /\ DOMAIN tab' = Tab
    <3> DEFINE v == [pc |-> "late", seen |-> tab[t].seen]
    <3>1. /\ tab[t].seen \in VisitType /\ tab[t].seen.version <= visit.version
          /\ tab[t].seen.version = visit.version => tab[t].seen = visit
      BY <2>3 DEF KInv, PagesAreTrue
    <3>2. v.pc = "late" /\ v.seen = tab[t].seen
      OBVIOUS
    <3> HIDE DEF v
    <3>3. Draws(t, v)
      BY <2>3 DEF v
    <3> QED BY <1>1, <2>3, <3>1, <3>2, <3>3, OnePage
  <2> QED BY <2>1, <2>2, <2>3 DEF NoLink, Refused
<1>4. TheFirstLinkFollows'
  BY <1>1, FirstStays
<1> QED BY <1>1, <1>3, <1>4 DEF KInv, LinkTypes

\* Her button, where it writes the row or draws a page.
LEMMA HerKeeps ==
  ASSUME KInv, NEW t \in Tab,
         \/ confirmAppointment(t) \/ cancelAppointment(t) \/ cancelWithLateSplit(t)
         \/ \E s \in StartTimes : rescheduleToTime(t, s)
  PROVE  KInv'
<1>1. visit \in VisitType /\ DOMAIN tab = Tab
  BY DEF KInv, LinkTypes
<1>2. ASSUME NEW to \in AppointmentStatus, Becomes(t, to), UNCHANGED <<links, clock, sweep>>
      PROVE  KInv'
  <2>1. Draws(t, Told("done")) /\ Told("done").pc = "told"
    BY <1>2 DEF Becomes, Told
  <2>2. DOMAIN tab' = Tab /\ \A u \in Tab : tab'[u].pc \in {"drawn", "late"} => tab'[u] = tab[u]
    BY <1>1, <2>1 DEF Draws
  <2> QED BY <1>2, <2>2, StatusWritten DEF Becomes
<1>3. ASSUME Refused(t), UNCHANGED <<links, clock, sweep>> PROVE KInv'
  BY <1>3, PageKeeps
<1>4. CASE confirmAppointment(t)
  <2>1. Becomes(t, "confirmed") \/ Refused(t)
    BY <1>4 DEF confirmAppointment
  <2>2. UNCHANGED <<links, clock, sweep>> /\ "confirmed" \in AppointmentStatus
    BY <1>4 DEF confirmAppointment, AppointmentStatus
  <2> QED BY <1>2, <1>3, <2>1, <2>2
<1>5. CASE cancelAppointment(t)
  <2>1. UNCHANGED <<links, clock, sweep>> /\ "cancelled" \in AppointmentStatus /\ tab[t].pc = "drawn"
    BY <1>5 DEF cancelAppointment, AppointmentStatus, openManageLink
  <2>2. \/ Becomes(t, "cancelled")
        \/ insideCutoff /\ Draws(t, [pc |-> "late", seen |-> tab[t].seen]) /\ UNCHANGED visit
        \/ Refused(t)
    BY <1>5 DEF cancelAppointment
  <2>3. CASE insideCutoff /\ Draws(t, [pc |-> "late", seen |-> tab[t].seen]) /\ UNCHANGED visit
    BY <2>1, <2>3, PageKeeps
  <2> QED BY <1>2, <1>3, <2>1, <2>2, <2>3
<1>6. CASE cancelWithLateSplit(t)
  <2>1. Becomes(t, "cancelled_late") \/ Refused(t)
    BY <1>6 DEF cancelWithLateSplit
  <2>2. UNCHANGED <<links, clock, sweep>> /\ "cancelled_late" \in AppointmentStatus
    BY <1>6 DEF cancelWithLateSplit, AppointmentStatus
  <2> QED BY <1>2, <1>3, <2>1, <2>2
<1>7. ASSUME NEW s \in StartTimes, rescheduleToTime(t, s) PROVE KInv'
  <2>1. UNCHANGED <<clock, sweep>>
    BY <1>7 DEF rescheduleToTime
  <2>2. \/ Rearranged([visit EXCEPT !.startAt = s]) /\ Draws(t, Told("done"))
        \/ Draws(t, Told("too close")) /\ UNCHANGED <<visit, links>>
        \/ Refused(t) /\ UNCHANGED links
    BY <1>7 DEF rescheduleToTime
  <2>3. CASE Rearranged([visit EXCEPT !.startAt = s]) /\ Draws(t, Told("done"))
    <3> DEFINE v == [visit EXCEPT !.startAt = s]
    <3>1. v \in VisitType /\ v.version = visit.version
      BY <1>1, LinksAssumption DEF VisitType
    <3>2. Rearranged(v)
      BY <2>3
    <3> HIDE DEF v
    <3>3. Told("done").pc = "told"
      BY DEF Told
    <3>4. DOMAIN tab' = Tab /\ \A u \in Tab : tab'[u].pc \in {"drawn", "late"} => tab'[u] = tab[u]
      BY <1>1, <2>3, <3>3 DEF Draws
    <3> QED BY <2>1, <3>1, <3>2, <3>4, EndWritten
  <2>4. CASE Draws(t, Told("too close")) /\ UNCHANGED <<visit, links>>
    BY <2>1, <2>4, PageKeeps
  <2> QED BY <1>3, <2>1, <2>2, <2>3, <2>4
<1> QED BY <1>4, <1>5, <1>6, <1>7

LEMMA LinksStep == KInv /\ [LinksNext]_linksVars => KInv'
<1> SUFFICES ASSUME KInv, [LinksNext]_linksVars PROVE KInv'
  OBVIOUS
<1>1. clock \in Nat /\ \A n \in Nat : n <= n /\ n + 1 \in Nat /\ n <= n + 1
  BY DEF KInv, LinkTypes
<1>2. ASSUME UNCHANGED <<visit, links, tab>>, clock' \in Nat, clock <= clock',
             sweep' # Swept => sweep' \in VisitType
      PROVE  KInv'
  BY <1>2, PagesStay, FirstStays DEF KInv, LinkTypes
<1>3. ASSUME NEW l \in sending, Deliver(l) \/ Lose(l) PROVE KInv'
  BY <1>1, <1>2, <1>3 DEF Deliver, Lose, KInv, LinkTypes
<1>4. CASE SweepVisit
  BY <1>1, <1>2, <1>4 DEF SweepVisit, KInv, LinkTypes
<1>5. CASE Tick
  BY <1>1, <1>2, <1>5 DEF Tick, KInv, LinkTypes
<1>6. CASE UNCHANGED linksVars
  BY <1>1, <1>2, <1>6 DEF linksVars, KInv, LinkTypes
<1>7. CASE Remind
  BY <1>7, RemindKeeps
<1>8. ASSUME NEW t \in Tab, NoLink(t) \/ \E l \in held : ManagePage(t, l) PROVE KInv'
  BY <1>8, PageKeeps
<1> QED BY <1>3, <1>4, <1>5, <1>6, <1>7, <1>8, DeskKeeps, HerKeeps DEF LinksNext

LEMMA LinksHold == LinksSpec => []KInv
<1> QED BY LinksStart, LinksStep, PTL DEF LinksSpec

\* Whatever the desks do to the visit, and whether or not a reminder reached
\* her, what her confirmation sent her opens until a day after the end (D-28).
THEOREM LinkLives == LinksSpec => []LinkLivesADayAfter
<1>1. KInv => LinkLivesADayAfter
  BY DEF KInv, TheFirstLinkFollows, LinkLivesADayAfter, verifyManageToken
<1> QED BY <1>1, LinksHold, PTL

\* A step that answers a page "not something we can change online" found the
\* visit written since the page was drawn.
LEMMA RefusedOfOthers ==
  ASSUME KInv, [LinksNext]_linksVars, NEW t \in Tab,
         tab[t].pc \in {"drawn", "late"}, tab'[t] = Told("cannot")
  PROVE  tab[t].seen.version # visit.version
<1> SUFFICES ASSUME tab[t].seen.version = visit.version PROVE FALSE
  OBVIOUS
<1>1. DOMAIN tab = Tab /\ visit \in VisitType /\ tab[t].seen = visit
      /\ (tab[t].pc = "late" => insideCutoff)
      /\ ((tab[t].pc = "drawn" /\ tab[t].movable) => visit.status \in NotYetArrived)
  BY DEF KInv, LinkTypes, PagesAreTrue
<1>2. tab'[t].pc = "told" /\ tab'[t].word = "cannot"
  BY DEF Told
<1>3. tab' # tab
  BY <1>2
<1>4. ASSUME NEW u, NEW v, Draws(u, v), u # t PROVE FALSE
  BY <1>1, <1>2, <1>4 DEF Draws
<1>5. ASSUME NEW v, Draws(t, v), v.pc # "told" \/ v.word # "cannot" PROVE FALSE
  BY <1>1, <1>2, <1>5 DEF Draws
<1>6. \A w \in {"done", "gone", "too close"} : Told(w).word # "cannot"
  BY DEF Told
<1>7. PICK u \in Tab :
        \/ \E l \in held : ManagePage(u, l)
        \/ NoLink(u)
        \/ confirmAppointment(u) \/ cancelAppointment(u) \/ cancelWithLateSplit(u)
        \/ \E s \in StartTimes : rescheduleToTime(u, s)
  BY <1>3 DEF LinksNext, linksVars, Deliver, Lose, SweepVisit, Remind, Tick, Tap, Move,
              PushColumn, ChangeServices
<1>8. u = t
  <2>1. \E v : Draws(u, v)
    BY <1>7 DEF ManagePage, NoLink, confirmAppointment, cancelAppointment, cancelWithLateSplit,
                rescheduleToTime, Becomes, Refused
  <2> QED BY <1>4, <2>1
<1>9. ASSUME NEW l \in held, ManagePage(t, l) PROVE FALSE
  <2>1. CASE Draws(t, Told("gone"))
    BY <1>5, <1>6, <2>1
  <2>2. CASE Draws(t, [pc |-> "drawn", link |-> l, seen |-> visit,
                       movable |-> canReschedule(visit.status, Her)])
    BY <1>5, <2>2
  <2> QED BY <1>9, <2>1, <2>2 DEF ManagePage
<1>10. CASE NoLink(t)
  BY <1>5, <1>6, <1>10 DEF NoLink
<1>11. CASE confirmAppointment(t)
  <2>1. visit.status = "booked"
    BY <1>1, <1>11 DEF confirmAppointment
  <2>2. Becomes(t, "confirmed")
    BY <1>11, <2>1, HerAnswers DEF confirmAppointment
  <2> QED BY <1>5, <1>6, <2>2 DEF Becomes
<1>12. CASE cancelAppointment(t)
  <2>1. visit.status \in NotYetArrived
    BY <1>1, <1>12 DEF cancelAppointment
  <2>2. \/ Becomes(t, "cancelled")
        \/ Draws(t, [pc |-> "late", seen |-> tab[t].seen])
    <3>1. canTransition(visit.status, "cancelled", Her) \/ insideCutoff
      BY <2>1, HerAnswers
    <3> QED BY <1>12, <3>1 DEF cancelAppointment
  <2> QED BY <1>5, <1>6, <2>2 DEF Becomes
<1>13. CASE cancelWithLateSplit(t)
  <2>1. insideCutoff
    BY <1>1, <1>13 DEF cancelWithLateSplit
  <2>2. Becomes(t, "cancelled_late")
    BY <1>13, <2>1, HerAnswers DEF cancelWithLateSplit
  <2> QED BY <1>5, <1>6, <2>2 DEF Becomes
<1>14. ASSUME NEW s \in StartTimes, rescheduleToTime(t, s) PROVE FALSE
  <2>1. visit.status \in NotYetArrived
    BY <1>1, <1>14 DEF rescheduleToTime, openManageLink
  <2>2. canReschedule(visit.status, Her) \/ insideCutoff
    BY <2>1, HerAnswers
  <2>3. Draws(t, Told("done")) \/ Draws(t, Told("too close"))
    BY <1>14, <2>2 DEF rescheduleToTime
  <2> QED BY <1>5, <1>6, <2>3
<1> QED BY <1>7, <1>8, <1>9, <1>10, <1>11, <1>12, <1>13, <1>14

\* A page of the visit as it stands is never refused: a cutoff that passes
\* under it makes a late cancellation, not a refusal (APPT-05).
THEOREM RefusedForCause == LinksSpec => RefusedOnlyIfChanged
<1>1. KInv /\ [LinksNext]_linksVars
        => [\A t \in Tab : (tab[t].pc \in {"drawn", "late"} /\ tab'[t] = Told("cannot"))
              => tab[t].seen.version # visit.version]_linksVars
  BY RefusedOfOthers
<1> QED BY <1>1, LinksHold, PTL DEF LinksSpec, RefusedOnlyIfChanged
-----------------------------------------------------------------------------
\* A fold over a finite set, one member after another.  pick says who of some
\* of them comes last, and step what is made of what was made of the others.

PicksTheLast(pick, S) ==
  /\ pick \in [(SUBSET S) \ {{}} -> S]
  /\ \A T \in (SUBSET S) \ {{}} : pick[T] \in T
  /\ \A T, U \in (SUBSET S) \ {{}} : U \subseteq T /\ pick[T] \in U => pick[U] = pick[T]

Folded(g, T, base, pick, step) ==
  \A s \in SUBSET T : g[s] = IF s = {} THEN base ELSE step[<<pick[s], g[s \ {pick[s]}]>>]

\* Made in the same way, as far as what it is made of is the same.
Follows(h, g, S, base, pick, step) ==
  /\ h[{}] = base
  /\ \A T \in (SUBSET S) \ {{}} :
       h[T \ {pick[T]}] = g[T \ {pick[T]}] => h[T] = step[<<pick[T], g[T \ {pick[T]}]>>]

\* What each step keeps.
Keeps(I, S, V, base, pick, step) ==
  /\ <<{}, base>> \in I
  /\ \A T \in (SUBSET S) \ {{}}, v \in V :
       <<T \ {pick[T]}, v>> \in I => <<T, step[<<pick[T], v>>]>> \in I

LEMMA FewestOf ==
  ASSUME NEW S, IsFiniteSet(S), NEW B \in SUBSET SUBSET S, B # {}
  PROVE  \E T \in B : \A x \in T : T \ {x} \notin B
<1> DEFINE R == StrictSubsetOrdering(S)
           F == FiniteSubsetsOf(S)
<1>1. IsWellFoundedOn(R, F)
  BY FS_StrictSubsetOrderingWellFounded
<1>2. B \subseteq F
  BY FS_Subset DEF FiniteSubsetsOf
<1>3. PICK T \in B : \A U \in B : <<U, T>> \notin R
  <2> HIDE DEF R, F
  <2> QED BY <1>1, <1>2, WFMin
<1>4. ASSUME NEW x \in T, T \ {x} \in B PROVE FALSE
  <2>1. <<T \ {x}, T>> \in R
    BY <1>4 DEF StrictSubsetOrdering
  <2> QED BY <1>3, <1>4, <2>1
<1> QED BY <1>4

LEMMA FoldExists ==
  ASSUME NEW S, IsFiniteSet(S), NEW V, NEW base \in V, NEW step \in [S \X V -> V],
         NEW pick, PicksTheLast(pick, S)
  PROVE  \E g \in [SUBSET S -> V] : Folded(g, S, base, pick, step)
<1> DEFINE Has(T) == \E g \in [SUBSET T -> V] : Folded(g, T, base, pick, step)
           B == {T \in SUBSET S : ~Has(T)}
<1>1. Has({})
  <2> DEFINE g == [s \in SUBSET {} |-> base]
  <2>1. g \in [SUBSET {} -> V] /\ Folded(g, {}, base, pick, step)
    BY DEF Folded
  <2> QED BY <2>1
<1>2. ASSUME NEW T \in SUBSET S, T # {}, Has(T \ {pick[T]}) PROVE Has(T)
  <2> DEFINE x == pick[T]
             W == T \ {x}
  <2>1. x \in T /\ x \in S
    BY <1>2 DEF PicksTheLast
  <2>2. PICK f \in [SUBSET W -> V] : Folded(f, W, base, pick, step)
    BY <1>2
  <2>3. \A s \in SUBSET T : s \ {x} \in SUBSET W
    OBVIOUS
  <2>4. \A s \in SUBSET T : x \in s => pick[s] = x /\ s # {}
    BY <1>2 DEF PicksTheLast
  <2> HIDE DEF x
  <2> DEFINE g == [s \in SUBSET T |-> IF x \in s THEN step[<<x, f[s \ {x}]>>] ELSE f[s]]
  <2>5. \A s \in SUBSET T : x \notin s => s \in SUBSET W /\ s \ {pick[s]} \in SUBSET W /\ x \notin s \ {pick[s]}
    OBVIOUS
  <2>6. g \in [SUBSET T -> V]
    BY <2>1, <2>3, <2>5
  <2>7. ASSUME NEW s \in SUBSET T PROVE g[s] = IF s = {} THEN base ELSE step[<<pick[s], g[s \ {pick[s]}]>>]
    <3>1. CASE x \in s
      <4>1. g[s] = step[<<x, f[s \ {x}]>>] /\ g[s \ {x}] = f[s \ {x}]
        BY <3>1
      <4> QED BY <2>4, <3>1, <4>1
    <3>2. CASE x \notin s
      <4>1. s \in SUBSET W /\ g[s] = f[s] /\ g[s \ {pick[s]}] = f[s \ {pick[s]}]
        BY <2>5, <3>2
      <4>2. f[s] = IF s = {} THEN base ELSE step[<<pick[s], f[s \ {pick[s]}]>>]
        BY <2>2, <4>1 DEF Folded
      <4> QED BY <4>1, <4>2
    <3> QED BY <3>1, <3>2
  <2> HIDE DEF g
  <2>8. Folded(g, T, base, pick, step)
    BY <2>7 DEF Folded
  <2> QED BY <2>6, <2>8
<1> HIDE DEF Has
<1>3. B = {}
  <2> SUFFICES ASSUME B # {} PROVE FALSE
    OBVIOUS
  <2>1. PICK T \in B : \A x \in T : T \ {x} \notin B
    <3>1. B \in SUBSET SUBSET S
      OBVIOUS
    <3> HIDE DEF B
    <3> QED BY <3>1, FewestOf
  <2>2. T \in SUBSET S /\ T # {} /\ pick[T] \in T
    BY <1>1 DEF PicksTheLast
  <2>3. Has(T \ {pick[T]})
    BY <2>1, <2>2
  <2> QED BY <1>2, <2>2, <2>3
<1> QED BY <1>3 DEF Has

\* What each step keeps is true of what is made of all.
LEMMA FoldKeeps ==
  ASSUME NEW S, IsFiniteSet(S), NEW V, NEW base \in V, NEW step \in [S \X V -> V],
         NEW pick, PicksTheLast(pick, S),
         NEW g \in [SUBSET S -> V], Folded(g, S, base, pick, step),
         NEW I, Keeps(I, S, V, base, pick, step)
  PROVE  <<S, g[S]>> \in I
<1> DEFINE B == {T \in SUBSET S : <<T, g[T]>> \notin I}
<1>1. B = {}
  <2> SUFFICES ASSUME B # {} PROVE FALSE
    OBVIOUS
  <2>1. PICK T \in B : \A x \in T : T \ {x} \notin B
    <3>1. B \in SUBSET SUBSET S
      OBVIOUS
    <3> HIDE DEF B
    <3> QED BY <3>1, FewestOf
  <2>2. T \in SUBSET S /\ <<T, g[T]>> \notin I
    BY <2>1
  <2>3. T # {}
    <3>1. g[{}] = base
      BY DEF Folded
    <3> QED BY <2>2, <3>1 DEF Keeps
  <2>4. pick[T] \in T
    BY <2>2, <2>3 DEF PicksTheLast
  <2>5. T \ {pick[T]} \in SUBSET S /\ T \ {pick[T]} \notin B
    BY <2>1, <2>2, <2>4
  <2>6. <<T \ {pick[T]}, g[T \ {pick[T]}]>> \in I /\ g[T \ {pick[T]}] \in V
    BY <2>5
  <2>7. g[T] = step[<<pick[T], g[T \ {pick[T]}]>>]
    BY <2>2, <2>3 DEF Folded
  <2>8. <<T, step[<<pick[T], g[T \ {pick[T]}]>>]>> \in I
    <3>1. T \in (SUBSET S) \ {{}}
      BY <2>2, <2>3
    <3> DEFINE v == g[T \ {pick[T]}]
    <3>2. v \in V /\ <<T \ {pick[T]}, v>> \in I
      BY <2>6
    <3> HIDE DEF v
    <3>3. <<T, step[<<pick[T], v>>]>> \in I
      BY <3>1, <3>2 DEF Keeps
    <3> QED BY <3>3 DEF v
  <2> QED BY <2>2, <2>7, <2>8
<1> QED BY <1>1

\* And whatever is made of them in that way is made by the fold.
LEMMA FoldIsOne ==
  ASSUME NEW S, IsFiniteSet(S), NEW base, NEW step, NEW pick, PicksTheLast(pick, S),
         NEW g, Folded(g, S, base, pick, step),
         NEW h, Follows(h, g, S, base, pick, step)
  PROVE  h[S] = g[S]
<1> DEFINE B == {T \in SUBSET S : h[T] # g[T]}
<1>1. B = {}
  <2> SUFFICES ASSUME B # {} PROVE FALSE
    OBVIOUS
  <2>1. PICK T \in B : \A x \in T : T \ {x} \notin B
    <3>1. B \in SUBSET SUBSET S
      OBVIOUS
    <3> HIDE DEF B
    <3> QED BY <3>1, FewestOf
  <2>2. T \in SUBSET S /\ h[T] # g[T]
    BY <2>1
  <2>3. T # {}
    <3>1. g[{}] = base
      BY DEF Folded
    <3> QED BY <2>2, <3>1 DEF Follows
  <2>4. pick[T] \in T
    BY <2>2, <2>3 DEF PicksTheLast
  <2>5. T \ {pick[T]} \in SUBSET S /\ T \ {pick[T]} \notin B
    BY <2>1, <2>2, <2>4
  <2>6. h[T \ {pick[T]}] = g[T \ {pick[T]}]
    BY <2>5
  <2>7. g[T] = step[<<pick[T], g[T \ {pick[T]}]>>]
    BY <2>2, <2>3 DEF Folded
  <2>8. T \in (SUBSET S) \ {{}}
    BY <2>2, <2>3
  <2> QED BY <2>2, <2>6, <2>7, <2>8 DEF Follows
<1> QED BY <1>1

-----------------------------------------------------------------------------
\* What is left of some hours when others are taken out of them.

Stretch == [start : Int, end : Int]
In(t, x) == x.start <= t /\ t < x.end
Under(t, xs) == \E x \in xs : In(t, x)

latestOf(S) == [T \in (SUBSET S) \ {{}} |-> CHOOSE x \in T : \A y \in T : ~Day!Before(x, y)]

LEMMA LeastByIsThere ==
  ASSUME NEW S, IsFiniteSet(S), S # {}, NEW f \in [S -> Int]
  PROVE  \E x \in S : \A y \in S : f[x] <= f[y]
<1> DEFINE Has(T) == \E x \in T : \A y \in T : f[x] <= f[y]
           B == {T \in SUBSET S : T # {} /\ ~Has(T)}
<1> SUFFICES ASSUME B # {} PROVE FALSE
  OBVIOUS
<1>1. PICK T \in B : \A x \in T : T \ {x} \notin B
  <2>1. B \in SUBSET SUBSET S
    OBVIOUS
  <2> HIDE DEF B
  <2> QED BY <2>1, FewestOf
<1>2. T \in SUBSET S /\ T # {} /\ ~Has(T)
  BY <1>1
<1>3. PICK x \in T : TRUE
  BY <1>2
<1>4. T \ {x} # {}
  <2>1. T # {x}
    BY <1>2, <1>3
  <2> QED BY <1>2, <2>1
<1>5. Has(T \ {x})
  BY <1>1, <1>2, <1>4
<1>6. PICK m \in T \ {x} : \A y \in T \ {x} : f[m] <= f[y]
  BY <1>5
<1>7. CASE f[x] <= f[m]
  BY <1>2, <1>3, <1>6, <1>7
<1>8. CASE ~(f[x] <= f[m])
  BY <1>2, <1>3, <1>6, <1>8
<1> QED BY <1>7, <1>8

LEMMA OneIsLatest ==
  ASSUME NEW S \in SUBSET Stretch, IsFiniteSet(S), S # {}
  PROVE  \E x \in S : \A y \in S : ~Day!Before(x, y)
<1> DEFINE Has(T) == \E x \in T : \A y \in T : ~Day!Before(x, y)
           B == {T \in SUBSET S : T # {} /\ ~Has(T)}
<1> SUFFICES ASSUME B # {} PROVE FALSE
  OBVIOUS
<1>1. PICK T \in B : \A x \in T : T \ {x} \notin B
  <2>1. B \in SUBSET SUBSET S
    OBVIOUS
  <2> HIDE DEF B
  <2> QED BY <2>1, FewestOf
<1>2. T \in SUBSET S /\ T # {} /\ ~Has(T)
  BY <1>1
<1>3. PICK x \in T : TRUE
  BY <1>2
<1>4. ~Day!Before(x, x) /\ x \in Stretch
  BY <1>2, <1>3 DEF Day!Before, Stretch
<1>5. T \ {x} # {}
  <2>1. T # {x}
    BY <1>2, <1>4
  <2> QED BY <1>2, <2>1
<1>6. Has(T \ {x})
  BY <1>1, <1>2, <1>5
<1>7. PICK m \in T \ {x} : \A y \in T \ {x} : ~Day!Before(m, y)
  BY <1>6
<1>8. CASE Day!Before(m, x)
  <2>1. \A y \in T \ {x} : y \in Stretch /\ m \in Stretch /\ ~Day!Before(m, y)
    BY <1>2, <1>7
  <2>2. \A y \in T \ {x} : ~Day!Before(x, y)
    BY <1>4, <1>8, <2>1 DEF Day!Before, Stretch
  <2> QED BY <1>2, <1>3, <1>4, <2>2
<1>9. CASE ~Day!Before(m, x)
  BY <1>2, <1>7, <1>9
<1> QED BY <1>8, <1>9

LEMMA LatestIsPicked ==
  ASSUME NEW S \in SUBSET Stretch, IsFiniteSet(S)
  PROVE  /\ PicksTheLast(latestOf(S), S)
         /\ \A T \in (SUBSET S) \ {{}} : \A y \in T : y.start <= latestOf(S)[T].start
<1> DEFINE pick == latestOf(S)
<1>1. ASSUME NEW T \in (SUBSET S) \ {{}}
      PROVE  pick[T] \in T /\ \A y \in T : ~Day!Before(pick[T], y)
  <2>1. \E x \in T : \A y \in T : ~Day!Before(x, y)
    BY OneIsLatest, FS_Subset
  <2>2. pick[T] = CHOOSE x \in T : \A y \in T : ~Day!Before(x, y)
    BY DEF latestOf
  <2> QED BY <2>1, <2>2
<1>2. pick \in [(SUBSET S) \ {{}} -> S]
  <2>1. pick = [T \in (SUBSET S) \ {{}} |-> pick[T]]
    BY DEF latestOf
  <2> QED BY <1>1, <2>1
<1> HIDE DEF pick
<1>3. ASSUME NEW T \in (SUBSET S) \ {{}}, NEW U \in (SUBSET S) \ {{}}, U \subseteq T, pick[T] \in U
      PROVE  pick[U] = pick[T]
  <2>1. /\ pick[T] \in Stretch /\ pick[U] \in Stretch
        /\ ~Day!Before(pick[T], pick[U]) /\ ~Day!Before(pick[U], pick[T])
    BY <1>1, <1>3
  <2> QED BY <2>1 DEF Day!Before, Stretch
<1>4. ASSUME NEW T \in (SUBSET S) \ {{}}, NEW y \in T PROVE y.start <= pick[T].start
  <2>1. pick[T] \in Stretch /\ y \in Stretch /\ ~Day!Before(pick[T], y)
    BY <1>1
  <2> QED BY <2>1 DEF Day!Before, Stretch
<1> QED BY <1>1, <1>2, <1>3, <1>4 DEF PicksTheLast, pick

\* The runs of a list and the stretches they were made of.
Covers(m, T) ==
  /\ \A i \in 1 .. Len(m) : m[i].start < m[i].end /\ \E y \in T : m[i].start = y.start
  /\ \A t \in Int : (\E i \in 1 .. Len(m) : In(t, m[i])) <=> Under(t, T)

LEMMA JoinedCovers ==
  ASSUME NEW m \in Seq(Stretch), NEW x \in Stretch
  PROVE  /\ Day!joined(m, x) \in Seq(Stretch)
         /\ \A T \in SUBSET Stretch :
              (x \in T /\ (\A y \in T : y.start <= x.start) /\ Covers(m, T \ {x})) => Covers(Day!joined(m, x), T)
<1> DEFINE n == Len(m)
           r == Day!joined(m, x)
<1>1. n \in Nat /\ \A i \in 1 .. n : m[i] \in Stretch
  OBVIOUS
<1>2. CASE x.end <= x.start
  <2>1. r = m
    BY <1>2 DEF Day!joined
  <2>2. ASSUME NEW T \in SUBSET Stretch, x \in T, Covers(m, T \ {x}) PROVE Covers(m, T)
    <3>1. \A t \in Int : ~In(t, x)
      BY <1>2 DEF In, Stretch
    <3>2. \A t \in Int : Under(t, T) <=> Under(t, T \ {x})
      BY <3>1, <2>2 DEF Under
    <3> QED BY <2>2, <3>2 DEF Covers
  <2> QED BY <2>1, <2>2
<1>3. CASE x.start < x.end /\ (m = <<>> \/ m[n].end < x.start)
  <2>1. r = Append(m, x)
    BY <1>3 DEF Day!joined, Day!Last, Stretch
  <2>2. r \in Seq(Stretch) /\ Len(r) = n + 1 /\ r[n + 1] = x /\ \A i \in 1 .. n : r[i] = m[i]
    BY <2>1
  <2>3. ASSUME NEW T \in SUBSET Stretch, x \in T, Covers(m, T \ {x}) PROVE Covers(r, T)
    <3>1. \A i \in 1 .. n + 1 : i = n + 1 \/ i \in 1 .. n
      BY <1>1
    <3>2. \A i \in 1 .. n + 1 : r[i].start < r[i].end /\ \E y \in T : r[i].start = y.start
      BY <1>3, <2>2, <2>3, <3>1 DEF Covers
    <3>3. ASSUME NEW t \in Int PROVE (\E i \in 1 .. n + 1 : In(t, r[i])) <=> Under(t, T)
      <4>1. Under(t, T) <=> Under(t, T \ {x}) \/ In(t, x)
        BY <2>3 DEF Under
      <4>2. (\E i \in 1 .. n + 1 : In(t, r[i])) <=> (\E i \in 1 .. n : In(t, m[i])) \/ In(t, x)
        BY <1>1, <2>2, <3>1
      <4>3. (\E i \in 1 .. n : In(t, m[i])) <=> Under(t, T \ {x})
        BY <2>3 DEF Covers
      <4> QED BY <4>1, <4>2, <4>3
    <3> QED BY <2>2, <3>2, <3>3 DEF Covers
  <2> HIDE DEF r
  <2> QED BY <2>2, <2>3 DEF r
<1>4. CASE x.start < x.end /\ m # <<>> /\ x.start <= m[n].end
  <2>1. r = [m EXCEPT ![n].end = Day!Larger(@, x.end)]
    <3>1. n \in 1 .. n /\ m[n].end \in Int
      BY <1>1, <1>4 DEF Stretch
    <3> QED BY <1>4, <3>1 DEF Day!joined, Day!Last, Stretch
  <2>2. n \in 1 .. n /\ m[n] \in Stretch
    BY <1>1, <1>4
  <2> DEFINE e == Day!Larger(m[n].end, x.end)
             l == [start |-> m[n].start, end |-> e]
  <2>3. e \in Int /\ m[n].end <= e /\ x.end <= e /\ (e = m[n].end \/ e = x.end)
    BY <2>2 DEF Day!Larger, Stretch
  <2>4. r = [m EXCEPT ![n] = l]
    BY <2>1, <2>2 DEF Stretch
  <2>5. l \in Stretch /\ l.start = m[n].start /\ l.end = e
    BY <2>2, <2>3 DEF Stretch
  <2> HIDE DEF e, l, r
  <2>6. r \in Seq(Stretch) /\ Len(r) = n /\ r[n] = l /\ \A i \in 1 .. n : i # n => r[i] = m[i]
    BY <2>2, <2>4, <2>5
  <2>7. ASSUME NEW T \in SUBSET Stretch, x \in T, \A y \in T : y.start <= x.start, Covers(m, T \ {x})
        PROVE  Covers(r, T)
    <3>1. m[n].start < m[n].end /\ m[n].start <= x.start
      BY <2>2, <2>7 DEF Covers
    <3>2. \A t \in Int : In(t, l) <=> In(t, m[n]) \/ In(t, x)
      BY <1>4, <2>2, <2>3, <2>5, <3>1 DEF In, Stretch
    <3>3. ASSUME NEW i \in 1 .. n PROVE r[i].start < r[i].end /\ \E y \in T : r[i].start = y.start
      <4>1. r[i].start = m[i].start
        BY <2>5, <2>6
      <4>2. l.start < l.end
        BY <2>2, <2>3, <2>5, <3>1 DEF Stretch
      <4> QED BY <2>6, <2>7, <4>1, <4>2 DEF Covers
    <3>4. ASSUME NEW t \in Int PROVE (\E i \in 1 .. n : In(t, r[i])) <=> Under(t, T)
      <4>1. Under(t, T) <=> Under(t, T \ {x}) \/ In(t, x)
        BY <2>7 DEF Under
      <4>2. (\E i \in 1 .. n : In(t, r[i])) <=> (\E i \in 1 .. n : In(t, m[i])) \/ In(t, x)
        BY <2>2, <2>6, <3>2
      <4>3. (\E i \in 1 .. n : In(t, m[i])) <=> Under(t, T \ {x})
        BY <2>7 DEF Covers
      <4> QED BY <4>1, <4>2, <4>3
    <3> QED BY <2>6, <3>3, <3>4 DEF Covers
  <2> QED BY <2>6, <2>7 DEF r
<1> QED
  <2>1. x.start \in Int /\ x.end \in Int /\ (m # <<>> => m[n].end \in Int)
    BY <1>1 DEF Stretch
  <2> QED BY <1>2, <1>3, <1>4, <2>1

LEMMA UnionCovers ==
  ASSUME NEW S \in SUBSET Stretch, IsFiniteSet(S)
  PROVE  Day!union(S) \in Seq(Stretch) /\ Covers(Day!union(S), S)
<1> DEFINE V == Seq(Stretch)
           pick == latestOf(S)
           step == [p \in S \X V |-> Day!joined(p[2], p[1])]
           I == {p \in (SUBSET S) \X V : Covers(p[2], p[1])}
           Made(f) == [s \in SUBSET S |->
                         IF s = {} THEN <<>>
                         ELSE LET x == CHOOSE x \in s : \A y \in s : ~Day!Before(x, y)
                              IN Day!joined(f[s \ {x}], x)]
           h == CHOOSE f : f = Made(f)
<1>1. Day!union(S) = h[S]
  BY DEF Day!union, Day!inOrder, Day!MapThenFoldSet
<1>2. PicksTheLast(pick, S) /\ \A T \in (SUBSET S) \ {{}} : \A y \in T : y.start <= pick[T].start
  BY LatestIsPicked
<1>3. <<>> \in V /\ step \in [S \X V -> V] /\ \A x \in S, m \in V : step[<<x, m>>] = Day!joined(m, x)
  <2>1. \A x \in S, m \in V : Day!joined(m, x) \in V
    BY JoinedCovers
  <2> QED BY <2>1
<1>4. \A s \in (SUBSET S) \ {{}} : pick[s] = CHOOSE x \in s : \A y \in s : ~Day!Before(x, y)
  BY DEF latestOf
<1> HIDE DEF pick, step, V
<1>5. PICK g \in [SUBSET S -> V] : Folded(g, S, <<>>, pick, step)
  BY <1>2, <1>3, FoldExists
<1>6. g = Made(g)
  <2>1. ASSUME NEW s \in SUBSET S PROVE g[s] = Made(g)[s]
    <3>1. CASE s = {}
      BY <1>5, <3>1 DEF Folded
    <3>2. CASE s # {}
      <4>1. g[s] = step[<<pick[s], g[s \ {pick[s]}]>>] /\ pick[s] \in S /\ g[s \ {pick[s]}] \in V
        BY <1>2, <1>5, <3>2 DEF Folded, PicksTheLast
      <4>2. g[s] = Day!joined(g[s \ {pick[s]}], pick[s])
        BY <1>3, <4>1
      <4> QED BY <1>4, <3>2, <4>2
    <3> QED BY <3>1, <3>2
  <2> QED BY <2>1
<1>7. h = Made(h)
  <2> HIDE DEF Made
  <2> QED BY <1>6
<1>8. h[S] = g[S]
  <2>1. h[{}] = <<>>
    BY <1>7
  <2>2. ASSUME NEW T \in (SUBSET S) \ {{}}, h[T \ {pick[T]}] = g[T \ {pick[T]}]
        PROVE  h[T] = step[<<pick[T], g[T \ {pick[T]}]>>]
    <3>1. h[T] = Day!joined(h[T \ {pick[T]}], pick[T])
      BY <1>4, <1>7
    <3>2. pick[T] \in S /\ g[T \ {pick[T]}] \in V
      BY <1>2 DEF PicksTheLast
    <3> QED BY <1>3, <2>2, <3>1, <3>2
  <2> HIDE DEF h
  <2>3. Follows(h, g, S, <<>>, pick, step)
    BY <2>1, <2>2 DEF Follows
  <2> QED BY <1>2, <1>5, <2>3, FoldIsOne
<1>9. <<S, g[S]>> \in I
  <2>1. <<{}, <<>>>> \in I
    <3>1. Covers(<<>>, {})
      BY DEF Covers, Under
    <3> QED BY <1>3, <3>1
  <2>2. ASSUME NEW T \in (SUBSET S) \ {{}}, NEW m \in V, <<T \ {pick[T]}, m>> \in I
        PROVE  <<T, step[<<pick[T], m>>]>> \in I
    <3>1. pick[T] \in T /\ pick[T] \in S /\ T \in SUBSET Stretch /\ Covers(m, T \ {pick[T]})
      BY <1>2, <2>2 DEF PicksTheLast
    <3>2. Day!joined(m, pick[T]) \in V /\ Covers(Day!joined(m, pick[T]), T)
      BY <1>2, <3>1, JoinedCovers DEF V
    <3>3. step[<<pick[T], m>>] = Day!joined(m, pick[T])
      BY <1>3, <3>1
    <3> QED BY <3>2, <3>3
  <2> HIDE DEF I
  <2>3. Keeps(I, S, V, <<>>, pick, step)
    BY <2>1, <2>2 DEF Keeps
  <2> QED BY <1>2, <1>3, <1>5, <2>3, FoldKeeps
<1> QED BY <1>1, <1>8, <1>9 DEF V

LEMMA ImagesAreFinite ==
  ASSUME NEW D, IsFiniteSet(D), NEW f
  PROVE  IsFiniteSet({f[x] : x \in D})
<1> DEFINE T == {f[x] : x \in D}
           g == [x \in D |-> f[x]]
<1>1. g \in Surjection(D, T)
  BY DEF Surjection
<1> QED BY <1>1, FS_Surjection

LEMMA RunsAreStretches ==
  ASSUME NEW S \in SUBSET Stretch, IsFiniteSet(S)
  PROVE  /\ Day!ToSet(Day!union(S)) \in SUBSET Stretch
         /\ IsFiniteSet(Day!ToSet(Day!union(S)))
         /\ \A x \in Day!ToSet(Day!union(S)) : x.start < x.end
         /\ \A t \in Int : Under(t, Day!ToSet(Day!union(S))) <=> Under(t, S)
<1> DEFINE m == Day!union(S)
           R == Day!ToSet(m)
<1>1. m \in Seq(Stretch) /\ Covers(m, S)
  BY UnionCovers
<1> HIDE DEF m
<1>2. R = {m[i] : i \in 1 .. Len(m)}
  BY <1>1 DEF Day!ToSet
<1>3. IsFiniteSet(R)
  <2>1. IsFiniteSet(1 .. Len(m))
    BY <1>1, FS_Interval
  <2> QED BY <1>2, <2>1, ImagesAreFinite
<1> HIDE DEF R
<1>4. \A i \in 1 .. Len(m) : m[i] \in Stretch /\ m[i].start < m[i].end
  BY <1>1 DEF Covers
<1>5. \A t \in Int : Under(t, R) <=> Under(t, S)
  BY <1>1, <1>2 DEF Covers, Under
<1> QED BY <1>2, <1>3, <1>4, <1>5 DEF R, m

Proper(m) == \A x \in m : x.start < x.end

LEMMA TakenOutCovers ==
  ASSUME NEW m \in SUBSET Stretch, Proper(m), NEW b \in Stretch
  PROVE  /\ Day!takenOut(m, b) \in SUBSET Stretch
         /\ Proper(Day!takenOut(m, b))
         /\ \A t \in Int : Under(t, Day!takenOut(m, b)) <=> Under(t, m) /\ ~In(t, b)
<1> DEFINE W(x) == Day!Without(x, b)
<1>1. ASSUME NEW x \in m
      PROVE  W(x) \in SUBSET Stretch /\ Proper(W(x)) /\ \A t \in Int : Under(t, W(x)) <=> In(t, x) /\ ~In(t, b)
  <2>1. /\ x \in Stretch /\ x.start \in Int /\ x.end \in Int /\ x.start < x.end
        /\ b.start \in Int /\ b.end \in Int
    BY DEF Proper, Stretch
  <2>2. CASE ~Day!overlaps(x, b)
    <3>1. W(x) = {x}
      BY <2>2 DEF Day!Without
    <3>2. \A t \in Int : In(t, x) => ~In(t, b)
      BY <2>1, <2>2 DEF Day!overlaps, In
    <3> QED BY <2>1, <3>1, <3>2 DEF Proper, Under
  <2>3. CASE Day!overlaps(x, b)
    <3> DEFINE l == [start |-> x.start, end |-> b.start]
               r == [start |-> b.end, end |-> x.end]
    <3>1. W(x) = {y \in {l, r} : y.start < y.end}
      BY <2>3 DEF Day!Without, Day!Span
    <3>2. l \in Stretch /\ r \in Stretch
      BY <2>1 DEF Stretch
    <3>3. \A t \in Int : (In(t, l) \/ In(t, r)) <=> In(t, x) /\ ~In(t, b)
      BY <2>1, <2>3 DEF Day!overlaps, In
    <3>4. \A t \in Int : (In(t, l) => l.start < l.end) /\ (In(t, r) => r.start < r.end)
      BY <2>1 DEF In
    <3> HIDE DEF l, r
    <3>5. \A t \in Int : Under(t, W(x)) <=> In(t, l) \/ In(t, r)
      BY <3>1, <3>4 DEF Under
    <3> QED BY <3>1, <3>2, <3>3, <3>5 DEF Proper
  <2> QED BY <2>2, <2>3
<1>2. Day!takenOut(m, b) = UNION {W(x) : x \in m}
  BY DEF Day!takenOut
<1> HIDE DEF W
<1>3. \A t \in Int : Under(t, UNION {W(x) : x \in m}) <=> \E x \in m : Under(t, W(x))
  BY DEF Under
<1>4. \A t \in Int : Under(t, UNION {W(x) : x \in m}) <=> Under(t, m) /\ ~In(t, b)
  BY <1>1, <1>3 DEF Under
<1>5. UNION {W(x) : x \in m} \in SUBSET Stretch /\ Proper(UNION {W(x) : x \in m})
  BY <1>1 DEF Proper
<1> QED BY <1>2, <1>4, <1>5

\* What is left of some hours is what of them nothing was taken from.
LEMMA WhatIsLeft ==
  ASSUME NEW H \in SUBSET Stretch, IsFiniteSet(H), NEW B \in SUBSET Stretch, IsFiniteSet(B)
  PROVE  /\ Day!subtractSpans(H, B) \in SUBSET Stretch
         /\ Proper(Day!subtractSpans(H, B))
         /\ \A t \in Int : Under(t, Day!subtractSpans(H, B)) <=> Under(t, H) /\ ~Under(t, B)
<1> DEFINE V == SUBSET Stretch
           base == Day!ToSet(Day!union(H))
           S == Day!ToSet(Day!union(B))
           pick == latestOf(S)
           step == [p \in S \X V |-> Day!takenOut(p[2], p[1])]
           Left(m, T) == Proper(m) /\ \A t \in Int : Under(t, m) <=> Under(t, H) /\ ~Under(t, T)
           I == {p \in (SUBSET S) \X V : Left(p[2], p[1])}
           Made(f) == [s \in SUBSET S |->
                         IF s = {} THEN base
                         ELSE LET x == CHOOSE x \in s : \A y \in s : ~Day!Before(x, y)
                              IN Day!takenOut(f[s \ {x}], x)]
           h == CHOOSE f : f = Made(f)
<1>1. Day!subtractSpans(H, B) = h[S]
  BY DEF Day!subtractSpans, Day!inOrder, Day!MapThenFoldSet
<1>2. /\ base \in V /\ Proper(base) /\ \A t \in Int : Under(t, base) <=> Under(t, H)
      /\ S \in V /\ IsFiniteSet(S) /\ \A t \in Int : Under(t, S) <=> Under(t, B)
  BY RunsAreStretches DEF Proper
<1> HIDE DEF S, base
<1>3. PicksTheLast(pick, S)
  BY <1>2, LatestIsPicked
<1>4. step \in [S \X V -> V] /\ \A x \in S, m \in V : step[<<x, m>>] = Day!takenOut(m, x)
  <2>1. \A x \in S, m \in V : Day!takenOut(m, x) \in V
    <3>1. ASSUME NEW x \in Stretch, NEW m \in V PROVE Day!takenOut(m, x) \in V
      <4>1. ASSUME NEW y \in m PROVE Day!Without(y, x) \in V
        <5>1. y \in Stretch /\ x \in Stretch
          BY <3>1
        <5> QED BY <5>1 DEF Day!Without, Day!Span, Stretch
      <4> QED BY <4>1 DEF Day!takenOut
    <3> QED BY <1>2, <3>1
  <2> QED BY <2>1
<1>5. \A s \in (SUBSET S) \ {{}} : pick[s] = CHOOSE x \in s : \A y \in s : ~Day!Before(x, y)
  BY DEF latestOf
<1> HIDE DEF pick, step, V
<1>6. PICK g \in [SUBSET S -> V] : Folded(g, S, base, pick, step)
  BY <1>2, <1>3, <1>4, FoldExists
<1>7. g = Made(g)
  <2>1. ASSUME NEW s \in SUBSET S PROVE g[s] = Made(g)[s]
    <3>1. CASE s = {}
      BY <1>6, <3>1 DEF Folded
    <3>2. CASE s # {}
      <4>1. g[s] = step[<<pick[s], g[s \ {pick[s]}]>>] /\ pick[s] \in S /\ g[s \ {pick[s]}] \in V
        BY <1>3, <1>6, <3>2 DEF Folded, PicksTheLast
      <4>2. g[s] = Day!takenOut(g[s \ {pick[s]}], pick[s])
        BY <1>4, <4>1
      <4> QED BY <1>5, <3>2, <4>2
    <3> QED BY <3>1, <3>2
  <2> QED BY <2>1
<1>8. h = Made(h)
  <2> HIDE DEF Made
  <2> QED BY <1>7
<1>9. h[S] = g[S]
  <2>1. h[{}] = base
    BY <1>8
  <2>2. ASSUME NEW T \in (SUBSET S) \ {{}}, h[T \ {pick[T]}] = g[T \ {pick[T]}]
        PROVE  h[T] = step[<<pick[T], g[T \ {pick[T]}]>>]
    <3>1. h[T] = Day!takenOut(h[T \ {pick[T]}], pick[T])
      BY <1>5, <1>8
    <3>2. pick[T] \in S /\ g[T \ {pick[T]}] \in V
      BY <1>3 DEF PicksTheLast
    <3> QED BY <1>4, <2>2, <3>1, <3>2
  <2> HIDE DEF h
  <2>3. Follows(h, g, S, base, pick, step)
    BY <2>1, <2>2 DEF Follows
  <2> QED BY <1>2, <1>3, <1>6, <2>3, FoldIsOne
<1>10. <<S, g[S]>> \in I
  <2>1. <<{}, base>> \in I
    BY <1>2 DEF Under
  <2>2. ASSUME NEW T \in (SUBSET S) \ {{}}, NEW m \in V, <<T \ {pick[T]}, m>> \in I
        PROVE  <<T, step[<<pick[T], m>>]>> \in I
    <3>1. pick[T] \in T /\ pick[T] \in S /\ pick[T] \in Stretch /\ m \in SUBSET Stretch
          /\ Left(m, T \ {pick[T]})
      BY <1>2, <1>3, <2>2 DEF PicksTheLast, V
    <3>2. /\ Day!takenOut(m, pick[T]) \in V
          /\ Proper(Day!takenOut(m, pick[T]))
          /\ \A t \in Int : Under(t, Day!takenOut(m, pick[T])) <=> Under(t, m) /\ ~In(t, pick[T])
      BY <3>1, TakenOutCovers DEF V
    <3>3. \A t \in Int : Under(t, T) <=> Under(t, T \ {pick[T]}) \/ In(t, pick[T])
      BY <3>1 DEF Under
    <3>4. step[<<pick[T], m>>] = Day!takenOut(m, pick[T])
      BY <1>4, <3>1
    <3>5. Left(Day!takenOut(m, pick[T]), T)
      BY <3>1, <3>2, <3>3
    <3> QED BY <3>2, <3>4, <3>5
  <2> HIDE DEF I
  <2>3. Keeps(I, S, V, base, pick, step)
    BY <2>1, <2>2 DEF Keeps
  <2> QED BY <1>2, <1>3, <1>4, <1>6, <2>3, FoldKeeps
<1> QED
  <2>1. g[S] \in V /\ Left(g[S], S)
    BY <1>10
  <2> QED BY <1>1, <1>2, <1>9, <2>1 DEF V

-----------------------------------------------------------------------------
\* What a page of the day is drawn from.

PInv ==
  /\ table \in [Appt -> Shows \cup {NoRow}]
  /\ OfAStylist => page.provider \in Provider /\ page.onRoster \in BOOLEAN

LEMMA PageStays ==
  /\ ColumnInit => PInv
  /\ PInv /\ [ColumnNext]_columnVars => PInv'
<1>1. ColumnInit => PInv
  BY DEF ColumnInit, PInv, OfAStylist
<1>2. PInv /\ [ColumnNext]_columnVars => PInv'
  BY DEF ColumnNext, columnVars, PInv, OfAStylist
<1> QED BY <1>1, <1>2

\* Whoever holds time is a visit of the book.
LEMMA HoldersAreRows ==
  ASSUME PInv, NEW a \in Live(table)
  PROVE  a \in Appt /\ table[a] \in Row /\ table[a] # NoRow /\ table[a].startAt < table[a].endAt
<1>1. a \in Appt /\ table[a] \in Shows \cup {NoRow} /\ table[a].status \in Active
  BY DEF PInv, Live
<1>2. table[a] # NoRow
  BY <1>1 DEF NoRow, Active, AppointmentStatus
<1> QED BY <1>1, <1>2, ColumnAssumption

\* Her worked spans: so many, and none of them empty.
LEMMA WorkIsStretches ==
  ASSUME PInv, NEW a
  PROVE  /\ busySpans(table, a) \in SUBSET Stretch
         /\ IsFiniteSet(busySpans(table, a))
         /\ Proper(busySpans(table, a))
<1>1. CASE a \notin Live(table)
  <2>1. busySpans(table, a) = {}
    BY <1>1 DEF busySpans
  <2> QED BY <2>1, FS_EmptySet DEF Proper
<1>2. CASE a \in Live(table)
  <2> DEFINE r == table[a]
             n == Len(Parts[r.service])
  <2>1. r \in Row /\ r.startAt < r.endAt
    BY <1>2, HoldersAreRows
  <2>2. busySpans(table, a) = busy(r)
    BY <1>2 DEF busySpans
  <2> HIDE DEF r
  <2>3. /\ r.startAt \in Int /\ r.endAt \in Int
        /\ BufferBefore[r.service] \in Nat /\ BufferAfter[r.service] \in Nat
        /\ n \in Nat
    BY <2>1, SalonAssumption DEF Row
  <2>4. CASE r.isOverride
    <3>1. busy(r) = {Envelope(r)} /\ Envelope(r) \in Stretch /\ Envelope(r).start < Envelope(r).end
      BY <2>1, <2>3, <2>4 DEF busy, Envelope, Span, Stretch
    <3> QED BY <2>2, <3>1, FS_Singleton DEF Proper
  <2>5. CASE ~r.isOverride
    <3>1. busy(r) = {x \in blocks(r) : x.start < x.end}
      BY <2>5 DEF busy
    <3>2. ASSUME NEW x \in blocks(r) PROVE x \in Stretch
      <4>1. x.start \in Int /\ x.end \in Int
        BY <2>1, BlocksAreNumbers
      <4>2. \E s, e : x = [start |-> s, end |-> e]
        BY DEF blocks, blockedRange, partBlock, truncated, Span
      <4> QED BY <4>1, <4>2 DEF Stretch
    <3>3. IsFiniteSet(blocks(r))
      <4> DEFINE worked == {partBlock(r, i) : i \in 1 .. n}
      <4>1. IsFiniteSet(worked)
        <5> DEFINE f == [i \in 1 .. n |-> partBlock(r, i)]
        <5>1. IsFiniteSet(1 .. n)
          BY <2>3, FS_Interval
        <5>2. worked = {f[i] : i \in 1 .. n}
          OBVIOUS
        <5> HIDE DEF f, worked
        <5> QED BY <5>1, <5>2, ImagesAreFinite
      <4>2. ASSUME NEW cut PROVE IsFiniteSet(truncated(worked, cut))
        <5> DEFINE kept == {x \in worked : x.start < cut}
                   f == [x \in kept |-> Span(x.start, IF x.end > cut THEN cut ELSE x.end)]
        <5>1. IsFiniteSet(kept)
          BY <4>1, FS_Subset
        <5>2. truncated(worked, cut) = {f[x] : x \in kept}
          BY DEF truncated
        <5> HIDE DEF f, kept
        <5> QED BY <5>1, <5>2, ImagesAreFinite
      <4>3. \/ blocks(r) = {blockedRange(r)}
            \/ blocks(r) = truncated(worked, blockedEnd(r))
            \/ blocks(r) = worked
        BY DEF blocks
      <4>4. IsFiniteSet({blockedRange(r)})
        BY FS_Singleton
      <4>5. IsFiniteSet(truncated(worked, blockedEnd(r)))
        BY <4>2
      <4> HIDE DEF worked
      <4> QED BY <4>1, <4>3, <4>4, <4>5
    <3>4. IsFiniteSet(busy(r))
      BY <3>1, <3>3, FS_Subset
    <3> QED BY <2>2, <3>1, <3>2, <3>4 DEF Proper
  <2> QED BY <2>4, <2>5
<1> QED BY <1>1, <1>2

\* The chip of whoever holds time lies over all of it.
LEMMA ExtentCovers ==
  ASSUME PInv, NEW a \in Live(table), NEW s \in busySpans(table, a)
  PROVE  /\ extent(table, a) \in Stretch
         /\ extent(table, a).start <= s.start /\ s.end <= extent(table, a).end
<1> DEFINE W == busySpans(table, a)
           f == [x \in W |-> x.start]
           l == [x \in W |-> -x.end]
<1>1. W \in SUBSET Stretch /\ IsFiniteSet(W) /\ s \in W
  BY WorkIsStretches
<1>2. extent(table, a) = [start |-> First({x.start : x \in W}), end |-> Latest({x.end : x \in W})]
  BY DEF extent, Span
<1> HIDE DEF W
<1>3. PICK x \in W : \A y \in W : x.start <= y.start
  <2>1. f \in [W -> Int]
    BY <1>1 DEF Stretch
  <2>2. \E x \in W : \A y \in W : f[x] <= f[y]
    <3> HIDE DEF f
    <3> QED BY <1>1, <2>1, LeastByIsThere
  <2> QED BY <2>2
<1>4. PICK z \in W : \A y \in W : y.end <= z.end
  <2>1. l \in [W -> Int]
    BY <1>1 DEF Stretch
  <2>2. \E z \in W : \A y \in W : l[z] <= l[y]
    <3> HIDE DEF l
    <3> QED BY <1>1, <2>1, LeastByIsThere
  <2> QED BY <1>1, <2>2 DEF Stretch
<1>5. First({y.start : y \in W}) = x.start
  BY <1>1, <1>3 DEF First, Stretch
<1>6. Latest({y.end : y \in W}) = z.end
  BY <1>1, <1>4 DEF Latest, Stretch
<1> QED BY <1>1, <1>2, <1>3, <1>4, <1>5, <1>6 DEF Stretch


\* What is for sale is what of her hours nobody works in.
LEMMA GapsAreLeft ==
  ASSUME PInv, NEW p \in Provider
  PROVE  LET B == UNION {busySpans(table, a) : a \in {x \in Appt : table[x] # NoRow /\ table[x].provider = p}}
         IN  /\ gaps(table, p, TRUE) \in SUBSET Stretch
             /\ Proper(gaps(table, p, TRUE))
             /\ \A t \in Int : Under(t, gaps(table, p, TRUE)) <=> Under(t, Windows[p]) /\ ~Under(t, B)
<1> DEFINE hers == {x \in Appt : table[x] # NoRow /\ table[x].provider = p}
           f == [a \in hers |-> busySpans(table, a)]
           B == UNION {busySpans(table, a) : a \in hers}
<1>1. gaps(table, p, TRUE) = Day!subtractSpans(Windows[p], B)
  BY DEF gaps
<1>2. B \in SUBSET Stretch
  BY WorkIsStretches
<1>3. IsFiniteSet(B)
  <2>1. IsFiniteSet(hers)
    BY ColumnAssumption, FS_Subset
  <2>2. IsFiniteSet({f[a] : a \in hers})
    <3> HIDE DEF f, hers
    <3> QED BY <2>1, ImagesAreFinite
  <2>3. {busySpans(table, a) : a \in hers} = {f[a] : a \in hers}
    OBVIOUS
  <2>4. \A T \in {busySpans(table, a) : a \in hers} : IsFiniteSet(T)
    BY WorkIsStretches
  <2> QED BY <2>2, <2>3, <2>4, FS_UNION
<1>4. Windows[p] \in SUBSET Stretch /\ IsFiniteSet(Windows[p])
  BY ColumnAssumption DEF Stretch
<1> HIDE DEF B
<1>5. /\ Day!subtractSpans(Windows[p], B) \in SUBSET Stretch
      /\ Proper(Day!subtractSpans(Windows[p], B))
      /\ \A t \in Int : Under(t, Day!subtractSpans(Windows[p], B)) <=> Under(t, Windows[p]) /\ ~Under(t, B)
  BY <1>2, <1>3, <1>4, WhatIsLeft
<1> QED BY <1>1, <1>5 DEF B

\* The three promises of a page, one lemma each.
LEMMA EveryMomentIsDrawn ==
  ASSUME PInv, NEW p \in Provider, NEW w \in Windows[p], NEW t \in w.start .. w.end - 1
  PROVE  \/ \E g \in gaps(table, p, TRUE) : g.start <= t /\ t < g.end
         \/ \E a \in coming(table, p) : extent(table, a).start <= t /\ t < extent(table, a).end
         \/ BufferOfAnotherDay(p, t)
<1> DEFINE hers == {x \in Appt : table[x] # NoRow /\ table[x].provider = p}
           B == UNION {busySpans(table, a) : a \in hers}
<1>1. w \in Stretch /\ t \in Int /\ In(t, w) /\ Under(t, Windows[p])
  <2>1. Windows[p] \in SUBSET Stretch
    BY ColumnAssumption DEF Stretch
  <2>2. w \in Stretch /\ w.start \in Int /\ w.end \in Int
    BY <2>1 DEF Stretch
  <2> QED BY <2>2 DEF In, Under
<1>2. \A u \in Int : Under(u, gaps(table, p, TRUE)) <=> Under(u, Windows[p]) /\ ~Under(u, B)
  BY GapsAreLeft
<1>3. CASE Under(t, gaps(table, p, TRUE))
  BY <1>3 DEF Under, In
<1>4. CASE ~Under(t, gaps(table, p, TRUE))
  <2>1. PICK a \in hers : \E s \in busySpans(table, a) : In(t, s)
    BY <1>1, <1>2, <1>4 DEF Under
  <2>2. PICK s \in busySpans(table, a) : In(t, s)
    BY <2>1
  <2>3. a \in Live(table)
    BY <2>2 DEF busySpans
  <2> DEFINE r == table[a]
  <2>4. r \in Row /\ r.startAt < r.endAt /\ r.startAt \in Int /\ r.endAt \in Int /\ r.provider = p
    BY <2>1, <2>3, HoldersAreRows DEF Row
  <2>5. CASE belongsHere(r, p)
    <3>1. a \in coming(table, p)
      BY <2>1, <2>2, <2>3, <2>5 DEF coming, listed
    <3>2. extent(table, a) \in Stretch /\ s \in Stretch
          /\ extent(table, a).start <= s.start /\ s.end <= extent(table, a).end
      BY <2>2, <2>3, ExtentCovers, WorkIsStretches
    <3>3. extent(table, a).start <= t /\ t < extent(table, a).end
      BY <1>1, <2>2, <3>2 DEF In, Stretch
    <3> QED BY <3>1, <3>3
  <2>6. CASE ~belongsHere(r, p)
    <3>1. ~overlaps(Span(r.startAt, r.endAt), Today) /\ ~overlaps(Span(r.startAt, r.endAt), w)
      BY <2>6 DEF belongsHere
    <3>2. Today.start \in Int /\ Today.end \in Int /\ Today.start < Today.end
      BY ColumnAssumption
    <3> HIDE DEF r
    <3>3. r.endAt <= Today.start \/ Today.end <= r.startAt
      BY <2>4, <3>1, <3>2 DEF overlaps, Span
    <3>4. ~(r.startAt <= t /\ t < r.endAt)
      BY <1>1, <2>4, <3>1 DEF overlaps, Span, In, Stretch
    <3> QED BY <2>2, <2>3, <2>4, <3>3, <3>4 DEF BufferOfAnotherDay, In, r
  <2> QED BY <2>5, <2>6
<1> QED BY <1>3, <1>4

LEMMA WorkEndsARun ==
  ASSUME PInv, NEW p \in Provider, NEW g \in gaps(table, p, TRUE), NEW f \in owner(table, p, g)
  PROVE  g.end <= f.backAt
<1> DEFINE hers == {x \in Appt : table[x] # NoRow /\ table[x].provider = p}
           B == UNION {busySpans(table, a) : a \in hers}
           a == f.owner
           W == busySpans(table, a)
           later == {x \in W : x.start > g.start}
           at == [x \in later |-> x.start]
<1>1. /\ \A u \in Int : Under(u, gaps(table, p, TRUE)) => ~Under(u, B)
      /\ g \in Stretch /\ g.start < g.end
  BY GapsAreLeft DEF Proper
<1>2. /\ a \in listed(table, p)
      /\ f.backAt = First({s.start : s \in later})
      /\ \E t \in W : g.start < t.start
  <2>1. PICK c \in listed(table, p) :
          /\ \E s, t \in busySpans(table, c) : s.end <= g.start /\ g.start < t.start
          /\ f = [owner |-> c,
                  backAt |-> First({s.start : s \in {x \in busySpans(table, c) : x.start > g.start}})]
    BY DEF owner, processingGapContaining
  <2>2. c = a
    BY <2>1
  <2> QED BY <2>1, <2>2
<1>3. W \in SUBSET Stretch /\ IsFiniteSet(W) /\ Proper(W)
  BY WorkIsStretches
<1>4. W \subseteq B
  BY <1>2 DEF listed
<1> HIDE DEF a, W, B
<1>5. later # {} /\ IsFiniteSet(later) /\ later \subseteq W
  <2>1. \A t \in W : g.start < t.start => t.start > g.start
    BY <1>1, <1>3 DEF Stretch
  <2> QED BY <1>2, <1>3, <2>1, FS_Subset
<1>6. PICK x \in later : \A y \in later : x.start <= y.start
  <2>1. at \in [later -> Int]
    BY <1>3 DEF Stretch
  <2>2. \E x \in later : \A y \in later : at[x] <= at[y]
    <3> HIDE DEF at, later
    <3> QED BY <1>5, <2>1, LeastByIsThere
  <2> QED BY <2>2
<1>7. x \in W /\ x \in Stretch /\ x.start < x.end /\ g.start < x.start /\ x.start \in Int
  BY <1>1, <1>3 DEF Proper, Stretch
<1>8. f.backAt = x.start
  BY <1>2, <1>3, <1>6 DEF First, Stretch
<1>9. Under(x.start, B)
  BY <1>4, <1>7 DEF Under, In, Stretch
<1>10. ~(x.start < g.end)
  <2>1. x.start < g.end => In(x.start, g)
    BY <1>1, <1>7 DEF In, Stretch
  <2>2. ~Under(x.start, gaps(table, p, TRUE))
    BY <1>1, <1>7, <1>9
  <2> QED BY <2>1, <2>2 DEF Under
<1> QED BY <1>1, <1>7, <1>8, <1>10 DEF Stretch

LEMMA TogetherIsSaid ==
  ASSUME PInv, NEW p, NEW a \in coming(table, p), NEW b \in coming(table, p), a # b,
         NEW s \in busySpans(table, a), NEW t \in busySpans(table, b), rangesMeet(s, t)
  PROVE  b \in concurrent(table, p, a)
<1>1. a \in Live(table) /\ b \in Live(table)
  BY DEF coming
<1>2. /\ s \in Stretch /\ t \in Stretch
      /\ extent(table, a) \in Stretch /\ extent(table, b) \in Stretch
      /\ extent(table, a).start <= s.start /\ s.end <= extent(table, a).end
      /\ extent(table, b).start <= t.start /\ t.end <= extent(table, b).end
  BY <1>1, WorkIsStretches, ExtentCovers
<1>3. s.start < t.end /\ t.start < s.end
  BY DEF rangesMeet, overlaps
<1>4. overlaps(extent(table, a), extent(table, b))
  BY <1>2, <1>3 DEF overlaps, Stretch
<1> QED BY <1>4 DEF concurrent

\* A page of a stylist's day has no hole in it: whatever the book holds and
\* however long its visits, their parts and buffers are, every moment of her
\* hours is a free run or lies under a chip (or is the buffer of another day's
\* visit), no run in a processing time outlasts it, and whoever is worked on
\* at once with somebody is named beside her (loadColumn, subtractSpans).
THEOREM NothingLeftOut == ColumnSpec => []NothingIsLeftOut
<1>1. PInv => NothingIsLeftOut
  <2> SUFFICES ASSUME PInv, OfAStylist PROVE NothingIsLeftOut
    BY DEF NothingIsLeftOut
  <2> DEFINE p == page.provider
  <2>1. p \in Provider
    BY DEF PInv
  <2>2. \A g \in gaps(table, p, page.onRoster) : page.onRoster /\ g \in gaps(table, p, TRUE)
    BY DEF gaps
  <2> QED
    BY <2>1, <2>2, EveryMomentIsDrawn, WorkEndsARun, TogetherIsSaid DEF NothingIsLeftOut
<1> QED BY <1>1, PageStays, PTL DEF ColumnSpec
=============================================================================
