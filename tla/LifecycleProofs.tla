--------------------------- MODULE LifecycleProofs --------------------------
(***************************************************************************)
(* Proofs about Lifecycle for any number of sessions, any visit and any    *)
(* length of log: type correctness, that the event log explains the status *)
(* (LogExplainsStatus), and that the actual timestamps are measurements    *)
(* the log stands behind (StampsAreMeasurements).                          *)
(***************************************************************************)
EXTENDS Lifecycle, TLAPS, SequenceTheorems, FiniteSetTheorems

-----------------------------------------------------------------------------
(* What the table allows, as far as the proofs need it.                    *)

LEMMA TableSound ==
  ASSUME NEW c \in TRANSITIONS
  PROVE /\ c.from \subseteq AppointmentStatus
        /\ c.to \in AppointmentStatus
        /\ "completed" \in c.from => c.to = "no_show"
BY DEF TRANSITIONS, Clause, AppointmentStatus, NotYetArrived, SlotFreeing

LEMMA TransitionTypes ==
  ASSUME NEW from, NEW to, NEW ctx, canTransition(from, to, ctx)
  PROVE /\ from \in AppointmentStatus
        /\ to \in AppointmentStatus
        /\ from = "completed" => to = "no_show"
BY TableSound DEF canTransition

-----------------------------------------------------------------------------
(* The pieces of a step.                                                   *)

LEMMA RowType ==
  ASSUME NEW r \in Row, NEW from \in AppointmentStatus, NEW to \in AppointmentStatus,
         NEW at \in Nat, NEW correction \in BOOLEAN, NEW measured \in BOOLEAN
  PROVE /\ [timestampsFor(r, from, to, at, correction, measured) EXCEPT !.status = to] \in Row
        /\ [ClearStamp(r, from) EXCEPT !.status = to] \in Row
<1>1. NoTime \in Instant /\ at \in Instant
  BY DEF Instant
<1>2. timestampsFor(r, from, to, at, correction, measured) \in Row
  BY <1>1 DEF timestampsFor, Row
<1>3. ClearStamp(r, from) \in Row
  BY <1>1 DEF ClearStamp, Row
<1> QED
  BY <1>2, <1>3 DEF Row

LEMMA AppendType ==
  ASSUME TypeOK, NEW p \in Pending, NEW correction \in BOOLEAN
  PROVE /\ AppendEvent(p, correction) \in Seq(Event)
        /\ Len(AppendEvent(p, correction)) = Len(log) + 1
        /\ \A i \in DOMAIN log : AppendEvent(p, correction)[i] = log[i]
        /\ AppendEvent(p, correction)[Len(log) + 1] =
             [from |-> p.from, to |-> p.to, at |-> p.at, actor |-> p.actor,
              correction |-> correction, undid |-> p.undid, notify |-> p.notify]
<1> DEFINE e == [from |-> p.from, to |-> p.to, at |-> p.at, actor |-> p.actor,
                 correction |-> correction, undid |-> p.undid, notify |-> p.notify]
<1>1. e \in Event
  BY DEF Event, Pending
<1>2. log \in Seq(Event)
  BY DEF TypeOK
<1> HIDE DEF e
<1>3. /\ Append(log, e) \in Seq(Event)
      /\ Len(Append(log, e)) = Len(log) + 1
      /\ \A i \in 1..Len(log) : Append(log, e)[i] = log[i]
      /\ Append(log, e)[Len(log) + 1] = e
  BY <1>1, <1>2, AppendProperties
<1> QED
  BY <1>2, <1>3 DEF AppendEvent, e

LEMMA NoticesType ==
  ASSUME NEW p, NEW i \in Nat
  PROVE NoticesFor(p, i) \in SUBSET Notice
BY DEF NoticesFor, NoticeKey, Notice

(* What a request has decided by the time it is pending.                  *)

LEMMA ReadMoveDecides ==
  ASSUME TypeOK, NEW s \in Session, NEW actor \in Actor, NEW at \in Clocks,
         NEW reason \in BOOLEAN, NEW button,
         ReadMove(s, actor, at, reason, button)
  PROVE \E p \in Pending :
          (LogIsWellFormed => Decided(p)) /\ req' = [req EXCEPT ![s] = p]
<1> DEFINE to == Asked(button, Context(actor, at, reason))
<1>1. canTransition(row.status, to, Context(actor, at, reason))
  BY DEF ReadMove
<1>2. PICK notify \in NotifyChoices(actor, row.status, to) :
        req' = [req EXCEPT ![s] = MoveRequest(actor, at, to, notify)]
  BY DEF ReadMove
<1>3. /\ row.status \in AppointmentStatus
      /\ to \in AppointmentStatus
      /\ row.status = "completed" => to = "no_show"
  BY <1>1, TransitionTypes
<1>4. at \in Nat /\ notify \in Notify
  BY DEF Clocks, NotifyChoices, Notify, TypeOK
<1> HIDE DEF to
<1>5. MoveRequest(actor, at, to, notify) \in Pending
  BY <1>3, <1>4 DEF Pending, MoveRequest
<1>6. Decided(MoveRequest(actor, at, to, notify))
  BY <1>3 DEF Decided, MoveRequest
<1> QED
  BY <1>2, <1>5, <1>6

LEMMA ReadUndoDecides ==
  ASSUME TypeOK, NEW s \in Session, NEW at \in Clocks, ReadUndo(s, at)
  PROVE \E p \in Pending :
          (LogIsWellFormed => Decided(p)) /\ req' = [req EXCEPT ![s] = p]
<1>1. /\ lastStatusMove.to = row.status
      /\ row.status \in UNDOABLE
      /\ row.status \in AppointmentStatus
  BY DEF ReadUndo, canUndo, TypeOK, Row
<1>2. log # <<>>
  BY <1>1 DEF lastStatusMove, NoMove, UNDOABLE
<1>3. Len(log) \in DOMAIN log /\ Len(log) \in Nat /\ log[Len(log)] \in Event
  BY <1>2 DEF TypeOK
<1>4. lastStatusMove = log[Len(log)] /\ lastStatusMove.from \in AppointmentStatus
  BY <1>2, <1>3 DEF lastStatusMove, Event
<1>5. at \in Nat
  BY DEF Clocks, TypeOK
<1>6. UndoRequest(at) \in Pending
  BY <1>1, <1>3, <1>4, <1>5 DEF Pending, UndoRequest, Actor, Notify
<1>7. LogIsWellFormed => Decided(UndoRequest(at))
  <2>1. ~log[Len(log)].correction
    BY <1>4 DEF ReadUndo, canUndo
  <2>2. LogIsWellFormed => log[Len(log)].from \notin Terminal
    BY <1>3, <2>1 DEF LogIsWellFormed
  <2> QED
    BY <1>1, <1>3, <1>4, <2>2 DEF Decided, UndoRequest
<1> QED
  BY <1>6, <1>7 DEF ReadUndo

LEMMA ReadDecides ==
  ASSUME TypeOK, NEW s \in Session, Read(s)
  PROVE \E p \in Pending :
          (LogIsWellFormed => Decided(p)) /\ req' = [req EXCEPT ![s] = p]
BY ReadMoveDecides, ReadUndoDecides DEF Read

-----------------------------------------------------------------------------
(* Type correctness.                                                       *)

\* At every state of every behaviour the row, the log, the outbox keys and
\* the requests in flight are of the types the schema gives them.
THEOREM TypeCorrect == Spec => []TypeOK
<1>1. Init => TypeOK
  BY DEF Init, TypeOK, Row, Instant, AppointmentStatus, Event
<1>2. TypeOK /\ [Next]_vars => TypeOK'
  <2> SUFFICES ASSUME TypeOK, [Next]_vars PROVE TypeOK'
    OBVIOUS
  <2>1. ASSUME NEW s \in Session, Read(s) PROVE TypeOK'
    <3>1. PICK p \in Pending : req' = [req EXCEPT ![s] = p]
      BY <2>1, ReadDecides
    <3> QED
      BY <2>1, <3>1 DEF TypeOK, Read
  <2>2. ASSUME NEW s \in Session, WriteMove(s) PROVE TypeOK'
    <3>1. req[s] \in Pending
      BY <2>2 DEF WriteMove, TypeOK, Idle
    <3>2. isCorrection(req[s].from) \in BOOLEAN
      BY DEF isCorrection
    <3>3. isVisitMeasurable(Context(req[s].actor, req[s].at, FALSE)) \in BOOLEAN
      BY DEF isVisitMeasurable
    <3>4. row' \in Row
      BY <2>2, <3>1, <3>2, <3>3, RowType DEF WriteMove, TypeOK, Pending
    <3>5. log' \in Seq(Event)
      BY <2>2, <3>1, <3>2, AppendType DEF WriteMove
    <3>6. notices' \in SUBSET Notice
      <4>1. Len(log) + 1 \in Nat
        BY DEF TypeOK
      <4> QED
        BY <2>2, <4>1, NoticesType DEF WriteMove, TypeOK
    <3>7. req' \in [Session -> Pending \cup {Idle}] /\ now' \in Nat
      BY <2>2 DEF WriteMove, TypeOK
    <3> QED
      BY <3>4, <3>5, <3>6, <3>7 DEF TypeOK
  <2>3. ASSUME NEW s \in Session, WriteUndo(s) PROVE TypeOK'
    <3>1. req[s] \in Pending
      BY <2>3 DEF WriteUndo, TypeOK, Idle
    <3>2. row' \in Row
      BY <2>3, <3>1, RowType DEF WriteUndo, TypeOK, Pending
    <3>3. log' \in Seq(Event)
      BY <2>3, <3>1, AppendType DEF WriteUndo
    <3>4. /\ notices' \in SUBSET Notice
          /\ req' \in [Session -> Pending \cup {Idle}]
          /\ now' \in Nat
      BY <2>3 DEF WriteUndo, TypeOK
    <3> QED
      BY <3>2, <3>3, <3>4 DEF TypeOK
  <2>4. ASSUME NEW s \in Session, MovedFirst(s) \/ RolledBack(s) PROVE TypeOK'
    BY <2>4 DEF MovedFirst, RolledBack, TypeOK
  <2>5. CASE Tick
    BY <2>5 DEF Tick, TypeOK
  <2>6. CASE UNCHANGED vars
    BY <2>6 DEF vars, TypeOK
  <2> QED
    BY <2>1, <2>2, <2>3, <2>4, <2>5, <2>6 DEF Next
<1> QED
  BY <1>1, <1>2, PTL DEF Spec

-----------------------------------------------------------------------------
(* The log explains the status, and the timestamps are measurements.       *)

\* Which column a move writes, and what with.
LEMMA MoveStamps ==
  ASSUME NEW r \in Row, NEW from, NEW to \in AppointmentStatus, NEW at \in Nat,
         NEW correction \in BOOLEAN, NEW measured \in BOOLEAN
  PROVE LET w == timestampsFor(r, from, to, at, correction, measured)
        IN /\ w \in Row
           /\ to = "no_show" =>
                w.checkedInAt = NoTime /\ w.startedAt = NoTime /\ w.endedAt = NoTime
           /\ w.checkedInAt \in {NoTime, r.checkedInAt} \/
                (w.checkedInAt = at /\ to = "checked_in" /\ ~correction /\ measured)
           /\ w.startedAt \in {NoTime, r.startedAt} \/
                (w.startedAt = at /\ to = "in_progress" /\ ~correction /\ measured)
           /\ w.endedAt \in {NoTime, r.endedAt} \/
                (/\ w.endedAt = at /\ to = "completed" /\ ~correction /\ measured
                 /\ from \in {"checked_in", "in_progress"})
<1>1. NoTime \in Instant /\ at \in Instant
  BY DEF Instant
<1> QED
  BY <1>1 DEF timestampsFor, Row

\* Which column an undo clears.
LEMMA UndoStamps ==
  ASSUME NEW r \in Row, NEW from \in UNDOABLE
  PROVE LET w == ClearStamp(r, from)
        IN /\ w \in Row
           /\ w.checkedInAt = IF from = "checked_in" THEN NoTime ELSE r.checkedInAt
           /\ w.startedAt = IF from = "in_progress" THEN NoTime ELSE r.startedAt
           /\ w.endedAt = IF from = "completed" THEN NoTime ELSE r.endedAt
<1>1. NoTime \in Instant
  BY DEF Instant
<1> QED
  BY <1>1 DEF ClearStamp, Row, UNDOABLE

\* Setting the status leaves the timestamps alone.
LEMMA StatusSet ==
  ASSUME NEW w \in Row, NEW to, NEW v, v = [w EXCEPT !.status = to]
  PROVE /\ v.status = to
        /\ v.checkedInAt = w.checkedInAt
        /\ v.startedAt = w.startedAt
        /\ v.endedAt = w.endedAt
BY DEF Row

\* What both writes do to the log: one event more, leaving from the status on
\* the row, arriving at the status written.
Grows(p, correction) ==
  /\ log' \in Seq(Event)
  /\ Len(log') = Len(log) + 1
  /\ \A i \in DOMAIN log : log'[i] = log[i]
  /\ log'[Len(log) + 1] =
       [from |-> p.from, to |-> p.to, at |-> p.at, actor |-> p.actor,
        correction |-> correction, undid |-> p.undid, notify |-> p.notify]
  /\ p.from = row.status
  /\ row'.status = p.to

LEMMA LogStillExplains ==
  ASSUME TypeOK, LogExplainsStatus, NEW p, NEW correction, Grows(p, correction)
  PROVE LogExplainsStatus'
<1>1. Len(log) \in Nat /\ DOMAIN log = 1..Len(log) /\ (Len(log) = 0 <=> log = <<>>)
  BY DEF TypeOK
<1>2. Len(log') \in Nat /\ log' # <<>> /\ DOMAIN log' = 1..(Len(log) + 1)
  BY <1>1 DEF Grows
<1>3. log'[1].from = "booked"
  BY <1>1 DEF Grows, LogExplainsStatus
<1>4. log'[Len(log')].to = row'.status
  BY DEF Grows
<1>5. ASSUME NEW i \in 1..(Len(log') - 1) PROVE log'[i + 1].from = log'[i].to
  <2>1. CASE i = Len(log)
    BY <1>1, <2>1 DEF Grows, LogExplainsStatus
  <2>2. CASE i # Len(log)
    <3>0. Len(log') - 1 = Len(log)
      BY <1>1 DEF Grows
    <3>1. i \in 1..(Len(log) - 1)
      <4> DEFINE n == Len(log)
      <4>1. n \in Nat /\ i \in 1..n /\ i # n
        BY <1>1, <1>5, <2>2, <3>0
      <4> HIDE DEF n
      <4>2. i \in 1..(n - 1)
        BY <4>1
      <4> QED
        BY <4>2 DEF n
    <3>2. i \in DOMAIN log /\ i + 1 \in DOMAIN log
      BY <1>1, <3>1
    <3> QED
      BY <3>1, <3>2 DEF Grows, LogExplainsStatus
  <2> QED
    BY <2>1, <2>2
<1> QED
  BY <1>2, <1>3, <1>4, <1>5 DEF LogExplainsStatus

LEMMA LogStillWellFormed ==
  ASSUME TypeOK, LogIsWellFormed, NEW p, NEW correction, Grows(p, correction),
         p.undid \in Nat, p.undid <= Len(log),
         p.from \in Terminal => correction
  PROVE LogIsWellFormed'
<1>1. Len(log) \in Nat /\ DOMAIN log = 1..Len(log) /\ DOMAIN log' = 1..(Len(log) + 1)
  BY DEF TypeOK, Grows
<1>2. ASSUME NEW i \in DOMAIN log'
      PROVE log'[i].undid < i /\ (log'[i].from \in Terminal => log'[i].correction)
  <2>1. CASE i \in DOMAIN log
    BY <2>1 DEF Grows, LogIsWellFormed
  <2>2. CASE i = Len(log) + 1
    BY <1>1, <2>2 DEF Grows
  <2> QED
    BY <1>1, <2>1, <2>2
<1> QED
  BY <1>2 DEF LogIsWellFormed

\* A tap keeps standing unless the new event undoes it.
LEMMA TapsKeepStanding ==
  ASSUME TypeOK, NEW p, NEW correction, Grows(p, correction),
         NEW i \in DOMAIN log, i # p.undid, NEW status, NEW t, StandingTap(i, status, t)
  PROVE /\ i \in DOMAIN log'
        /\ StandingTap(i, status, t)'
        /\ log'[i] = log[i]
<1>1. Len(log) \in Nat /\ DOMAIN log = 1..Len(log) /\ DOMAIN log' = 1..(Len(log) + 1)
  BY DEF TypeOK, Grows
<1>2. log'[i] = log[i] /\ i \in DOMAIN log'
  BY <1>1 DEF Grows
<1>3. \A j \in DOMAIN log' : log'[j].undid # i
  <2> TAKE j \in DOMAIN log'
  <2>1. CASE j \in DOMAIN log
    BY <2>1 DEF Grows, StandingTap, Undone
  <2>2. CASE j = Len(log) + 1
    BY <2>2 DEF Grows
  <2> QED
    BY <1>1, <2>1, <2>2
<1> QED
  BY <1>2, <1>3 DEF StandingTap, Undone

\* The tap the new event is stands.
LEMMA NewTapStands ==
  ASSUME TypeOK, LogIsWellFormed, NEW p, NEW correction \in BOOLEAN, Grows(p, correction),
         ~correction, p.undid = 0, p.at <= EndAt + Grace
  PROVE \E n \in DOMAIN log' :
          StandingTap(n, p.to, p.at)' /\ log'[n].from = p.from
<1>1. Len(log) \in Nat /\ DOMAIN log = 1..Len(log) /\ DOMAIN log' = 1..(Len(log) + 1)
  BY DEF TypeOK, Grows
<1>2. PICK n : n = Len(log) + 1
  OBVIOUS
<1>3. \A j \in DOMAIN log' : log'[j].undid # n
  <2> TAKE j \in DOMAIN log'
  <2>1. CASE j \in DOMAIN log
    <3>1. log[j] \in Event
      BY <2>1 DEF TypeOK
    <3>2. log[j].undid \in Nat
      BY <3>1 DEF Event
    <3> QED
      BY <1>1, <1>2, <2>1, <3>2 DEF Grows, LogIsWellFormed
  <2>2. CASE j = n
    BY <1>1, <1>2, <2>2 DEF Grows
  <2> QED
    BY <1>1, <1>2, <2>1, <2>2
<1>4. /\ n \in DOMAIN log'
      /\ log'[n].from = p.from /\ log'[n].to = p.to /\ log'[n].at = p.at
      /\ ~log'[n].correction
  BY <1>1, <1>2 DEF Grows
<1>5. StandingTap(n, p.to, p.at)'
  BY <1>3, <1>4 DEF StandingTap, Undone
<1> QED
  BY <1>4, <1>5

\* A request in flight stays decided while the log grows under it.
LEMMA DecisionsSurvive ==
  ASSUME TypeOK, RequestsAreDecided, NEW s \in Session, NEW p, NEW correction,
         Grows(p, correction), req' = [req EXCEPT ![s] = Idle]
  PROVE RequestsAreDecided'
<1>1. Len(log) \in Nat /\ DOMAIN log = 1..Len(log) /\ DOMAIN log' = 1..(Len(log) + 1)
  BY DEF TypeOK, Grows
<1>2. ASSUME NEW t \in Session PROVE Decided(req[t])'
  <2>1. CASE t = s
    BY <2>1 DEF TypeOK, Decided, Idle
  <2>2. CASE t # s
    <3>1. req'[t] = req[t] /\ Decided(req[t])
      BY <2>2 DEF TypeOK, RequestsAreDecided
    <3> QED
      BY <1>1, <3>1 DEF Decided, Grows
  <2> QED
    BY <2>1, <2>2
<1> QED
  BY <1>2 DEF RequestsAreDecided

LEMMA WriteMoveGrows ==
  ASSUME TypeOK, NEW s \in Session, WriteMove(s)
  PROVE /\ req[s] \in Pending
        /\ isCorrection(req[s].from) \in BOOLEAN
        /\ Grows(req[s], isCorrection(req[s].from))
<1>1. req[s] \in Pending
  BY DEF WriteMove, TypeOK, Idle
<1>2. isCorrection(req[s].from) \in BOOLEAN
  BY DEF isCorrection
<1>3. isVisitMeasurable(Context(req[s].actor, req[s].at, FALSE)) \in BOOLEAN
  BY DEF isVisitMeasurable
<1>4. row' = [timestampsFor(row, req[s].from, req[s].to, req[s].at,
                isCorrection(req[s].from),
                isVisitMeasurable(Context(req[s].actor, req[s].at, FALSE)))
                EXCEPT !.status = req[s].to]
  BY DEF WriteMove
<1>5. row'.status = req[s].to
  <2> DEFINE w == timestampsFor(row, req[s].from, req[s].to, req[s].at,
                isCorrection(req[s].from),
                isVisitMeasurable(Context(req[s].actor, req[s].at, FALSE)))
  <2>1. w \in Row
    BY <1>1, <1>2, <1>3, MoveStamps DEF TypeOK, Pending
  <2>2. row' = [w EXCEPT !.status = req[s].to]
    BY <1>4
  <2> HIDE DEF w
  <2> QED
    BY <2>1, <2>2, StatusSet
<1>6. log' = AppendEvent(req[s], isCorrection(req[s].from))
  BY DEF WriteMove
<1> QED
  BY <1>1, <1>2, <1>5, <1>6, AppendType DEF Grows, WriteMove, StatusUnmoved

LEMMA WriteUndoGrows ==
  ASSUME TypeOK, RequestsAreDecided, NEW s \in Session, WriteUndo(s)
  PROVE /\ req[s] \in Pending
        /\ req[s].from \in UNDOABLE
        /\ \E c \in BOOLEAN : c = TRUE /\ Grows(req[s], c)
<1>1. req[s] \in Pending /\ req[s].from \in UNDOABLE
  BY DEF WriteUndo, TypeOK, Idle, RequestsAreDecided, Decided
<1>2. row' = [ClearStamp(row, req[s].from) EXCEPT !.status = req[s].to]
  BY DEF WriteUndo
<1>3. row'.status = req[s].to
  <2> DEFINE w == ClearStamp(row, req[s].from)
  <2>1. w \in Row
    BY <1>1, UndoStamps DEF TypeOK
  <2>2. row' = [w EXCEPT !.status = req[s].to]
    BY <1>2
  <2> HIDE DEF w
  <2> QED
    BY <2>1, <2>2, StatusSet
<1>4. PICK c \in BOOLEAN : c = TRUE /\ log' = AppendEvent(req[s], c)
  BY DEF WriteUndo
<1>a. log' = AppendEvent(req[s], c)
  BY <1>4
<1>b. row.status = req[s].from
  BY DEF WriteUndo, StatusUnmoved
<1>5. Grows(req[s], c)
  BY <1>1, <1>3, <1>a, <1>b, AppendType DEF Grows
<1> QED
  BY <1>1, <1>4, <1>5

LEMMA MoveKeepsStamps ==
  ASSUME Inv, NEW s \in Session, WriteMove(s)
  PROVE StampsAreMeasurements'
<1>0. PICK p : p = req[s]
  OBVIOUS
<1> DEFINE c == isCorrection(p.from)
           m == isVisitMeasurable(Context(p.actor, p.at, FALSE))
<1>1. p \in Pending /\ c \in BOOLEAN /\ Grows(p, c)
  BY <1>0, WriteMoveGrows DEF Inv
<1>2. m \in BOOLEAN /\ (m => p.at <= EndAt + Grace)
  BY <1>1, WindowsAssumption, VisitAssumption DEF isVisitMeasurable, Context, Pending
<1>3. p.kind = "move" /\ p.undid = 0 /\ (p.from = "completed" => p.to = "no_show")
  BY <1>0 DEF WriteMove, Inv, RequestsAreDecided, Decided
<1> DEFINE w == timestampsFor(row, p.from, p.to, p.at, c, m)
<1>4. row' = [w EXCEPT !.status = p.to]
  BY <1>0 DEF WriteMove
<1>5. TypeOK /\ LogIsWellFormed /\ StampsAreMeasurements /\ row \in Row
  BY DEF Inv, TypeOK
<1>6. p.to \in AppointmentStatus /\ p.at \in Nat
  BY <1>1 DEF Pending
<1>7. \A i \in DOMAIN log : i # p.undid
  BY <1>3, <1>5 DEF TypeOK
<1>8. p.from = row.status
  BY <1>1 DEF Grows
<1> HIDE DEF c, m
<1>9. /\ w \in Row
      /\ p.to = "no_show" =>
           w.checkedInAt = NoTime /\ w.startedAt = NoTime /\ w.endedAt = NoTime
      /\ w.checkedInAt \in {NoTime, row.checkedInAt} \/
           (w.checkedInAt = p.at /\ p.to = "checked_in" /\ ~c /\ m)
      /\ w.startedAt \in {NoTime, row.startedAt} \/
           (w.startedAt = p.at /\ p.to = "in_progress" /\ ~c /\ m)
      /\ w.endedAt \in {NoTime, row.endedAt} \/
           (/\ w.endedAt = p.at /\ p.to = "completed" /\ ~c /\ m
            /\ p.from \in {"checked_in", "in_progress"})
  BY <1>1, <1>2, <1>5, <1>6, MoveStamps
<1> HIDE DEF w
<1>10. /\ row'.status = p.to
       /\ row'.checkedInAt = w.checkedInAt
       /\ row'.startedAt = w.startedAt
       /\ row'.endedAt = w.endedAt
  BY <1>4, <1>9, StatusSet
<1>11. \A i \in DOMAIN log : \A status, t :
         StandingTap(i, status, t) =>
           /\ i \in DOMAIN log'
           /\ StandingTap(i, status, t)'
           /\ log'[i] = log[i]
  BY <1>1, <1>5, <1>7, TapsKeepStanding
<1>12. ASSUME ~c, m
       PROVE \E n \in DOMAIN log' :
               StandingTap(n, p.to, p.at)' /\ log'[n].from = p.from
  <2>1. p.at <= EndAt + Grace /\ p.undid = 0 /\ Grows(p, c)
    BY <1>1, <1>2, <1>3, <1>12
  <2>2. c \in BOOLEAN
    BY <1>1
  <2> QED
    BY <2>2, <1>5, <1>12, <2>1, NewTapStands
<1>13. ASSUME row'.checkedInAt # NoTime
       PROVE \E i \in DOMAIN log' : StandingTap(i, "checked_in", row.checkedInAt)'
  <2>1. CASE row'.checkedInAt = row.checkedInAt
    BY <1>5, <1>11, <1>13, <2>1 DEF StampsAreMeasurements
  <2>2. CASE /\ row'.checkedInAt = p.at /\ ~c /\ m
             /\ p.to = "checked_in"
    BY <1>12, <2>2 DEF StandingTap, Undone
  <2> QED
    BY <1>9, <1>10, <1>13, <2>1, <2>2
<1>14. ASSUME row'.startedAt # NoTime
       PROVE \E i \in DOMAIN log' : StandingTap(i, "in_progress", row.startedAt)'
  <2>1. CASE row'.startedAt = row.startedAt
    BY <1>5, <1>11, <1>14, <2>1 DEF StampsAreMeasurements
  <2>2. CASE /\ row'.startedAt = p.at /\ ~c /\ m
             /\ p.to = "in_progress"
    BY <1>12, <2>2 DEF StandingTap, Undone
  <2> QED
    BY <1>9, <1>10, <1>14, <2>1, <2>2
<1>15. ASSUME row'.endedAt # NoTime
       PROVE /\ row'.status = "completed"
             /\ \E i \in DOMAIN log' :
                  /\ StandingTap(i, "completed", row.endedAt)'
                  /\ log'[i].from \in {"checked_in", "in_progress"}
  <2>1. CASE row'.endedAt = row.endedAt
    <3>1. row.status = "completed"
      BY <1>5, <1>15, <2>1 DEF StampsAreMeasurements
    <3>2. p.to = "no_show"
      BY <1>3, <1>8, <3>1
    <3> QED
      BY <1>9, <1>10, <1>15, <3>2
  <2>2. CASE /\ row'.endedAt = p.at /\ p.to = "completed" /\ ~c /\ m
             /\ p.from \in {"checked_in", "in_progress"}
    BY <1>10, <1>12, <2>2 DEF StandingTap, Undone
  <2> QED
    BY <1>9, <1>10, <1>15, <2>1, <2>2
<1> QED
  BY <1>9, <1>10, <1>13, <1>14, <1>15 DEF StampsAreMeasurements

LEMMA UndoKeepsStamps ==
  ASSUME Inv, NEW s \in Session, WriteUndo(s)
  PROVE StampsAreMeasurements'
<1>p. PICK p : p = req[s]
  OBVIOUS
<1>1. p \in Pending /\ p.from \in UNDOABLE
  BY <1>p, WriteUndoGrows DEF Inv
<1>0. PICK c \in BOOLEAN : Grows(p, c)
  BY <1>p, WriteUndoGrows DEF Inv
<1>2. /\ p.undid \in DOMAIN log
      /\ log[p.undid].to = p.from
      /\ p.to \notin Terminal
      /\ p.from = row.status
  BY <1>p, <1>0 DEF WriteUndo, Inv, RequestsAreDecided, Decided, Grows
<1> DEFINE w == ClearStamp(row, p.from)
<1>3. row' = [w EXCEPT !.status = p.to]
  BY <1>p DEF WriteUndo
<1>4. TypeOK /\ StampsAreMeasurements /\ row \in Row
  BY DEF Inv, TypeOK
<1>w. /\ w \in Row
      /\ w.checkedInAt = IF p.from = "checked_in" THEN NoTime ELSE row.checkedInAt
      /\ w.startedAt = IF p.from = "in_progress" THEN NoTime ELSE row.startedAt
      /\ w.endedAt = IF p.from = "completed" THEN NoTime ELSE row.endedAt
  BY <1>1, <1>4, UndoStamps
<1> HIDE DEF w
<1>v. /\ row'.status = p.to
      /\ row'.checkedInAt = w.checkedInAt
      /\ row'.startedAt = w.startedAt
      /\ row'.endedAt = w.endedAt
  BY <1>3, <1>w, StatusSet
<1>5. /\ row'.status = p.to
      /\ row'.checkedInAt # NoTime =>
           p.from # "checked_in" /\ row'.checkedInAt = row.checkedInAt
      /\ row'.startedAt # NoTime =>
           p.from # "in_progress" /\ row'.startedAt = row.startedAt
      /\ row'.endedAt # NoTime =>
           p.from # "completed" /\ row'.endedAt = row.endedAt
  BY <1>w, <1>v
<1>6. \A i \in DOMAIN log : \A status, t :
        StandingTap(i, status, t) /\ status # p.from =>
          /\ i \in DOMAIN log'
          /\ StandingTap(i, status, t)'
  <2> TAKE i \in DOMAIN log
  <2> TAKE status, t
  <2> HAVE StandingTap(i, status, t) /\ status # p.from
  <2>1. i # p.undid
    BY <1>2 DEF StandingTap
  <2> QED
    BY <1>0, <1>4, <2>1, TapsKeepStanding
<1>7. row'.endedAt = NoTime
  BY <1>2, <1>4, <1>5 DEF StampsAreMeasurements
<1>8. row'.status # "no_show"
  BY <1>2, <1>5 DEF Terminal
<1>9. ASSUME row'.checkedInAt # NoTime
      PROVE \E i \in DOMAIN log' : StandingTap(i, "checked_in", row.checkedInAt)'
  BY <1>4, <1>5, <1>6, <1>9 DEF StampsAreMeasurements
<1>10. ASSUME row'.startedAt # NoTime
       PROVE \E i \in DOMAIN log' : StandingTap(i, "in_progress", row.startedAt)'
  BY <1>4, <1>5, <1>6, <1>10 DEF StampsAreMeasurements
<1> QED
  BY <1>7, <1>8, <1>9, <1>10 DEF StampsAreMeasurements

\* No interleaving of any number of sessions makes the log and the row
\* disagree, or leaves a timestamp that no standing tap measured.
THEOREM InvIsInvariant == Spec => []Inv
<1>1. Init => Inv
  <2> SUFFICES ASSUME Init PROVE Inv
    OBVIOUS
  <2>1. TypeOK
    BY DEF Init, TypeOK, Row, Instant, AppointmentStatus, Event
  <2>2. RequestsAreDecided
    BY DEF Init, RequestsAreDecided, Decided, Idle
  <2>3. LogIsWellFormed /\ LogExplainsStatus
    BY DEF Init, LogIsWellFormed, LogExplainsStatus
  <2>4. StampsAreMeasurements
    BY DEF Init, StampsAreMeasurements
  <2> QED
    BY <2>1, <2>2, <2>3, <2>4 DEF Inv
<1>2. TypeOK' /\ Inv /\ [Next]_vars => Inv'
  <2> SUFFICES ASSUME TypeOK', Inv, [Next]_vars PROVE Inv'
    OBVIOUS
  <2>0. TypeOK /\ RequestsAreDecided /\ LogIsWellFormed /\ LogExplainsStatus
        /\ StampsAreMeasurements
    BY DEF Inv
  <2>1. ASSUME NEW s \in Session, Read(s) PROVE Inv'
    <3>1. PICK p \in Pending : Decided(p) /\ req' = [req EXCEPT ![s] = p]
      BY <2>0, <2>1, ReadDecides
    <3>2. UNCHANGED <<row, log>>
      BY <2>1 DEF Read
    <3>3. RequestsAreDecided'
      BY <2>0, <3>1, <3>2 DEF RequestsAreDecided, Decided, TypeOK
    <3>4. LogIsWellFormed' /\ LogExplainsStatus' /\ StampsAreMeasurements'
      BY <2>0, <3>2 DEF LogIsWellFormed, LogExplainsStatus, StampsAreMeasurements,
                        StandingTap, Undone
    <3> QED
      BY <3>3, <3>4 DEF Inv
  <2>2. ASSUME NEW s \in Session, WriteMove(s) PROVE Inv'
    <3>1. /\ req[s] \in Pending
          /\ isCorrection(req[s].from) \in BOOLEAN
          /\ Grows(req[s], isCorrection(req[s].from))
      BY <2>0, <2>2, WriteMoveGrows
    <3>2. RequestsAreDecided'
      BY <2>0, <2>2, <3>1, DecisionsSurvive DEF WriteMove
    <3>3. LogExplainsStatus'
      BY <2>0, <3>1, LogStillExplains
    <3>4. req[s].undid = 0 /\ 0 <= Len(log)
      BY <2>0, <2>2 DEF RequestsAreDecided, Decided, WriteMove, TypeOK
    <3>5. req[s].from \in Terminal => isCorrection(req[s].from)
      BY DEF isCorrection
    <3>7. LogIsWellFormed'
      <4>1. req[s].undid \in Nat /\ req[s].undid <= Len(log)
        BY <3>4
      <4> QED
        BY <2>0, <3>1, <3>5, <4>1, LogStillWellFormed, Zenon
    <3>6. StampsAreMeasurements'
      BY <2>2, MoveKeepsStamps
    <3> QED
      BY <3>2, <3>3, <3>6, <3>7 DEF Inv
  <2>3. ASSUME NEW s \in Session, WriteUndo(s) PROVE Inv'
    <3>1. PICK c \in BOOLEAN : c = TRUE /\ Grows(req[s], c)
      BY <2>0, <2>3, WriteUndoGrows
    <3>2. RequestsAreDecided'
      BY <2>0, <2>3, <3>1, DecisionsSurvive DEF WriteUndo
    <3>3. LogExplainsStatus'
      BY <2>0, <3>1, LogStillExplains
    <3>4. req[s].undid \in Nat /\ req[s].undid <= Len(log)
      BY <2>0, <2>3 DEF RequestsAreDecided, Decided, WriteUndo, TypeOK
    <3>5. LogIsWellFormed'
      BY <2>0, <3>1, <3>4, LogStillWellFormed
    <3>6. StampsAreMeasurements'
      BY <2>3, UndoKeepsStamps
    <3> QED
      BY <3>2, <3>3, <3>5, <3>6 DEF Inv
  <2>4. ASSUME NEW s \in Session, MovedFirst(s) \/ RolledBack(s) PROVE Inv'
    <3>1. UNCHANGED <<row, log>> /\ req' = [req EXCEPT ![s] = Idle]
      BY <2>4 DEF MovedFirst, RolledBack
    <3>2. RequestsAreDecided'
      BY <2>0, <3>1 DEF RequestsAreDecided, Decided, Idle, TypeOK
    <3>3. LogIsWellFormed' /\ LogExplainsStatus' /\ StampsAreMeasurements'
      BY <2>0, <3>1 DEF LogIsWellFormed, LogExplainsStatus, StampsAreMeasurements,
                        StandingTap, Undone
    <3> QED
      BY <3>2, <3>3 DEF Inv
  <2>5. CASE Tick \/ UNCHANGED vars
    <3>1. UNCHANGED <<row, log, req>>
      BY <2>5 DEF Tick, vars
    <3> QED
      BY <2>0, <3>1 DEF Inv, RequestsAreDecided, Decided, LogIsWellFormed,
           LogExplainsStatus, StampsAreMeasurements, StandingTap, Undone
  <2> QED
    BY <2>1, <2>2, <2>3, <2>4, <2>5 DEF Next
<1> QED
  BY <1>1, <1>2, TypeCorrect, PTL DEF Spec

\* The log explains the status, whatever the sessions do.
THEOREM LogExplains == Spec => []LogExplainsStatus
<1>1. Inv => LogExplainsStatus
  BY DEF Inv
<1> QED
  BY <1>1, InvIsInvariant, PTL

\* Every timestamp on the row is a measurement that stands in the log.
THEOREM StampsMeasure == Spec => []StampsAreMeasurements
<1>1. Inv => StampsAreMeasurements
  BY DEF Inv
<1> QED
  BY <1>1, InvIsInvariant, PTL

-----------------------------------------------------------------------------
(* What the client is told.                                                *)

\* The events the client is owed a message for.
Told == {i \in DOMAIN log : MustTell(log[i])}

\* As many keys as events that want one, each naming an event that happened.
NoticesMatch ==
  /\ IsFiniteSet(notices)
  /\ \A k \in notices : k[2] \in DOMAIN log
  /\ Cardinality(notices) = Cardinality(Told)

\* A write tells the client once or not at all, as its event wants.
LEMMA OneNotice ==
  ASSUME NEW p, NEW e, NEW i,
         e.from = p.from, e.to = p.to, e.actor = p.actor, e.notify = p.notify
  PROVE  IF MustTell(e) THEN \E kind : NoticesFor(p, i) = {<<kind, i>>}
                        ELSE NoticesFor(p, i) = {}
<1>1. CASE p.actor = "staff" /\ p.notify # "no" /\ p.to \in SlotFreeing
  <2>1. MustTell(e)
    BY <1>1 DEF MustTell
  <2>2. NoticesFor(p, i) = {<<"cancelled", i>>}
    BY <1>1 DEF NoticesFor, NoticeKey
  <2> QED
    BY <2>1, <2>2
<1>2. CASE ~(p.actor = "staff" /\ p.notify # "no" /\ p.to \in SlotFreeing)
  <2>1. CASE p.actor = "staff" /\ p.notify = "yes" /\ p.from \in SlotFreeing
    <3>1. MustTell(e)
      BY <2>1 DEF MustTell
    <3>2. p.to \notin SlotFreeing
      BY <1>2, <2>1
    <3>3. NoticesFor(p, i) = {<<"reinstated", i>>}
      BY <2>1, <3>2 DEF NoticesFor, NoticeKey
    <3> QED
      BY <3>1, <3>3
  <2>2. CASE ~(p.actor = "staff" /\ p.notify = "yes" /\ p.from \in SlotFreeing)
    <3>1. ~MustTell(e)
      BY <1>2, <2>2 DEF MustTell
    <3>2. NoticesFor(p, i) = {}
      BY <1>2, <2>2 DEF NoticesFor
    <3> QED
      BY <3>1, <3>2
  <2> QED
    BY <2>1, <2>2
<1> QED
  BY <1>1, <1>2

LEMMA ToldGrows ==
  ASSUME TypeOK, NEW p, NEW correction, Grows(p, correction)
  PROVE  /\ IsFiniteSet(Told) /\ Len(log) + 1 \notin Told
         /\ Told' = IF MustTell(log'[Len(log) + 1]) THEN Told \cup {Len(log) + 1} ELSE Told
         /\ DOMAIN log \subseteq DOMAIN log' /\ Len(log) + 1 \in DOMAIN log'
         /\ Len(log) + 1 \notin DOMAIN log
<1>1. Len(log) \in Nat /\ DOMAIN log = 1..Len(log) /\ DOMAIN log' = 1..(Len(log) + 1)
  BY DEF TypeOK, Grows
<1>2. IsFiniteSet(Told)
  <2>1. IsFiniteSet(1..Len(log)) /\ Told \in SUBSET (1..Len(log))
    BY <1>1, FS_Interval DEF Told
  <2> QED
    BY <2>1, FS_Subset
<1>3. \A i \in DOMAIN log : log'[i] = log[i]
  BY DEF Grows
<1>4. Told' = {i \in 1..(Len(log) + 1) : MustTell(log'[i])}
  BY <1>1 DEF Told, MustTell
<1>5. \A i \in 1..Len(log) : MustTell(log'[i]) <=> MustTell(log[i])
  BY <1>1, <1>3
<1>6. \A i : i \in 1..(Len(log) + 1) <=> i \in 1..Len(log) \/ i = Len(log) + 1
  BY <1>1
<1>7. Told = {i \in 1..Len(log) : MustTell(log[i])}
  BY <1>1 DEF Told
<1> QED
  BY <1>1, <1>2, <1>4, <1>5, <1>6, <1>7

LEMMA MoveKeepsNotices ==
  ASSUME Inv, NoticesMatch, NEW s \in Session, WriteMove(s)
  PROVE  NoticesMatch'
<1> DEFINE p == req[s]
           n == Len(log) + 1
           e == log'[n]
<1>1. TypeOK /\ Grows(p, isCorrection(p.from))
  BY WriteMoveGrows DEF Inv
<1>2. e.from = p.from /\ e.to = p.to /\ e.actor = p.actor /\ e.notify = p.notify
  BY <1>1 DEF Grows
<1>3. notices' = notices \cup NoticesFor(p, n)
  BY DEF WriteMove
<1>4. /\ IsFiniteSet(Told) /\ n \notin Told
      /\ Told' = IF MustTell(e) THEN Told \cup {n} ELSE Told
      /\ DOMAIN log \subseteq DOMAIN log' /\ n \in DOMAIN log' /\ n \notin DOMAIN log
  BY <1>1, ToldGrows
<1>5. IF MustTell(e) THEN \E kind : NoticesFor(p, n) = {<<kind, n>>}
                     ELSE NoticesFor(p, n) = {}
  <2> HIDE DEF p, n, e
  <2> QED
    BY <1>2, OneNotice
<1> HIDE DEF p, n, e
<1>6. CASE MustTell(e)
  <2>1. PICK kind : notices' = notices \cup {<<kind, n>>}
    BY <1>3, <1>5, <1>6
  <2>2. <<kind, n>> \notin notices
    BY <1>4 DEF NoticesMatch
  <2>3. IsFiniteSet(notices') /\ Cardinality(notices') = Cardinality(notices) + 1
    BY <2>1, <2>2, FS_AddElement DEF NoticesMatch
  <2>4. Cardinality(Told') = Cardinality(Told) + 1
    BY <1>4, <1>6, FS_AddElement
  <2>5. \A k \in notices' : k[2] \in DOMAIN log'
    BY <1>4, <2>1 DEF NoticesMatch
  <2> QED
    BY <2>3, <2>4, <2>5 DEF NoticesMatch
<1>7. CASE ~MustTell(e)
  <2>1. notices' = notices /\ Told' = Told
    BY <1>3, <1>4, <1>5, <1>7
  <2> QED
    BY <1>4, <2>1 DEF NoticesMatch
<1> QED
  BY <1>6, <1>7

\* What an undo takes back frees no slot and never leaves a freed one.
LEMMA UndoKeepsNotices ==
  ASSUME Inv, NoticesMatch, NEW s \in Session, WriteUndo(s)
  PROVE  NoticesMatch'
<1> DEFINE n == Len(log) + 1
           e == log'[n]
<1>1. TypeOK /\ notices' = notices
  BY DEF Inv, WriteUndo
<1>2. req[s].from \in UNDOABLE /\ req[s].to \notin Terminal
  BY DEF Inv, RequestsAreDecided, Decided, WriteUndo
<1>3. PICK c \in BOOLEAN : Grows(req[s], c)
  BY WriteUndoGrows DEF Inv
<1>4. e.from = req[s].from /\ e.to = req[s].to
  BY <1>3 DEF Grows
<1>5. ~MustTell(e)
  BY <1>2, <1>4 DEF MustTell, UNDOABLE, Terminal, SlotFreeing
<1>6. Told' = Told /\ DOMAIN log \subseteq DOMAIN log'
  BY <1>1, <1>3, <1>5, ToldGrows
<1> QED
  BY <1>1, <1>6 DEF NoticesMatch

\* Cancel, reinstate, cancel again, undo: each act the client is owed a message
\* for has one message of its own in the outbox and nothing else has, whatever
\* the sessions do in between (transition.ts; A-036, A-112).
THEOREM EveryActAnnounced == Spec => []EveryActIsAnnounced
<1>1. Init => NoticesMatch
  <2> SUFFICES ASSUME Init PROVE NoticesMatch
    OBVIOUS
  <2>1. notices = {} /\ Told = {}
    BY DEF Init, Told
  <2> QED
    BY <2>1, FS_EmptySet DEF NoticesMatch
<1>2. Inv /\ NoticesMatch /\ [Next]_vars => NoticesMatch'
  <2> SUFFICES ASSUME Inv, NoticesMatch, [Next]_vars PROVE NoticesMatch'
    OBVIOUS
  <2>1. ASSUME UNCHANGED <<log, notices>> PROVE NoticesMatch'
    BY <2>1 DEF NoticesMatch, Told, MustTell
  <2> QED
    BY <2>1, MoveKeepsNotices, UndoKeepsNotices DEF Next, Read, MovedFirst, RolledBack, Tick, vars
<1>3. NoticesMatch => EveryActIsAnnounced
  BY DEF NoticesMatch, EveryActIsAnnounced, Told
<1> QED
  BY <1>1, <1>2, <1>3, InvIsInvariant, PTL DEF Spec
=============================================================================
