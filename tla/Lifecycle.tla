------------------------------ MODULE Lifecycle -----------------------------
(***************************************************************************)
(* The status of one appointment, moved by several sessions at once:       *)
(* transitionAppointment and undoStatusMove of                             *)
(* packages/db/appointments/transition.ts.                                 *)
(*                                                                         *)
(* A session is one request.  It reads the row (READ COMMITTED, so another *)
(* session may write before it does), decides with the rules of Statuses,  *)
(* and then writes the row, the log event and the outbox notice in one     *)
(* transaction, conditionally on the status it decided against.  The two   *)
(* statements of undoStatusMove's read (row, then newest event) are one    *)
(* step: the undo goes on only if the event names the row's status, and    *)
(* then reading both at the second instant gives the same answer.          *)
(*                                                                         *)
(* The instant a caller passes as now was read before the transaction      *)
(* began, at most MaxLag ticks ago.                                        *)
(***************************************************************************)
EXTENDS Statuses, Sequences, FiniteSets

CONSTANTS
  Session,            \* concurrent requests about the appointment
  StartAt, EndAt,     \* the scheduled visit
  Cutoff,             \* resolved cancellation cutoff, in ticks
  MaxTime,            \* bound: the clock stops here
  MaxLag,             \* bound: how stale a caller's now may be
  MaxLog,             \* bound: status events in the log
  NoTime              \* NULL in a timestamp column

ASSUME VisitAssumption ==
  /\ StartAt \in Nat
  /\ EndAt \in Nat
  /\ Cutoff \in Nat
  /\ MaxTime \in Nat
  /\ MaxLag \in Nat
  /\ MaxLog \in Nat
  /\ NoTime \notin Nat

VARIABLES
  row,      \* the Appointment row's status and actual timestamps
  log,      \* its status events, oldest first
  notices,  \* dedupe keys of the outbox rows these moves wrote
  req,      \* what each session has read and decided
  now       \* the wall clock

vars == <<row, log, notices, req, now>>

Instant == Nat \cup {NoTime}

Row == [status : AppointmentStatus,
        checkedInAt : Instant, startedAt : Instant, endedAt : Instant]

Notify == {"unset", "no", "yes"}

\* undid is the log index of the tap an undo names, 0 for any other event.
Event == [from : AppointmentStatus, to : AppointmentStatus, at : Nat,
          actor : Actor, correction : BOOLEAN, undid : Nat, notify : Notify]

Notice == {"cancelled", "reinstated"} \X Nat

Idle == [kind |-> "idle"]

Pending == [kind : {"move", "undo"}, from : AppointmentStatus,
            to : AppointmentStatus, at : Nat, actor : Actor,
            undid : Nat, notify : Notify]

-----------------------------------------------------------------------------
Context(actor, at, reason) ==
  [actor |-> actor, now |-> at, startAt |-> StartAt, endAt |-> EndAt,
   cutoff |-> Cutoff, reason |-> reason]

NoMove == [from |-> "none", to |-> "none", at |-> 0, correction |-> FALSE]

lastStatusMove == IF log = <<>> THEN NoMove ELSE log[Len(log)]

\* The measurement columns after a move, and only those.
timestampsFor(r, from, to, at, correction, measured) ==
  CASE to = "no_show" ->
         [r EXCEPT !.checkedInAt = NoTime, !.startedAt = NoTime, !.endedAt = NoTime]
    [] correction /\ to # "no_show" -> r
    [] ~correction /\ measured /\ to = "checked_in" -> [r EXCEPT !.checkedInAt = at]
    [] ~correction /\ measured /\ to = "in_progress" -> [r EXCEPT !.startedAt = at]
    [] ~correction /\ measured /\ to = "completed"
         /\ from \in {"checked_in", "in_progress"} -> [r EXCEPT !.endedAt = at]
    [] OTHER -> r

\* Mutant: the undo restores the status and forgets the timestamp.
MutClearStamp(r, status) == r

\* The column the tap that reached this status stamps.
ClearStamp(r, status) ==
  CASE status = "checked_in" -> [r EXCEPT !.checkedInAt = NoTime]
    [] status = "in_progress" -> [r EXCEPT !.startedAt = NoTime]
    [] status = "completed" -> [r EXCEPT !.endedAt = NoTime]
    [] OTHER -> r

\* Mutant: the key before A-112, one cancellation per appointment.
MutNoticeKey(kind, event) == <<kind, 0>>

\* The notice is keyed on the event, so each act has a key of its own.
NoticeKey(kind, event) == <<kind, event>>

NoticesFor(p, event) ==
  { k \in {NoticeKey("cancelled", event)} :
      p.actor = "staff" /\ p.notify # "no" /\ p.to \in SlotFreeing }
  \cup
  { k \in {NoticeKey("reinstated", event)} :
      /\ p.actor = "staff" /\ p.notify = "yes"
      /\ p.from \in SlotFreeing /\ p.to \notin SlotFreeing }

-----------------------------------------------------------------------------
Init ==
  /\ row = [status |-> "booked", checkedInAt |-> NoTime,
            startedAt |-> NoTime, endedAt |-> NoTime]
  /\ log = <<>>
  /\ notices = {}
  /\ req = [s \in Session |-> Idle]
  /\ now = 0

Clocks == {t \in 0..now : now - t <= MaxLag}

\* What a screen posts: a status, or the intent of the desk's single cancel
\* button, which may let the clock decide or overrule it.
Button == AppointmentStatus \cup {"derive", "override"}

\* Which status the button ends up asking for.
Asked(button, ctx) ==
  IF button = "derive" THEN staffCancellationStatus(row.status, ctx)
  ELSE IF button = "override" THEN "cancelled"
  ELSE button

\* The escape on a late cancellation wants a reason of its own.
OverruleNeedsReason(button, ctx) ==
  button = "override" /\ staffCancellationStatus(row.status, ctx) = "cancelled_late"

\* notify is consulted by a staff move that frees the slot (where leaving it
\* unset means yes) or takes the slot back (where it means no).
NotifyChoices(actor, from, to) ==
  {"unset"} \cup {n \in {"no"} : actor = "staff" /\ to \in SlotFreeing}
            \cup {n \in {"yes"} : actor = "staff" /\ from \in SlotFreeing}

MoveRequest(actor, at, to, notify) ==
  [kind |-> "move", from |-> row.status, to |-> to, at |-> at,
   actor |-> actor, undid |-> 0, notify |-> notify]

UndoRequest(at) ==
  [kind |-> "undo", from |-> row.status, to |-> lastStatusMove.from,
   at |-> at, actor |-> "staff", undid |-> Len(log), notify |-> "unset"]

ReadMove(s, actor, at, reason, button) ==
  LET ctx == Context(actor, at, reason)
      to == Asked(button, ctx)
  IN /\ button \in {"derive", "override"} => actor = "staff"
     /\ OverruleNeedsReason(button, ctx) => reason
     /\ canTransition(row.status, to, ctx)
     /\ \E notify \in NotifyChoices(actor, row.status, to) :
          req' = [req EXCEPT ![s] = MoveRequest(actor, at, to, notify)]

ReadUndo(s, at) ==
  /\ canUndo(row.status, lastStatusMove, Context("staff", at, FALSE))
  /\ req' = [req EXCEPT ![s] = UndoRequest(at)]

\* A free session takes a request and reads the row for it.
Read(s) ==
  /\ req[s] = Idle
  /\ Len(log) < MaxLog
  /\ \/ \E actor \in Actor, at \in Clocks, reason \in BOOLEAN, button \in Button :
          ReadMove(s, actor, at, reason, button)
     \/ \E at \in Clocks : ReadUndo(s, at)
  /\ UNCHANGED <<row, log, notices, now>>

\* Mutant: the UPDATE is scoped by id alone.
MutStatusUnmoved(p) == TRUE

\* The UPDATE ... WHERE status = from found its row.
StatusUnmoved(p) == row.status = p.from

\* Mutant: the event names the undone tap by a zero-based index.
MutAppendEvent(p, correction) ==
  Append(log, [from |-> p.from, to |-> p.to, at |-> p.at, actor |-> p.actor,
               correction |-> correction, undid |-> p.undid - 1, notify |-> p.notify])

AppendEvent(p, correction) ==
  Append(log, [from |-> p.from, to |-> p.to, at |-> p.at, actor |-> p.actor,
               correction |-> correction, undid |-> p.undid, notify |-> p.notify])

WriteMove(s) ==
  /\ req[s].kind = "move"
  /\ StatusUnmoved(req[s])
  /\ Len(log) < MaxLog
  /\ LET p == req[s]
         correction == isCorrection(p.from)
         measured == isVisitMeasurable(Context(p.actor, p.at, FALSE))
     IN /\ row' = [timestampsFor(row, p.from, p.to, p.at, correction, measured)
                     EXCEPT !.status = p.to]
        /\ log' = AppendEvent(p, correction)
        /\ notices' = notices \cup NoticesFor(p, Len(log) + 1)
  /\ req' = [req EXCEPT ![s] = Idle]
  /\ UNCHANGED now

WriteUndo(s) ==
  /\ req[s].kind = "undo"
  /\ StatusUnmoved(req[s])
  /\ Len(log) < MaxLog
  /\ row' = [ClearStamp(row, req[s].from) EXCEPT !.status = req[s].to]
  /\ log' = AppendEvent(req[s], TRUE)
  /\ req' = [req EXCEPT ![s] = Idle]
  /\ UNCHANGED <<notices, now>>

\* Somebody moved it first: AppointmentMovedFirst, and nothing is written.
MovedFirst(s) ==
  /\ req[s] # Idle
  /\ ~StatusUnmoved(req[s])
  /\ req' = [req EXCEPT ![s] = Idle]
  /\ UNCHANGED <<row, log, notices, now>>

\* The transaction rolls back: the time was sold (23P01), every chair is
\* taken, or the process died before the commit.
RolledBack(s) ==
  /\ req[s] # Idle
  /\ StatusUnmoved(req[s])
  /\ req' = [req EXCEPT ![s] = Idle]
  /\ UNCHANGED <<row, log, notices, now>>

Tick ==
  /\ now < MaxTime
  /\ now' = now + 1
  /\ UNCHANGED <<row, log, notices, req>>

Next ==
  \/ \E s \in Session :
       \/ Read(s)
       \/ WriteMove(s) \/ WriteUndo(s)
       \/ MovedFirst(s) \/ RolledBack(s)
  \/ Tick

Spec == Init /\ [][Next]_vars

-----------------------------------------------------------------------------
\* Every variable holds what its column or argument may hold; the status of a
\* stored event is never the "none" of an empty log.
TypeOK ==
  /\ row \in Row
  /\ log \in Seq(Event)
  /\ notices \in SUBSET Notice
  /\ req \in [Session -> Pending \cup {Idle}]
  /\ now \in Nat

\* The log tells the whole story of the status: it starts at booked, every
\* event leaves from where the one before arrived, and the last one arrives
\* at the status on the row.  Two transactions that both decided against the
\* same status would break it (transition.ts, the conditional UPDATE).
LogExplainsStatus ==
  /\ log = <<>> => row.status = "booked"
  /\ log # <<>> => /\ log[1].from = "booked"
                   /\ log[Len(log)].to = row.status
  /\ \A i \in 1..(Len(log) - 1) : log[i + 1].from = log[i].to

Undone(i) == \E j \in DOMAIN log : log[j].undid = i

\* i is a forward tap to status, stamped at t while the visit was still
\* plausibly happening, and nobody has taken it back.
StandingTap(i, status, t) ==
  /\ log[i].to = status
  /\ log[i].at = t
  /\ ~log[i].correction
  /\ t <= EndAt + Grace
  /\ ~Undone(i)

\* Every actual timestamp is a measurement the log still stands behind: it is
\* the instant of a forward tap that was never undone, within two hours of
\* the end; a client who never came has none; and only a finished visit has
\* an end, one that somebody saw her sit down for (D-46, D-47, D-77).
StampsAreMeasurements ==
  /\ row.checkedInAt # NoTime =>
       \E i \in DOMAIN log : StandingTap(i, "checked_in", row.checkedInAt)
  /\ row.startedAt # NoTime =>
       \E i \in DOMAIN log : StandingTap(i, "in_progress", row.startedAt)
  /\ row.endedAt # NoTime =>
       /\ row.status = "completed"
       /\ \E i \in DOMAIN log :
            /\ StandingTap(i, "completed", row.endedAt)
            /\ log[i].from \in {"checked_in", "in_progress"}
  /\ row.status = "no_show" =>
       row.checkedInAt = NoTime /\ row.startedAt = NoTime /\ row.endedAt = NoTime

\* The acts a client is owed a message for: a staff cancellation unless the
\* desk said not to, and a reinstatement only if the desk said to.
MustTell(e) ==
  /\ e.actor = "staff"
  /\ \/ e.to \in SlotFreeing /\ e.notify # "no"
     \/ e.from \in SlotFreeing /\ e.notify = "yes"

\* Cancel, reinstate, cancel again: each act has a message of its own in the
\* outbox, and nothing else has one (A-036, A-112).  A dedupe key that named
\* the appointment would swallow the second cancellation.
EveryActIsAnnounced ==
  Cardinality(notices) = Cardinality({i \in DOMAIN log : MustTell(log[i])})

-----------------------------------------------------------------------------
(* What makes the two invariants above inductive: what a request in flight *)
(* still knows to be true of the log it read, although the log has grown.  *)

Decided(p) ==
  /\ p.kind = "move" =>
       /\ p.undid = 0
       /\ p.from = "completed" => p.to = "no_show"
  /\ p.kind = "undo" =>
       /\ p.undid \in DOMAIN log
       /\ log[p.undid].to = p.from
       /\ p.from \in UNDOABLE
       /\ p.to \notin Terminal

RequestsAreDecided == \A s \in Session : Decided(req[s])

\* Only a correction leaves a terminal status, an undo names an event before
\* its own, and so no event is undone before it happens.
LogIsWellFormed ==
  \A i \in DOMAIN log :
    /\ log[i].undid < i
    /\ log[i].from \in Terminal => log[i].correction

Inv ==
  /\ TypeOK
  /\ RequestsAreDecided
  /\ LogIsWellFormed
  /\ LogExplainsStatus
  /\ StampsAreMeasurements

-----------------------------------------------------------------------------
\* What transitions.ts says of an undo: it is one step, and the move it takes
\* back is the last one in the log.
UndoIsOneStepBack ==
  \A i \in DOMAIN log : log[i].undid # 0 => log[i].undid = i - 1
=============================================================================
