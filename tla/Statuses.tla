------------------------------ MODULE Statuses ------------------------------
(***************************************************************************)
(* The pure rules about one appointment's status: the status sets of       *)
(* packages/core/scheduling/status.ts and the transition table, the        *)
(* cutoff, the correction window and the undo of transitions.ts.           *)
(*                                                                         *)
(* A rule takes the context the database layer hands it, a record          *)
(*   [actor, now, startAt, endAt, cutoff, reason]                          *)
(* where the instants are numbers on one clock, cutoff is the resolved     *)
(* notice period in the same unit, and reason says whether a non-blank     *)
(* reason was given.  The rule says whether the move is allowed; which of  *)
(* its refusals a screen would show is wording and is left out.            *)
(***************************************************************************)
EXTENDS Integers

CONSTANTS
  CorrectionWindow,   \* seven days after the end, in ticks of the clock
  UndoWindow,         \* ten minutes
  Grace               \* two hours past the end: how long now measures a visit

ASSUME WindowsAssumption ==
  /\ CorrectionWindow \in Nat
  /\ UndoWindow \in Nat
  /\ Grace \in Nat

AppointmentStatus ==
  {"booked", "confirmed", "checked_in", "in_progress",
   "completed", "no_show", "cancelled", "cancelled_late"}

SlotFreeing == {"cancelled", "cancelled_late"}

\* Every status that still occupies its time: no_show and completed do.
Active == AppointmentStatus \ SlotFreeing

Terminal == {"completed", "no_show", "cancelled", "cancelled_late"}

ReminderEligible == {"booked", "confirmed"}

Pushable == {"booked", "confirmed", "checked_in", "in_progress"}

ServiceEditable == {"booked", "confirmed", "checked_in", "in_progress"}

Actor == {"staff", "customer_token"}

-----------------------------------------------------------------------------
(* The transition table.  A clause is one line of TRANSITIONS, for every   *)
(* status that has it: who may take the edge, under which precondition,    *)
(* and whether it wants a reason.                                          *)

Clause(froms, to, actor, pre, needsReason) ==
  [from |-> froms, to |-> to, actor |-> actor, pre |-> pre,
   needsReason |-> needsReason]

NotYetArrived == {"booked", "confirmed"}

TRANSITIONS ==
  { Clause({"booked"}, "confirmed", "staff", "none", FALSE),
    Clause({"booked"}, "confirmed", "customer_token", "none", FALSE),
    Clause(NotYetArrived, "checked_in", "staff", "none", FALSE),
    Clause(NotYetArrived \cup {"checked_in"}, "in_progress", "staff", "none", FALSE),
    Clause(NotYetArrived, "completed", "staff", "after-start", FALSE),
    Clause({"checked_in", "in_progress"}, "completed", "staff", "none", FALSE),
    Clause(NotYetArrived, "no_show", "staff", "after-start", FALSE),
    Clause(NotYetArrived \cup {"checked_in"}, "cancelled", "staff", "none", FALSE),
    Clause({"in_progress"}, "cancelled", "staff", "none", TRUE),
    Clause(NotYetArrived, "cancelled", "customer_token", "outside-cutoff", FALSE),
    Clause(NotYetArrived, "cancelled_late", "staff", "none", FALSE),
    Clause(NotYetArrived, "cancelled_late", "customer_token", "inside-cutoff", FALSE),
    Clause({"completed"}, "no_show", "staff", "within-correction-window", TRUE),
    Clause({"no_show"}, "completed", "staff", "within-correction-window", TRUE),
    Clause(SlotFreeing, "booked", "staff", "within-correction-window", TRUE) }

\* Landing exactly on the cutoff counts as inside it.
isInsideCancellationCutoff(ctx) == ctx.now >= ctx.startAt - ctx.cutoff

check(clause, ctx) ==
  /\ clause.needsReason => ctx.reason
  /\ clause.pre = "after-start" => ctx.now >= ctx.startAt
  /\ clause.pre = "outside-cutoff" => ~isInsideCancellationCutoff(ctx)
  /\ clause.pre = "inside-cutoff" => isInsideCancellationCutoff(ctx)
  /\ clause.pre = "within-correction-window" => ctx.now - ctx.endAt <= CorrectionWindow

canTransition(from, to, ctx) ==
  /\ from # to
  /\ \E clause \in TRANSITIONS :
       /\ from \in clause.from
       /\ clause.to = to
       /\ clause.actor = ctx.actor
       /\ check(clause, ctx)

\* A move out of a terminal status is somebody fixing a record.
isCorrection(from) == from \in Terminal

\* Moving an appointment is a cancellation with extra steps (D-6).
canReschedule(from, ctx) ==
  /\ from \in {"booked", "confirmed"}
  /\ ctx.actor = "customer_token" => ~isInsideCancellationCutoff(ctx)

canChangeServices(status) == status \in ServiceEditable

\* Which cancellation the desk's one button means, by the clock.
staffCancellationStatus(from, ctx) ==
  IF /\ isInsideCancellationCutoff(ctx)
     /\ canTransition(from, "cancelled_late", ctx)
  THEN "cancelled_late"
  ELSE "cancelled"

isVisitMeasurable(ctx) == ctx.now - ctx.endAt <= Grace

-----------------------------------------------------------------------------
(* The undo of a forward tap: last is the newest status event of the log,  *)
(* or a record whose to is "none" when the log holds no status event.      *)

UNDOABLE == {"checked_in", "in_progress", "completed"}

canUndo(status, last, ctx) ==
  /\ ctx.actor = "staff"
  /\ ~last.correction
  /\ last.to = status
  /\ last.to \in UNDOABLE
  /\ ctx.now - last.at <= UndoWindow
=============================================================================
