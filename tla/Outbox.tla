------------------------------- MODULE Outbox -------------------------------
(***************************************************************************)
(* The notification outbox: packages/db/notifications (enqueue, reminders, *)
(* dispatch, stale, stuck), the retry policy of packages/core and the job  *)
(* route that runs the reminder sweep and the dispatcher back to back.     *)
(*                                                                         *)
(* A job is one call of the route.  Two of them overlap whenever a tick is *)
(* late or is called again; each can die at any point (a serverless        *)
(* timeout), and the provider may take a message and lose the answer.  A   *)
(* row is named by its dedupe key: one reminder for each visit and start,  *)
(* and the notices the booking operations put beside their own writes.     *)
(*                                                                         *)
(* Time is counted in ticks.  nextAttemptAt is kept as the ticks still to  *)
(* wait and the updatedAt of a claimed row as the ticks since the claim.   *)
(***************************************************************************)
EXTENDS Integers, FiniteSets

CONSTANTS
  Visit,          \* appointments that can be reminded
  Start,          \* the instants they can start at
  Notice,         \* dedupe keys of the messages about what happened
  Addressed,      \* the messages whose client left an email or a phone
  Job,            \* concurrent calls of the job route
  Lead,           \* REMINDER_LEAD_MS
  Width,          \* REMINDER_WINDOW_MS
  StaleClaim,     \* STALE_CLAIM_MS
  RunBound,       \* how long the platform lets one job live
  MaxAttempts,    \* MAX_ATTEMPTS
  Backoff,        \* BACKOFF_MS, indexed by the attempts already made
  Limit,          \* rows one claim takes
  MaxClock,       \* bound: the clock of the reminder windows
  MaxUpsets       \* bound: crashes, lost answers, desk retries, flips, edits

Reminder == Visit \X Start
Key == Reminder \cup Notice

ASSUME OutboxAssumption ==
  /\ Lead \in Nat /\ Width \in Nat /\ Limit \in Nat
  /\ StaleClaim \in Nat /\ RunBound \in Nat
  /\ MaxAttempts \in Nat /\ Backoff \in [1..(MaxAttempts - 1) -> Nat]
  /\ Start \subseteq Int /\ MaxClock \in Nat /\ MaxUpsets \in Nat
  /\ Reminder \cap Notice = {} /\ Addressed \subseteq Key
  /\ IsFiniteSet(Key)

\* The platform ends a job before its claim can be taken from it: "fifteen
\* minutes is far longer than any provider call".
ASSUME RunBoundAssumption == RunBound <= StaleClaim

VARIABLES
  row,         \* the NotificationOutbox table: a row for each key written
  visit,       \* where each appointment stands
  job,         \* the calls of the route under way
  clock,
  lastRunAt,   \* Business.remindersLastRunAt
  enabled,     \* NOTIFICATIONS_ENABLED
  delivered,   \* history: times the provider accepted each message
  unknown,     \* history: of those, acceptances nobody wrote down
  changedAt,   \* history: when each visit last changed
  upsets       \* what the bound MaxUpsets counts

vars == <<row, visit, job, clock, lastRunAt, enabled, delivered, unknown,
          changedAt, upsets>>

-----------------------------------------------------------------------------
(* Rows.                                                                   *)

OutboxStatus == {"pending", "sending", "sent", "failed", "suppressed"}

NoRow == [status |-> "none", attempts |-> 0, wait |-> 0, claimAge |-> 0, place |-> 0]

Rows == {k \in Key : row[k] # NoRow}

\* createMany with skipDuplicates on the unique key: a key that has a row keeps
\* it as it is.  The kill switch and a missing address are decided here.
enqueueNotification(k) ==
  IF row[k] # NoRow
  THEN row
  ELSE [row EXCEPT ![k] =
          [status |-> IF enabled /\ k \in Addressed THEN "pending" ELSE "suppressed",
           attempts |-> 0, wait |-> 0, claimAge |-> 0,
           place |-> Cardinality(Rows) + 1]]

\* Mutant: a claim is stale at its fifteen minutes, not after them.
MutDue == {k \in Key :
             \/ row[k].status = "pending" /\ row[k].wait = 0
             \/ row[k].status = "sending" /\ row[k].claimAge >= StaleClaim}

\* Mutant: a claim is never taken over.
MutDueQueued == {k \in Key : row[k].status = "pending" /\ row[k].wait = 0}

\* What a claim may take: queued and not waiting out a backoff, or claimed so
\* long ago that its job must be dead.
Due == {k \in Key :
          \/ row[k].status = "pending" /\ row[k].wait = 0
          \/ row[k].status = "sending" /\ row[k].claimAge > StaleClaim}

\* ORDER BY createdAt LIMIT: nothing left behind is older than what is taken.
OldestDue(batch) ==
  /\ batch \subseteq Due
  /\ Cardinality(batch) <= Limit
  /\ batch # Due => Cardinality(batch) = Limit
  /\ \A k \in batch, other \in Due \ batch : row[k].place < row[other].place

\* Mutant: the rows are only read and counted, and stay pending while they are sent.
Mutclaim(batch) ==
  [k \in Key |-> IF k \in batch THEN [row[k] EXCEPT !.attempts = @ + 1] ELSE row[k]]

claim(batch) ==
  [k \in Key |->
     IF k \in batch
     THEN [row[k] EXCEPT !.status = "sending", !.attempts = @ + 1, !.claimAge = 0]
     ELSE row[k]]

Settle(k, status, wait) ==
  row' = [row EXCEPT ![k] = [@ EXCEPT !.status = status, !.wait = wait, !.claimAge = 0]]

-----------------------------------------------------------------------------
(* The sweep's window and the question asked before a send.                *)

InWindow(at, start) == at + Lead <= start /\ start < at + Lead + Width

\* The visits the sweep's one query returns, each as the key it will write.
DueReminders ==
  {k \in Reminder : /\ visit[k[1]].coming
                    /\ visit[k[1]].start = k[2]
                    /\ InWindow(clock, k[2])}

\* Mutant: the question is whether the visit stands, wherever it stands.
MutstaleReason(k) == k \in Reminder /\ ~visit[k[1]].coming

\* Only the reminder makes a claim about the future, and it is still true when
\* the visit still stands at the start the message names.
staleReason(k) ==
  k \in Reminder /\ ~(visit[k[1]].coming /\ visit[k[1]].start = k[2])

\* Mutant: a delay that has run out is a wait all the same.
MutNotNegative(n) == n

NotNegative(n) == IF n < 0 THEN 0 ELSE n

retryDelay(attempts) ==
  IF attempts \in 1..(MaxAttempts - 1) THEN Backoff[attempts] ELSE -1

-----------------------------------------------------------------------------
(* A job: sweep, watermark, claim, then the claimed rows one by one.       *)

Nobody == <<>>

Idle == [phase |-> "idle", now |-> 0, age |-> 0, due |-> {}, batch |-> {},
         tries |-> [k \in Key |-> 0], key |-> Nobody, result |-> "none", disturbed |-> FALSE]

Init ==
  /\ row = [k \in Key |-> NoRow]
  /\ visit \in [Visit -> [start : Start, coming : {TRUE}]]
  /\ job = [j \in Job |-> Idle]
  /\ clock = 0
  /\ lastRunAt = -1
  /\ enabled = TRUE
  /\ delivered = [k \in Key |-> 0]
  /\ unknown = [k \in Key |-> 0]
  /\ changedAt = [v \in Visit |-> -1]
  /\ upsets = 0

Put(j, s) == job' = [job EXCEPT ![j] = s]

Same == UNCHANGED <<delivered, unknown, upsets>>
World == UNCHANGED <<visit, clock, enabled, changedAt>>

\* The scheduler calls the route: the sweep reads the visits in the window.
SweepStarts(j) ==
  /\ job[j].phase = "idle"
  /\ Put(j, [Idle EXCEPT !.phase = "sweep", !.now = clock, !.due = DueReminders])
  /\ UNCHANGED <<row, lastRunAt>> /\ Same /\ World

\* One transaction a visit, from what the sweep read: a key already written
\* rolls it back.
EnqueueReminder(j) ==
  /\ job[j].phase = "sweep"
  /\ \E k \in job[j].due :
       /\ row' = enqueueNotification(k)
       /\ Put(j, [job[j] EXCEPT !.due = @ \ {k}])
  /\ UNCHANGED lastRunAt /\ Same /\ World

\* Mutant: the watermark is written without waiting for the enqueues.
MutStamp(j) ==
  /\ job[j].phase = "sweep"
  /\ lastRunAt' = IF lastRunAt < job[j].now THEN job[j].now ELSE lastRunAt
  /\ Put(j, [job[j] EXCEPT !.phase = "dispatch", !.now = 0, !.due = {}])
  /\ UNCHANGED row /\ Same /\ World

\* The watermark is the last thing the sweep does, and never goes back.
Stamp(j) ==
  /\ job[j].phase = "sweep"
  /\ job[j].due = {}
  /\ lastRunAt' = IF lastRunAt < job[j].now THEN job[j].now ELSE lastRunAt
  /\ Put(j, [job[j] EXCEPT !.phase = "dispatch", !.now = 0])
  /\ UNCHANGED row /\ Same /\ World

\* The kill switch is read first; with it on, the queue is left alone.
Halted(j) ==
  /\ job[j].phase = "dispatch"
  /\ ~enabled
  /\ Put(j, Idle)
  /\ UNCHANGED <<row, lastRunAt>> /\ Same /\ World

\* The attempts the claim returns with each row.
Tries(batch) == [k \in Key |-> IF k \in batch THEN row[k].attempts + 1 ELSE 0]

\* The claim is one statement.
Claim(j) ==
  /\ job[j].phase = "dispatch"
  /\ enabled
  /\ \E batch \in SUBSET Due :
       /\ OldestDue(batch)
       /\ row' = claim(batch)
       /\ Put(j, [job[j] EXCEPT !.phase = "check", !.batch = batch, !.tries = Tries(batch)])
  /\ UNCHANGED lastRunAt /\ Same /\ World

\* The next claimed row, checked at the last moment: a stale one is suppressed,
\* one with nobody to send it to is failed, any other goes to the provider.
Verdict(k) ==
  IF staleReason(k) THEN "suppressed"
  ELSE IF k \in Addressed THEN "send" ELSE "failed"

Check(j) ==
  /\ job[j].phase = "check"
  /\ \E k \in job[j].batch :
       \/ /\ Verdict(k) # "send"
          /\ Settle(k, Verdict(k), 0)
          /\ Put(j, [job[j] EXCEPT !.batch = @ \ {k}])
       \/ /\ Verdict(k) = "send"
          /\ Put(j, [job[j] EXCEPT !.phase = "call", !.key = k, !.disturbed = FALSE])
          /\ UNCHANGED row
  /\ UNCHANGED lastRunAt /\ Same /\ World

\* adapter.send returns, or throws.
Send(j) ==
  /\ job[j].phase = "call"
  /\ \E result \in {"accepted", "transient", "permanent"} :
       /\ Put(j, [job[j] EXCEPT !.phase = "record", !.result = result])
       /\ delivered' = IF result = "accepted"
                       THEN [delivered EXCEPT ![job[j].key] = @ + 1]
                       ELSE delivered
  /\ UNCHANGED <<row, lastRunAt, unknown, upsets>> /\ World

\* The provider took the message and the answer was lost on the way, or the
\* write of `sent` failed inside the same try: to the dispatcher an error that
\* is not a ChannelSendError, which is transient.
AnswerLost(j) ==
  /\ job[j].phase = "call"
  /\ upsets < MaxUpsets
  /\ Put(j, [job[j] EXCEPT !.phase = "record", !.result = "transient"])
  /\ delivered' = [delivered EXCEPT ![job[j].key] = @ + 1]
  /\ unknown' = [unknown EXCEPT ![job[j].key] = @ + 1]
  /\ upsets' = upsets + 1
  /\ UNCHANGED <<row, lastRunAt>> /\ World

\* The outcome is written by the row's id alone.  The next attempt is counted
\* from the start of the dispatch, and a delay that has run out is no wait.
Record(j) ==
  /\ job[j].phase = "record"
  /\ LET k == job[j].key
         delay == retryDelay(job[j].tries[k])
     IN /\ \/ /\ job[j].result = "accepted"
              /\ Settle(k, "sent", 0)
           \/ /\ job[j].result = "permanent" \/ (job[j].result = "transient" /\ delay = -1)
              /\ Settle(k, "failed", 0)
           \/ /\ job[j].result = "transient" /\ delay # -1
              /\ Settle(k, "pending", NotNegative(delay - row[k].claimAge))
        /\ Put(j, [job[j] EXCEPT !.phase = "check", !.batch = @ \ {k}, !.key = Nobody,
                                 !.result = "none"])
  /\ UNCHANGED lastRunAt /\ Same /\ World

Finish(j) ==
  /\ job[j].phase = "check"
  /\ job[j].batch = {}
  /\ Put(j, Idle)
  /\ UNCHANGED <<row, lastRunAt>> /\ Same /\ World

JobStep(j) ==
  \/ EnqueueReminder(j) \/ Stamp(j) \/ Halted(j) \/ Claim(j)
  \/ Check(j) \/ Send(j) \/ Record(j) \/ Finish(j)

\* A job dies wherever it is: what it wrote stays, what it knew is gone.
Crash(j) ==
  /\ job[j].phase # "idle"
  /\ upsets < MaxUpsets
  /\ Put(j, Idle)
  /\ unknown' = IF job[j].phase = "record" /\ job[j].result = "accepted"
                THEN [unknown EXCEPT ![job[j].key] = @ + 1]
                ELSE unknown
  /\ upsets' = upsets + 1
  /\ UNCHANGED <<row, lastRunAt, delivered>> /\ World

-----------------------------------------------------------------------------
(* The rest of the system.                                                 *)

\* An operation on the book writes its notice in its own transaction.
Enqueue(k) ==
  /\ row[k] = NoRow
  /\ row' = enqueueNotification(k)
  /\ UNCHANGED <<job, lastRunAt>> /\ Same /\ World

\* Mutant: the desk's retry is not limited to rows that failed.
MutretryNotification(k) ==
  /\ row[k].status \in {"failed", "sent"}
  /\ upsets < MaxUpsets
  /\ row' = [row EXCEPT ![k] = [@ EXCEPT !.status = "pending", !.attempts = 0, !.wait = 0]]
  /\ upsets' = upsets + 1
  /\ UNCHANGED <<job, lastRunAt, delivered, unknown>> /\ World

\* The desk puts a failed row back, with its attempts counted from nothing.
retryNotification(k) ==
  /\ row[k].status = "failed"
  /\ upsets < MaxUpsets
  /\ row' = [row EXCEPT ![k] = [@ EXCEPT !.status = "pending", !.attempts = 0, !.wait = 0]]
  /\ upsets' = upsets + 1
  /\ UNCHANGED <<job, lastRunAt, delivered, unknown>> /\ World

\* The booking side moves a visit, ends it, or brings it back.
VisitChanges(v) ==
  /\ upsets < MaxUpsets
  /\ \E standing \in [start : Start, coming : BOOLEAN] \ {visit[v]} :
       visit' = [visit EXCEPT ![v] = standing]
  /\ changedAt' = [changedAt EXCEPT ![v] = clock]
  /\ job' = [j \in Job |->
               IF job[j].phase = "call" /\ job[j].key \in Reminder /\ job[j].key[1] = v
               THEN [job[j] EXCEPT !.disturbed = TRUE]
               ELSE job[j]]
  /\ upsets' = upsets + 1
  /\ UNCHANGED <<row, clock, lastRunAt, enabled, delivered, unknown>>

FlipKillSwitch ==
  /\ upsets < MaxUpsets
  /\ enabled' = ~enabled
  /\ upsets' = upsets + 1
  /\ UNCHANGED <<row, visit, job, clock, lastRunAt, delivered, unknown, changedAt>>

\* One tick.  A claim older than StaleClaim is as stale as it gets.
Tick ==
  /\ \A j \in Job : job[j].phase # "idle" => job[j].age < RunBound
  /\ clock' = IF clock < MaxClock THEN clock + 1 ELSE clock
  /\ row' = [k \in Key |->
               [row[k] EXCEPT
                  !.wait = NotNegative(@ - 1),
                  !.claimAge = IF row[k].status = "sending" /\ @ <= StaleClaim
                               THEN @ + 1 ELSE @]]
  /\ job' = [j \in Job |->
               IF job[j].phase = "idle" THEN job[j] ELSE [job[j] EXCEPT !.age = @ + 1]]
  /\ UNCHANGED <<visit, lastRunAt, enabled, changedAt>> /\ Same

Next ==
  \/ \E j \in Job : SweepStarts(j) \/ JobStep(j) \/ AnswerLost(j) \/ Crash(j)
  \/ \E k \in Notice : Enqueue(k)
  \/ \E k \in Key : retryNotification(k)
  \/ \E v \in Visit : VisitChanges(v)
  \/ FlipKillSwitch
  \/ Tick

\* The scheduler keeps calling, a call that is not killed goes on, time passes.
Fairness ==
  /\ \A j \in Job : WF_vars(SweepStarts(j)) /\ WF_vars(JobStep(j))
  /\ WF_vars(Tick)

Spec == Init /\ [][Next]_vars /\ Fairness

-----------------------------------------------------------------------------
(* Properties.                                                             *)

Phase == {"idle", "sweep", "dispatch", "check", "call", "record"}

JobState ==
  [phase : Phase, now : Nat, age : Nat, due : SUBSET Reminder, batch : SUBSET Key,
   tries : [Key -> Nat], key : Key \cup {Nobody}, result : {"none", "accepted", "transient", "permanent"},
   disturbed : BOOLEAN]

RowState ==
  [status : OutboxStatus \cup {"none"}, attempts : Nat, wait : Nat, claimAge : Nat,
   place : Nat]

\* Every row and every job is well formed, no wait is negative, and a job names
\* the message in its hands only while it holds it.
TypeOK ==
  /\ row \in [Key -> RowState]
  /\ visit \in [Visit -> [start : Start, coming : BOOLEAN]]
  /\ job \in [Job -> JobState]
  /\ \A j \in Job : job[j].phase \in {"call", "record"} => job[j].key \in job[j].batch
  /\ clock \in Nat /\ lastRunAt \in Int /\ enabled \in BOOLEAN /\ upsets \in Nat
  /\ delivered \in [Key -> Nat] /\ unknown \in [Key -> Nat]
  /\ changedAt \in [Visit -> Int]

\* A claimed message is in the hands of one job: two runs that overlap never
\* both work on a row, even though a claim that looks abandoned is taken over
\* and every outcome is written by the row's id alone.
OneHolder ==
  \A i, j \in Job : i # j => job[i].batch \cap job[j].batch = {}

\* The provider is handed a message again only after an acceptance that nobody
\* could write down: at any time the acceptances on record are at most one, and
\* a row that reads `sent` was accepted.
DeliveredOncePerKnownAnswer ==
  \A k \in Key :
    /\ delivered[k] <= unknown[k] + 1
    /\ row[k].status = "sent" => delivered[k] = unknown[k] + 1

\* A message that went out is never queued, claimed, failed or suppressed again.
SentStaysSent ==
  [][\A k \in Key : row[k].status = "sent" => row'[k].status = "sent"]_vars

\* What a reminder says is true when the provider is called, unless the visit
\* changed between the question and the call: not when it was queued, nor when
\* it was claimed, nor on the attempt before a backoff.
NoFalsePromise ==
  \A j \in Job :
    job[j].phase = "call" /\ job[j].key \in Reminder /\ ~job[j].disturbed =>
      /\ visit[job[j].key[1]].coming
      /\ visit[job[j].key[1]].start = job[j].key[2]

\* The watermark is a statement about the sweep: each visit that stood where it
\* stands before the run began, inside that run's window, has its reminder row,
\* whether or not a run died half way and however late an older run ends.
WatermarkIsTruthful ==
  \A v \in Visit :
    /\ visit[v].coming
    /\ changedAt[v] < lastRunAt
    /\ InWindow(lastRunAt, visit[v].start)
    => row[<<v, visit[v].start>>] # NoRow

\* Every message that is decided is settled in the end: sent, given up where
\* the desk sees it, or found untrue, provided that sending is not switched off
\* for good.  Dead jobs, lost answers and backoffs only delay it.
EveryMessageSettles ==
  <>[]enabled =>
    \A k \in Key :
      (row[k].status \in {"pending", "sending"})
        ~> (row[k].status \in {"sent", "failed", "suppressed"})
=============================================================================
