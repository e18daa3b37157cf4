---------------------------- MODULE OutboxProofs ----------------------------
(***************************************************************************)
(* What holds of the outbox for any number of messages and of overlapping  *)
(* jobs, and for every timing of the claims, as long as a job does not     *)
(* outlive the claim it made (RunBoundAssumption).                         *)
(*                                                                         *)
(* The argument: a message in a job's hands is a row that reads `sending`  *)
(* and was claimed no longer ago than the job is old (HeldIsClaimed), a    *)
(* job is never older than RunBound, so the claim on it is not stale yet   *)
(* and no other job can take it.                                           *)
(***************************************************************************)
EXTENDS Outbox, FiniteSetTheorems, TLAPS

HeldIsClaimed ==
  \A j \in Job : \A k \in job[j].batch :
    row[k].status = "sending" /\ row[k].claimAge <= job[j].age

JobsAreBounded == \A j \in Job : job[j].age <= RunBound

HoldsOnlyWhileSending ==
  \A j \in Job : job[j].phase \in {"idle", "sweep", "dispatch"} => job[j].batch = {}

Accepted(j, k) == job[j].phase = "record" /\ job[j].key = k /\ job[j].result = "accepted"

\* Acceptances of k are on record, known to the job that is about to write the
\* answer down, or counted as unknown.
AnswersAreCounted ==
  \A k \in Key :
    /\ row[k].status = "sent" => delivered[k] = unknown[k] + 1
    /\ \A j \in Job : Accepted(j, k) => delivered[k] = unknown[k] + 1
    /\ (row[k].status # "sent" /\ \A j \in Job : ~Accepted(j, k)) => delivered[k] = unknown[k]

ClaimInv ==
  TypeOK /\ HeldIsClaimed /\ JobsAreBounded /\ HoldsOnlyWhileSending /\ OneHolder

-----------------------------------------------------------------------------
(* Typing of the pieces.                                                   *)

LEMMA NotNegativeNat == ASSUME NEW n \in Int PROVE NotNegative(n) \in Nat
BY DEF NotNegative

LEMMA IdleType == Idle \in JobState
BY DEF Idle, JobState, Phase, Nobody

LEMMA RetryDelayType ==
  ASSUME NEW attempts \in Nat
  PROVE retryDelay(attempts) \in Int /\ (retryDelay(attempts) # -1 => retryDelay(attempts) \in Nat)
BY OutboxAssumption DEF retryDelay

LEMMA NoRowType == NoRow \in RowState
BY DEF NoRow, RowState

LEMMA PlaceType == Cardinality(Rows) + 1 \in Nat
<1>1. IsFiniteSet(Rows)
  BY FS_Subset, OutboxAssumption DEF Rows
<1> QED
  BY <1>1, FS_CardinalityType

LEMMA EnqueueType ==
  ASSUME TypeOK, NEW k \in Key
  PROVE enqueueNotification(k) \in [Key -> RowState]
<1> DEFINE new == [status |-> IF enabled /\ k \in Addressed THEN "pending" ELSE "suppressed",
                   attempts |-> 0, wait |-> 0, claimAge |-> 0, place |-> Cardinality(Rows) + 1]
<1>1. new \in RowState
  BY PlaceType DEF RowState, OutboxStatus
<1>2. enqueueNotification(k) = IF row[k] # NoRow THEN row ELSE [row EXCEPT ![k] = new]
  BY DEF enqueueNotification
<1> HIDE DEF new
<1> QED
  BY <1>1, <1>2 DEF TypeOK

LEMMA ClaimType ==
  ASSUME TypeOK, NEW batch \in SUBSET Key
  PROVE claim(batch) \in [Key -> RowState]
<1>1. \A r \in RowState, n \in Nat :
        [r EXCEPT !.status = "sending", !.attempts = n, !.claimAge = 0] \in RowState
  BY DEF RowState, OutboxStatus
<1>2. \A r \in RowState : r.attempts + 1 \in Nat
  BY DEF RowState
<1>3. \A k \in Key : row[k] \in RowState
  BY DEF TypeOK
<1>4. \A k \in batch :
        [row[k] EXCEPT !.status = "sending", !.attempts = @ + 1, !.claimAge = 0] \in RowState
  BY <1>1, <1>2, <1>3
<1> QED
  BY <1>3, <1>4 DEF claim

LEMMA SettleType ==
  ASSUME TypeOK, NEW k \in Key, NEW status \in OutboxStatus, NEW wait \in Nat,
         Settle(k, status, wait)
  PROVE row' \in [Key -> RowState]
<1>1. \A r \in RowState :
        [r EXCEPT !.status = status, !.wait = wait, !.claimAge = 0] \in RowState
  BY DEF RowState
<1> QED
  BY <1>1 DEF Settle, TypeOK

LEMMA DueIsKeys == Due \in SUBSET Key
BY DEF Due

\* What one step makes of its own job is a job state again.
LEMMA JobEdits ==
  ASSUME NEW s \in JobState
  PROVE /\ [s EXCEPT !.phase = "dispatch", !.now = 0] \in JobState
        /\ \A k \in Reminder : [s EXCEPT !.due = @ \ {k}] \in JobState
        /\ \A batch \in SUBSET Key, tries \in [Key -> Nat] :
             [s EXCEPT !.phase = "check", !.batch = batch, !.tries = tries] \in JobState
        /\ \A k \in Key : [s EXCEPT !.batch = @ \ {k}] \in JobState
        /\ \A k \in Key : [s EXCEPT !.phase = "call", !.key = k, !.disturbed = FALSE] \in JobState
        /\ \A result \in {"accepted", "transient", "permanent"} :
             [s EXCEPT !.phase = "record", !.result = result] \in JobState
        /\ \A k \in Key : [s EXCEPT !.phase = "check", !.batch = @ \ {k}, !.key = Nobody,
                                    !.result = "none"] \in JobState
        /\ [s EXCEPT !.disturbed = TRUE] \in JobState
        /\ [s EXCEPT !.age = @ + 1] \in JobState
<1>1. /\ [s EXCEPT !.phase = "dispatch", !.now = 0] \in JobState
      /\ [s EXCEPT !.disturbed = TRUE] \in JobState
  BY DEF JobState, Phase
<1>7. [s EXCEPT !.age = @ + 1] \in JobState
  <2>1. s.age + 1 \in Nat
    BY DEF JobState
  <2>2. \A n \in Nat : [s EXCEPT !.age = n] \in JobState
    BY DEF JobState
  <2> QED
    BY <2>1, <2>2
<1>2. /\ \A k \in Reminder : [s EXCEPT !.due = @ \ {k}] \in JobState
      /\ \A k \in Key : [s EXCEPT !.batch = @ \ {k}] \in JobState
  BY DEF JobState
<1>3. \A batch \in SUBSET Key, tries \in [Key -> Nat] :
        [s EXCEPT !.phase = "check", !.batch = batch, !.tries = tries] \in JobState
  BY DEF JobState, Phase
<1>4. \A k \in Key : [s EXCEPT !.phase = "call", !.key = k, !.disturbed = FALSE] \in JobState
  BY DEF JobState, Phase
<1>5. \A result \in {"accepted", "transient", "permanent"} :
        [s EXCEPT !.phase = "record", !.result = result] \in JobState
  BY DEF JobState, Phase
<1>6. \A k \in Key : [s EXCEPT !.phase = "check", !.batch = @ \ {k}, !.key = Nobody,
                               !.result = "none"] \in JobState
  BY DEF JobState, Phase
<1> QED
  BY <1>1, <1>2, <1>3, <1>4, <1>5, <1>6, <1>7

\* The fields an edit of a job leaves alone.
LEMMA JobFields ==
  ASSUME NEW s \in JobState
  PROVE /\ [s EXCEPT !.phase = "dispatch", !.now = 0].phase = "dispatch"
        /\ \A k \in Key : [s EXCEPT !.batch = @ \ {k}].phase = s.phase
        /\ LET t == [s EXCEPT !.disturbed = TRUE]
           IN t.phase = s.phase /\ t.key = s.key /\ t.batch = s.batch
        /\ LET t == [s EXCEPT !.age = @ + 1]
           IN t.phase = s.phase /\ t.key = s.key /\ t.batch = s.batch
BY DEF JobState

LEMMA PutType ==
  ASSUME TypeOK, NEW j \in Job, NEW s \in JobState,
         s.phase \in {"call", "record"} => s.key \in s.batch,
         Put(j, s)
  PROVE /\ job' \in [Job -> JobState]
        /\ \A i \in Job : job'[i].phase \in {"call", "record"} => job'[i].key \in job'[i].batch
BY DEF Put, TypeOK

-----------------------------------------------------------------------------
(* Type correctness.                                                       *)

LEMMA TypeInit == Init => TypeOK
<1> SUFFICES ASSUME Init PROVE TypeOK
  OBVIOUS
<1>1. row \in [Key -> RowState] /\ job \in [Job -> JobState]
  BY NoRowType, IdleType DEF Init
<1>2. \A j \in Job : job[j].phase = "idle"
  BY DEF Init, Idle
<1>3. visit \in [Visit -> [start : Start, coming : BOOLEAN]]
  BY DEF Init
<1> QED
  BY <1>1, <1>2, <1>3 DEF Init, TypeOK

LEMMA TypeStep == TypeOK /\ [Next]_vars => TypeOK'
<1> SUFFICES ASSUME TypeOK, [Next]_vars PROVE TypeOK'
  OBVIOUS
<1>0. \A j \in Job : job[j] \in JobState /\ job[j].batch \in SUBSET Key
  BY DEF TypeOK, JobState
<1>1. ASSUME NEW j \in Job, SweepStarts(j) PROVE TypeOK'
  <2> DEFINE s == [Idle EXCEPT !.phase = "sweep", !.now = clock, !.due = DueReminders]
  <2>1. DueReminders \in SUBSET Reminder
    BY DEF DueReminders
  <2>2. s \in JobState /\ s.phase = "sweep"
    BY <2>1, IdleType DEF JobState, Phase, TypeOK
  <2>3. Put(j, s)
    BY <1>1 DEF SweepStarts
  <2> HIDE DEF s
  <2> QED
    BY <1>1, <2>2, <2>3, PutType DEF SweepStarts, Same, World, TypeOK
<1>2. ASSUME NEW j \in Job, EnqueueReminder(j) PROVE TypeOK'
  <2>1. PICK k \in job[j].due :
          row' = enqueueNotification(k) /\ Put(j, [job[j] EXCEPT !.due = @ \ {k}])
    BY <1>2 DEF EnqueueReminder
  <2>2. k \in Reminder /\ k \in Key
    BY <1>0, <2>1 DEF JobState, Key
  <2>3. row' \in [Key -> RowState]
    BY <2>1, <2>2, EnqueueType
  <2>4. [job[j] EXCEPT !.due = @ \ {k}] \in JobState
    BY <1>0, <2>2, JobEdits
  <2>5. [job[j] EXCEPT !.due = @ \ {k}].phase = "sweep"
    BY <1>0, <1>2 DEF EnqueueReminder, JobState
  <2> QED
    BY <1>2, <2>1, <2>3, <2>4, <2>5, PutType DEF EnqueueReminder, Same, World, TypeOK
<1>3. ASSUME NEW j \in Job, Stamp(j) PROVE TypeOK'
  <2> DEFINE s == [job[j] EXCEPT !.phase = "dispatch", !.now = 0]
  <2>1. s \in JobState /\ s.phase = "dispatch"
    BY <1>0, JobEdits, JobFields
  <2>2. Put(j, s) /\ lastRunAt' \in Int
    BY <1>0, <1>3 DEF Stamp, JobState, TypeOK
  <2> HIDE DEF s
  <2> QED
    BY <1>3, <2>1, <2>2, PutType DEF Stamp, Same, World, TypeOK
<1>4. ASSUME NEW j \in Job, Halted(j) PROVE TypeOK'
  BY <1>4, IdleType, PutType DEF Halted, Same, World, Idle, TypeOK
<1>5. ASSUME NEW j \in Job, Claim(j) PROVE TypeOK'
  <2>1. PICK batch \in SUBSET Due :
          /\ row' = claim(batch)
          /\ Put(j, [job[j] EXCEPT !.phase = "check", !.batch = batch, !.tries = Tries(batch)])
    BY <1>5 DEF Claim
  <2>2. Tries(batch) \in [Key -> Nat]
    BY DEF RowState, TypeOK, Tries
  <2>3. batch \in SUBSET Key
    BY DueIsKeys
  <2>4. row' \in [Key -> RowState]
    BY <2>1, <2>3, ClaimType
  <2> DEFINE s == [job[j] EXCEPT !.phase = "check", !.batch = batch, !.tries = Tries(batch)]
  <2>5. s \in JobState
    BY <1>0, <2>2, <2>3, JobEdits
  <2>6. s.phase = "check"
    BY <1>0 DEF JobState
  <2>7. Put(j, s)
    BY <2>1
  <2> HIDE DEF s
  <2> QED
    BY <1>5, <2>4, <2>5, <2>6, <2>7, PutType DEF Claim, Same, World, TypeOK
<1>6. ASSUME NEW j \in Job, Check(j) PROVE TypeOK'
  <2>0. PICK k \in job[j].batch :
          \/ /\ Verdict(k) # "send"
             /\ Settle(k, Verdict(k), 0)
             /\ Put(j, [job[j] EXCEPT !.batch = @ \ {k}])
          \/ /\ Put(j, [job[j] EXCEPT !.phase = "call", !.key = k, !.disturbed = FALSE])
             /\ UNCHANGED row
    BY <1>6 DEF Check
  <2>1. k \in Key /\ job[j].phase = "check"
    BY <1>0, <1>6 DEF Check
  <2>2. CASE Verdict(k) # "send" /\ Settle(k, Verdict(k), 0)
             /\ Put(j, [job[j] EXCEPT !.batch = @ \ {k}])
    <3> DEFINE s == [job[j] EXCEPT !.batch = @ \ {k}]
    <3>1. Verdict(k) \in OutboxStatus
      BY <2>2 DEF Verdict, OutboxStatus
    <3>2. row' \in [Key -> RowState]
      BY <2>1, <2>2, <3>1, SettleType
    <3>3. s \in JobState /\ s.phase = "check" /\ Put(j, s)
      BY <1>0, <2>1, <2>2, JobEdits, JobFields
    <3> HIDE DEF s
    <3> QED
      BY <1>6, <3>2, <3>3, PutType DEF Check, Same, World, TypeOK
  <2>3. CASE /\ Put(j, [job[j] EXCEPT !.phase = "call", !.key = k, !.disturbed = FALSE])
             /\ UNCHANGED row
    <3> DEFINE s == [job[j] EXCEPT !.phase = "call", !.key = k, !.disturbed = FALSE]
    <3>1. s \in JobState /\ Put(j, s)
      BY <1>0, <2>1, <2>3, JobEdits
    <3>2. s.key \in s.batch
      BY <1>0 DEF JobState
    <3> HIDE DEF s
    <3> QED
      BY <1>6, <2>3, <3>1, <3>2, PutType DEF Check, Same, World, TypeOK
  <2> QED
    BY <2>0, <2>2, <2>3
<1>7. ASSUME NEW j \in Job, NEW result \in {"accepted", "transient", "permanent"},
             job[j].phase = "call",
             Put(j, [job[j] EXCEPT !.phase = "record", !.result = result])
      PROVE /\ job' \in [Job -> JobState]
            /\ \A i \in Job :
                 job'[i].phase \in {"call", "record"} => job'[i].key \in job'[i].batch
            /\ job[j].key \in Key
  <2> DEFINE s == [job[j] EXCEPT !.phase = "record", !.result = result]
  <2>1. s \in JobState /\ Put(j, s)
    BY <1>0, <1>7, JobEdits
  <2>2. job[j].key \in job[j].batch
    BY <1>7 DEF TypeOK
  <2>3. s.key \in s.batch
    BY <1>0, <2>2 DEF JobState
  <2> HIDE DEF s
  <2> QED
    BY <1>0, <2>1, <2>2, <2>3, PutType
<1>8. ASSUME NEW j \in Job, Send(j) PROVE TypeOK'
  <2>1. PICK result \in {"accepted", "transient", "permanent"} :
          /\ Put(j, [job[j] EXCEPT !.phase = "record", !.result = result])
          /\ delivered' = IF result = "accepted"
                          THEN [delivered EXCEPT ![job[j].key] = @ + 1]
                          ELSE delivered
    BY <1>8 DEF Send
  <2>2. /\ job' \in [Job -> JobState]
        /\ \A i \in Job : job'[i].phase \in {"call", "record"} => job'[i].key \in job'[i].batch
        /\ job[j].key \in Key
    BY <1>7, <1>8, <2>1 DEF Send
  <2>3. delivered' \in [Key -> Nat]
    BY <2>1, <2>2 DEF TypeOK
  <2> QED
    BY <1>8, <2>2, <2>3 DEF Send, World, TypeOK
<1>9. ASSUME NEW j \in Job, AnswerLost(j) PROVE TypeOK'
  <2>1. /\ job' \in [Job -> JobState]
        /\ \A i \in Job : job'[i].phase \in {"call", "record"} => job'[i].key \in job'[i].batch
        /\ job[j].key \in Key
    BY <1>7, <1>9 DEF AnswerLost
  <2>2. delivered' \in [Key -> Nat] /\ unknown' \in [Key -> Nat] /\ upsets' \in Nat
    BY <1>9, <2>1 DEF AnswerLost, TypeOK
  <2> QED
    BY <1>9, <2>1, <2>2 DEF AnswerLost, World, TypeOK
<1>10. ASSUME NEW j \in Job, Record(j) PROVE TypeOK'
  <2> DEFINE k == job[j].key
             delay == retryDelay(job[j].tries[k])
             s == [job[j] EXCEPT !.phase = "check", !.batch = @ \ {k}, !.key = Nobody,
                                 !.result = "none"]
  <2>1. k \in Key
    BY <1>0, <1>10 DEF Record, TypeOK
  <2>2. job[j].tries[k] \in Nat /\ row[k].claimAge \in Nat
    BY <1>0, <2>1 DEF JobState, RowState, TypeOK
  <2>3. NotNegative(delay - row[k].claimAge) \in Nat
    BY <2>2, RetryDelayType, NotNegativeNat
  <2>4. PICK status \in OutboxStatus, wait \in Nat : Settle(k, status, wait)
    <3>1. \/ Settle(k, "sent", 0) \/ Settle(k, "failed", 0)
          \/ Settle(k, "pending", NotNegative(delay - row[k].claimAge))
      BY <1>10 DEF Record
    <3> HIDE DEF k, delay
    <3> QED
      BY <2>3, <3>1 DEF OutboxStatus
  <2>5. row' \in [Key -> RowState]
    BY <2>1, <2>4, SettleType
  <2>6. s \in JobState /\ Put(j, s)
    BY <1>0, <1>10, <2>1, JobEdits DEF Record
  <2>7. s.phase = "check"
    BY <1>0 DEF JobState
  <2> HIDE DEF s, k, delay
  <2> QED
    BY <1>10, <2>5, <2>6, <2>7, PutType DEF Record, Same, World, TypeOK
<1>11. ASSUME NEW j \in Job, Finish(j) PROVE TypeOK'
  BY <1>11, IdleType, PutType DEF Finish, Same, World, Idle, TypeOK
<1>12. ASSUME NEW j \in Job, Crash(j) PROVE TypeOK'
  <2>1. job[j].phase = "record" => job[j].key \in Key
    BY <1>0 DEF TypeOK
  <2>2. unknown' \in [Key -> Nat]
    BY <1>12, <2>1 DEF Crash, TypeOK
  <2> QED
    BY <1>12, <2>2, IdleType, PutType DEF Crash, World, Idle, TypeOK
<1>13. ASSUME NEW k \in Notice, Enqueue(k) PROVE TypeOK'
  BY <1>13, EnqueueType DEF Enqueue, Same, World, Key, TypeOK
<1>14. ASSUME NEW k \in Key, retryNotification(k) PROVE TypeOK'
  <2>1. \A r \in RowState :
          [r EXCEPT !.status = "pending", !.attempts = 0, !.wait = 0] \in RowState
    BY DEF RowState, OutboxStatus
  <2>2. row' = [row EXCEPT ![k] = [row[k] EXCEPT !.status = "pending", !.attempts = 0, !.wait = 0]]
    BY <1>14 DEF retryNotification
  <2>3. row' \in [Key -> RowState]
    BY <2>1, <2>2 DEF TypeOK
  <2> QED
    BY <1>14, <2>3 DEF retryNotification, World, TypeOK
<1>15. ASSUME NEW v \in Visit, VisitChanges(v) PROVE TypeOK'
  <2>1. \A i \in Job : job'[i] = job[i] \/ job'[i] = [job[i] EXCEPT !.disturbed = TRUE]
    BY <1>15 DEF VisitChanges
  <2>2. \A i \in Job : /\ job'[i] \in JobState
                       /\ job'[i].phase = job[i].phase
                       /\ job'[i].key = job[i].key
                       /\ job'[i].batch = job[i].batch
    BY <1>0, <2>1, JobEdits, JobFields
  <2>3. job' \in [Job -> JobState]
    BY <1>15, <2>2 DEF VisitChanges
  <2> QED
    BY <1>15, <2>2, <2>3 DEF VisitChanges, TypeOK
<1>16. ASSUME FlipKillSwitch PROVE TypeOK'
  BY <1>16 DEF FlipKillSwitch, TypeOK
<1>17. ASSUME Tick PROVE TypeOK'
  <2>1. \A r \in RowState, wait \in Nat, age \in Nat :
          [r EXCEPT !.wait = wait, !.claimAge = age] \in RowState
    BY DEF RowState
  <2>2. row' \in [Key -> RowState]
    <3>1. ASSUME NEW k \in Key
          PROVE [row[k] EXCEPT
                   !.wait = NotNegative(@ - 1),
                   !.claimAge = IF row[k].status = "sending" /\ @ <= StaleClaim
                                THEN @ + 1 ELSE @] \in RowState
      <4>1. row[k] \in RowState /\ row[k].wait \in Nat /\ row[k].claimAge \in Nat
        BY DEF TypeOK, RowState
      <4>2. NotNegative(row[k].wait - 1) \in Nat
        BY <4>1, NotNegativeNat
      <4>3. (IF row[k].status = "sending" /\ row[k].claimAge <= StaleClaim
             THEN row[k].claimAge + 1 ELSE row[k].claimAge) \in Nat
        BY <4>1
      <4> QED
        BY <2>1, <4>1, <4>2, <4>3
    <3> QED
      BY <1>17, <3>1 DEF Tick
  <2>3. \A i \in Job : job'[i] = job[i] \/ job'[i] = [job[i] EXCEPT !.age = @ + 1]
    BY <1>17 DEF Tick
  <2>4. \A i \in Job : /\ job'[i] \in JobState
                       /\ job'[i].phase = job[i].phase
                       /\ job'[i].key = job[i].key
                       /\ job'[i].batch = job[i].batch
    BY <1>0, <2>3, JobEdits, JobFields
  <2>5. job' \in [Job -> JobState]
    BY <1>17, <2>4 DEF Tick
  <2>6. \A i \in Job : job'[i].phase \in {"call", "record"} => job'[i].key \in job'[i].batch
    BY <2>4 DEF TypeOK
  <2>7. clock' \in Nat
    <3>1. clock \in Nat
      BY DEF TypeOK
    <3>2. clock' = clock + 1 \/ clock' = clock
      BY <1>17 DEF Tick
    <3> QED
      BY <3>1, <3>2
  <2> QED
    BY <1>17, <2>2, <2>5, <2>6, <2>7 DEF Tick, Same, TypeOK
<1>18. CASE UNCHANGED vars
  BY <1>18 DEF vars, TypeOK
<1> QED
  BY <1>1, <1>2, <1>3, <1>4, <1>5, <1>6, <1>8, <1>9, <1>10, <1>11, <1>12,
     <1>13, <1>14, <1>15, <1>16, <1>17, <1>18 DEF Next, JobStep

-----------------------------------------------------------------------------
(* What the three ways of writing rows do to the others.                   *)

LEMMA EnqueueRows ==
  ASSUME TypeOK, NEW k \in Key, NEW other \in Key
  PROVE /\ row[other] # NoRow => enqueueNotification(k)[other] = row[other]
        /\ enqueueNotification(k)[other].status = "sent" <=> row[other].status = "sent"
BY DEF enqueueNotification, TypeOK, NoRow

LEMMA ClaimRows ==
  ASSUME TypeOK, NEW batch \in SUBSET Due, NEW k \in Key
  PROVE /\ k \notin batch => claim(batch)[k] = row[k]
        /\ k \in batch => /\ claim(batch)[k].status = "sending"
                          /\ claim(batch)[k].claimAge = 0
        /\ claim(batch)[k].status = "sent" <=> row[k].status = "sent"
<1>1. row[k] \in RowState
  BY DEF TypeOK
<1>2. k \in batch => row[k].status # "sent"
  BY DEF Due
<1> QED
  BY <1>1, <1>2 DEF claim, RowState

LEMMA SettleRows ==
  ASSUME TypeOK, NEW k \in Key, NEW status, NEW wait, Settle(k, status, wait)
  PROVE /\ row'[k].status = status
        /\ \A other \in Key \ {k} : row'[other] = row[other]
BY DEF Settle, TypeOK, RowState

LEMMA PutJobs ==
  ASSUME TypeOK, NEW j \in Job, NEW s, Put(j, s)
  PROVE job'[j] = s /\ \A i \in Job \ {j} : job'[i] = job[i]
BY DEF Put, TypeOK

\* A message in somebody's hands is not due.
LEMMA HeldIsNotDue ==
  ASSUME ClaimInv, NEW i \in Job, NEW k \in job[i].batch
  PROVE k \notin Due /\ k \in Key
<1>1. k \in Key
  BY DEF ClaimInv, TypeOK, JobState
<1>2. row[k].status = "sending" /\ row[k].claimAge <= job[i].age /\ job[i].age <= RunBound
  BY DEF ClaimInv, HeldIsClaimed, JobsAreBounded
<1>3. row[k].claimAge \in Nat /\ job[i].age \in Nat
  BY <1>1 DEF ClaimInv, TypeOK, JobState, RowState
<1>4. row[k].claimAge <= StaleClaim
  BY <1>2, <1>3, OutboxAssumption, RunBoundAssumption
<1> QED
  BY <1>1, <1>2, <1>3, <1>4, OutboxAssumption DEF Due

\* A step that takes nothing into a job's hands and leaves what is in any hands
\* alone.
LEMMA NothingTaken ==
  ASSUME ClaimInv, NEW j \in Job, NEW s,
         Put(j, s),
         s.batch \subseteq job[j].batch,
         s.age \in {0, job[j].age},
         s.batch # {} => s.age = job[j].age,
         s.phase \in {"idle", "sweep", "dispatch"} => s.batch = {},
         \A i \in Job : \A k \in job'[i].batch : row'[k] = row[k]
  PROVE HeldIsClaimed' /\ JobsAreBounded' /\ HoldsOnlyWhileSending' /\ OneHolder'
<1>1. job'[j] = s /\ \A i \in Job \ {j} : job'[i] = job[i]
  BY PutJobs DEF ClaimInv
<1>2. \A i \in Job : job'[i].batch \subseteq job[i].batch
  BY <1>1
<1>3. HeldIsClaimed'
  BY <1>1, <1>2 DEF HeldIsClaimed, ClaimInv
<1>4. JobsAreBounded'
  BY <1>1, OutboxAssumption DEF JobsAreBounded, ClaimInv
<1>5. HoldsOnlyWhileSending'
  BY <1>1 DEF HoldsOnlyWhileSending, ClaimInv
<1>6. OneHolder'
  BY <1>2 DEF OneHolder, ClaimInv
<1> QED
  BY <1>3, <1>4, <1>5, <1>6

-----------------------------------------------------------------------------
(* The claims: one step.                                                   *)

LEMMA ClaimStep == ClaimInv /\ [Next]_vars => ClaimInv'
<1> SUFFICES ASSUME ClaimInv, [Next]_vars PROVE ClaimInv'
  OBVIOUS
<1>0. TypeOK'
  BY TypeStep DEF ClaimInv
<1>a. TypeOK /\ \A j \in Job : job[j] \in JobState
  BY DEF ClaimInv, TypeOK
<1> DEFINE Goal == HeldIsClaimed' /\ JobsAreBounded' /\ HoldsOnlyWhileSending' /\ OneHolder'
<1>b. ASSUME NEW j \in Job, Put(j, Idle), UNCHANGED row PROVE Goal
  <2>1. Idle.batch = {} /\ Idle.age = 0
    BY DEF Idle
  <2> QED
    BY <1>b, <2>1, NothingTaken
<1>1. ASSUME NEW j \in Job, SweepStarts(j) PROVE Goal
  <2> DEFINE s == [Idle EXCEPT !.phase = "sweep", !.now = clock, !.due = DueReminders]
  <2>1. s.batch = {} /\ s.age = 0 /\ Put(j, s) /\ UNCHANGED row
    BY <1>1 DEF SweepStarts, Idle
  <2> HIDE DEF s
  <2> QED
    BY <2>1, NothingTaken
<1>2. ASSUME NEW j \in Job, EnqueueReminder(j) PROVE Goal
  <2>1. PICK k \in job[j].due :
          row' = enqueueNotification(k) /\ Put(j, [job[j] EXCEPT !.due = @ \ {k}])
    BY <1>2 DEF EnqueueReminder
  <2> DEFINE s == [job[j] EXCEPT !.due = @ \ {k}]
  <2>2. /\ s.batch = job[j].batch /\ s.age = job[j].age /\ s.phase = job[j].phase
        /\ Put(j, s) /\ k \in Key
    BY <1>a, <2>1 DEF JobState, Key
  <2>3. \A i \in Job : job'[i].batch = job[i].batch
    BY <1>a, <2>2, PutJobs
  <2>4. ASSUME NEW i \in Job, NEW other \in job'[i].batch PROVE row'[other] = row[other]
    <3>1. other \in Key /\ row[other].status = "sending"
      BY <2>3, <2>4, HeldIsNotDue DEF ClaimInv, HeldIsClaimed
    <3> QED
      BY <1>a, <2>1, <2>2, <3>1, EnqueueRows DEF NoRow
  <2>5. s.phase \in {"idle", "sweep", "dispatch"} => s.batch = {}
    BY <2>2 DEF ClaimInv, HoldsOnlyWhileSending
  <2> HIDE DEF s
  <2> QED
    BY <2>2, <2>4, <2>5, NothingTaken
<1>3. ASSUME NEW j \in Job, Stamp(j) PROVE Goal
  <2> DEFINE s == [job[j] EXCEPT !.phase = "dispatch", !.now = 0]
  <2>1. job[j].batch = {}
    BY <1>3 DEF Stamp, ClaimInv, HoldsOnlyWhileSending
  <2>2. s.batch = {} /\ s.age = job[j].age /\ Put(j, s) /\ UNCHANGED row
    BY <1>3, <1>a, <2>1 DEF Stamp, JobState
  <2> HIDE DEF s
  <2> QED
    BY <2>2, NothingTaken
<1>4. ASSUME NEW j \in Job, Halted(j) PROVE Goal
  BY <1>4, <1>b DEF Halted
<1>5. ASSUME NEW j \in Job, Claim(j) PROVE Goal
  <2>1. PICK batch \in SUBSET Due :
          /\ row' = claim(batch)
          /\ Put(j, [job[j] EXCEPT !.phase = "check", !.batch = batch, !.tries = Tries(batch)])
    BY <1>5 DEF Claim
  <2> DEFINE s == [job[j] EXCEPT !.phase = "check", !.batch = batch, !.tries = Tries(batch)]
  <2>2. s.batch = batch /\ s.age = job[j].age /\ s.phase = "check"
    BY <1>a DEF JobState
  <2>3. job'[j] = s /\ \A i \in Job \ {j} : job'[i] = job[i]
    BY <1>a, <2>1, PutJobs
  <2> HIDE DEF s
  <2>4. \A i \in Job : \A k \in job[i].batch : k \notin batch /\ k \in Key
    BY HeldIsNotDue
  <2>5. HeldIsClaimed'
    <3>1. ASSUME NEW k \in batch
          PROVE row'[k].status = "sending" /\ row'[k].claimAge <= job'[j].age
      <4>1. k \in Key /\ job[j].age \in Nat
        BY <1>a, DueIsKeys DEF JobState
      <4>2. row'[k].status = "sending" /\ row'[k].claimAge = 0
        BY <1>a, <2>1, <4>1, ClaimRows
      <4> QED
        BY <2>2, <2>3, <4>1, <4>2
    <3>2. ASSUME NEW i \in Job \ {j}, NEW k \in job[i].batch PROVE row'[k] = row[k]
      BY <1>a, <2>1, <2>4, ClaimRows
    <3> QED
      BY <2>2, <2>3, <3>1, <3>2 DEF HeldIsClaimed, ClaimInv
  <2>6. JobsAreBounded'
    BY <2>2, <2>3 DEF JobsAreBounded, ClaimInv
  <2>7. HoldsOnlyWhileSending'
    BY <2>2, <2>3 DEF HoldsOnlyWhileSending, ClaimInv
  <2>8. OneHolder'
    BY <2>2, <2>3, <2>4 DEF OneHolder, ClaimInv
  <2> QED
    BY <2>5, <2>6, <2>7, <2>8
<1>6. ASSUME NEW j \in Job, NEW k \in job[j].batch, NEW s,
             NEW status, NEW wait,
             Settle(k, status, wait), Put(j, s),
             s.batch = job[j].batch \ {k}, s.age = job[j].age, s.phase = "check"
      PROVE Goal
  <2>1. k \in Key
    BY HeldIsNotDue
  <2>2. job'[j] = s /\ \A i \in Job \ {j} : job'[i] = job[i]
    BY <1>6, <1>a, PutJobs
  <2>3. \A i \in Job : job'[i].batch \subseteq job[i].batch \ {k}
    BY <1>6, <2>2 DEF ClaimInv, OneHolder
  <2>4. \A i \in Job : \A other \in job'[i].batch : other \in Key \ {k}
    BY <2>3, HeldIsNotDue
  <2>5. \A i \in Job : \A other \in job'[i].batch : row'[other] = row[other]
    BY <1>6, <1>a, <2>1, <2>4, SettleRows
  <2> QED
    BY <1>6, <2>5, NothingTaken
<1>7. ASSUME NEW j \in Job, Check(j) PROVE Goal
  <2>0. PICK k \in job[j].batch :
          \/ /\ Verdict(k) # "send"
             /\ Settle(k, Verdict(k), 0)
             /\ Put(j, [job[j] EXCEPT !.batch = @ \ {k}])
          \/ /\ Put(j, [job[j] EXCEPT !.phase = "call", !.key = k, !.disturbed = FALSE])
             /\ UNCHANGED row
    BY <1>7 DEF Check
  <2>1. CASE /\ Settle(k, Verdict(k), 0)
             /\ Put(j, [job[j] EXCEPT !.batch = @ \ {k}])
    <3> DEFINE s == [job[j] EXCEPT !.batch = @ \ {k}]
    <3>1. s.batch = job[j].batch \ {k} /\ s.age = job[j].age /\ s.phase = "check" /\ Put(j, s)
      BY <1>7, <1>a, <2>1 DEF JobState, Check
    <3> HIDE DEF s
    <3> QED
      BY <1>6, <2>1, <3>1
  <2>2. CASE /\ Put(j, [job[j] EXCEPT !.phase = "call", !.key = k, !.disturbed = FALSE])
             /\ UNCHANGED row
    <3> DEFINE s == [job[j] EXCEPT !.phase = "call", !.key = k, !.disturbed = FALSE]
    <3>1. s.batch = job[j].batch /\ s.age = job[j].age /\ s.phase = "call" /\ Put(j, s)
      BY <1>a, <2>2 DEF JobState
    <3> HIDE DEF s
    <3> QED
      BY <2>2, <3>1, NothingTaken
  <2> QED
    BY <2>0, <2>1, <2>2
<1>8. ASSUME NEW j \in Job, NEW result,
             Put(j, [job[j] EXCEPT !.phase = "record", !.result = result]), UNCHANGED row
      PROVE Goal
  <2> DEFINE s == [job[j] EXCEPT !.phase = "record", !.result = result]
  <2>1. s.batch = job[j].batch /\ s.age = job[j].age /\ s.phase = "record" /\ Put(j, s)
    BY <1>8, <1>a DEF JobState
  <2> HIDE DEF s
  <2> QED
    BY <1>8, <2>1, NothingTaken
<1>9. ASSUME NEW j \in Job, Send(j) PROVE Goal
  BY <1>8, <1>9 DEF Send
<1>10. ASSUME NEW j \in Job, AnswerLost(j) PROVE Goal
  BY <1>8, <1>10 DEF AnswerLost
<1>11. ASSUME NEW j \in Job, Record(j) PROVE Goal
  <2> DEFINE k == job[j].key
             s == [job[j] EXCEPT !.phase = "check", !.batch = @ \ {k}, !.key = Nobody,
                                 !.result = "none"]
  <2>1. PICK status, wait : Settle(k, status, wait)
    BY <1>11 DEF Record
  <2>2. k \in job[j].batch /\ Put(j, s)
    BY <1>11, <1>a DEF Record, TypeOK
  <2>3. s.batch = job[j].batch \ {k} /\ s.age = job[j].age /\ s.phase = "check"
    BY <1>a DEF JobState
  <2> HIDE DEF s, k
  <2> QED
    BY <1>6, <2>1, <2>2, <2>3
<1>12. ASSUME NEW j \in Job, Finish(j) PROVE Goal
  BY <1>12, <1>b DEF Finish
<1>13. ASSUME NEW j \in Job, Crash(j) PROVE Goal
  BY <1>13, <1>b DEF Crash
<1>14. ASSUME UNCHANGED job,
              \A i \in Job : \A k \in job[i].batch : row'[k] = row[k]
       PROVE Goal
  BY <1>14 DEF ClaimInv, HeldIsClaimed, JobsAreBounded, HoldsOnlyWhileSending, OneHolder
<1>15. ASSUME NEW k \in Notice, Enqueue(k) PROVE Goal
  <2>1. \A i \in Job : \A other \in job[i].batch :
          other \in Key /\ row[other].status = "sending"
    BY HeldIsNotDue DEF ClaimInv, HeldIsClaimed
  <2>2. \A i \in Job : \A other \in job[i].batch : row'[other] = row[other]
    BY <1>15, <1>a, <2>1, EnqueueRows DEF Enqueue, NoRow, Key
  <2> QED
    BY <1>14, <1>15, <2>2 DEF Enqueue
<1>16. ASSUME NEW k \in Key, retryNotification(k) PROVE Goal
  <2>1. \A i \in Job : \A other \in job[i].batch :
          other \in Key /\ row[other].status = "sending"
    BY HeldIsNotDue DEF ClaimInv, HeldIsClaimed
  <2>2. \A i \in Job : \A other \in job[i].batch : row'[other] = row[other]
    BY <1>16, <1>a, <2>1 DEF retryNotification, TypeOK
  <2> QED
    BY <1>14, <1>16, <2>2 DEF retryNotification
<1>17. ASSUME NEW v \in Visit, VisitChanges(v) PROVE Goal
  <2>1. \A i \in Job : job'[i] = job[i] \/ job'[i] = [job[i] EXCEPT !.disturbed = TRUE]
    BY <1>17 DEF VisitChanges
  <2>2. \A i \in Job : /\ job'[i].phase = job[i].phase
                       /\ job'[i].age = job[i].age
                       /\ job'[i].batch = job[i].batch
    BY <1>a, <2>1 DEF JobState
  <2>3. UNCHANGED row
    BY <1>17 DEF VisitChanges
  <2> QED
    BY <2>2, <2>3 DEF ClaimInv, HeldIsClaimed, JobsAreBounded, HoldsOnlyWhileSending, OneHolder
<1>18. ASSUME FlipKillSwitch PROVE Goal
  BY <1>14, <1>18 DEF FlipKillSwitch
<1>19. ASSUME Tick PROVE Goal
  <2>1. \A i \in Job : /\ job'[i] = IF job[i].phase = "idle" THEN job[i]
                                    ELSE [job[i] EXCEPT !.age = @ + 1]
    BY <1>19 DEF Tick
  <2>2. \A i \in Job : /\ job'[i].phase = job[i].phase
                       /\ job'[i].batch = job[i].batch
                       /\ job[i].age \in Nat
                       /\ job'[i].age = IF job[i].phase = "idle" THEN job[i].age
                                        ELSE job[i].age + 1
    BY <1>a, <2>1 DEF JobState
  <2>3. JobsAreBounded'
    <3>1. \A i \in Job : job[i].phase # "idle" => job[i].age < RunBound
      BY <1>19 DEF Tick
    <3> QED
      BY <2>2, <3>1, OutboxAssumption DEF JobsAreBounded, ClaimInv
  <2>4. ASSUME NEW i \in Job, NEW k \in job[i].batch
        PROVE row'[k].status = "sending" /\ row'[k].claimAge <= job[i].age + 1
    <3>1. k \in Key /\ row[k] \in RowState
      BY <1>a, HeldIsNotDue DEF TypeOK
    <3>2. row[k].status = "sending" /\ row[k].claimAge <= job[i].age /\ row[k].claimAge \in Nat
      BY <3>1 DEF ClaimInv, HeldIsClaimed, RowState
    <3>3. /\ row'[k].status = row[k].status
          /\ row'[k].claimAge = row[k].claimAge \/ row'[k].claimAge = row[k].claimAge + 1
      BY <1>19, <3>1 DEF Tick, RowState
    <3> QED
      BY <2>2, <3>2, <3>3
  <2>5. HeldIsClaimed'
    BY <2>2, <2>4 DEF HeldIsClaimed, ClaimInv, HoldsOnlyWhileSending
  <2>6. HoldsOnlyWhileSending' /\ OneHolder'
    BY <2>2 DEF HoldsOnlyWhileSending, OneHolder, ClaimInv
  <2> QED
    BY <2>3, <2>5, <2>6
<1>20. ASSUME UNCHANGED vars PROVE Goal
  BY <1>14, <1>20 DEF vars
<1>21. Goal
  BY <1>1, <1>2, <1>3, <1>4, <1>5, <1>7, <1>9, <1>10, <1>11, <1>12, <1>13, <1>15,
     <1>16, <1>17, <1>18, <1>19, <1>20 DEF Next, JobStep
<1> QED
  BY <1>0, <1>21 DEF ClaimInv

-----------------------------------------------------------------------------
(* The acceptances: one step.                                              *)

\* Nothing about the answers to any message changes.
LEMMA AnswersUntouched ==
  ASSUME AnswersAreCounted,
         delivered' = delivered, unknown' = unknown,
         \A k \in Key : row'[k].status = "sent" <=> row[k].status = "sent",
         \A j \in Job : \A k \in Key : Accepted(j, k)' <=> Accepted(j, k)
  PROVE AnswersAreCounted'
BY DEF AnswersAreCounted

\* A job that is about to call, or that waits to write an answer down, is alone
\* with its message, and the message has not been sent.
LEMMA AloneWithIt ==
  ASSUME ClaimInv, NEW j \in Job, job[j].phase \in {"call", "record"}
  PROVE /\ job[j].key \in job[j].batch /\ job[j].key \in Key
        /\ row[job[j].key].status = "sending"
        /\ \A i \in Job \ {j} : ~Accepted(i, job[j].key)
<1>1. job[j].key \in job[j].batch
  BY DEF ClaimInv, TypeOK
<1>2. job[j].key \in Key
  BY <1>1, HeldIsNotDue
<1>3. row[job[j].key].status = "sending"
  BY <1>1 DEF ClaimInv, HeldIsClaimed
<1>4. ASSUME NEW i \in Job \ {j}, Accepted(i, job[j].key) PROVE FALSE
  <2>1. job[j].key \in job[i].batch
    BY <1>4 DEF Accepted, ClaimInv, TypeOK
  <2> QED
    BY <1>1, <2>1 DEF ClaimInv, OneHolder
<1> QED
  BY <1>1, <1>2, <1>3, <1>4

LEMMA AnswerStep == ClaimInv /\ AnswersAreCounted /\ [Next]_vars => AnswersAreCounted'
<1> SUFFICES ASSUME ClaimInv, AnswersAreCounted, [Next]_vars PROVE AnswersAreCounted'
  OBVIOUS
<1>a. TypeOK /\ \A j \in Job : job[j] \in JobState
  BY DEF ClaimInv, TypeOK
\* A step of one job that neither begins nor ends with an acceptance in hand.
<1>b. ASSUME NEW j \in Job, NEW s, Put(j, s), UNCHANGED <<delivered, unknown>>,
             job[j].phase # "record", s.phase # "record",
             \A k \in Key : row'[k].status = "sent" <=> row[k].status = "sent"
      PROVE AnswersAreCounted'
  <2>1. job'[j] = s /\ \A i \in Job \ {j} : job'[i] = job[i]
    BY <1>a, <1>b, PutJobs
  <2>2. \A i \in Job : \A k \in Key : Accepted(i, k)' <=> Accepted(i, k)
    BY <1>b, <2>1 DEF Accepted
  <2> QED
    BY <1>b, <2>2, AnswersUntouched
<1>1. ASSUME NEW j \in Job, SweepStarts(j) PROVE AnswersAreCounted'
  <2> DEFINE s == [Idle EXCEPT !.phase = "sweep", !.now = clock, !.due = DueReminders]
  <2>1. s.phase = "sweep" /\ Put(j, s)
    BY <1>1 DEF SweepStarts, Idle
  <2> HIDE DEF s
  <2> QED
    BY <1>1, <1>b, <2>1 DEF SweepStarts, Same
<1>2. ASSUME NEW j \in Job, EnqueueReminder(j) PROVE AnswersAreCounted'
  <2>1. PICK k \in job[j].due :
          row' = enqueueNotification(k) /\ Put(j, [job[j] EXCEPT !.due = @ \ {k}])
    BY <1>2 DEF EnqueueReminder
  <2> DEFINE s == [job[j] EXCEPT !.due = @ \ {k}]
  <2>2. s.phase = "sweep" /\ Put(j, s) /\ k \in Key
    BY <1>2, <1>a, <2>1 DEF JobState, Key, EnqueueReminder
  <2>3. \A o \in Key : row'[o].status = "sent" <=> row[o].status = "sent"
    BY <1>a, <2>1, <2>2, EnqueueRows
  <2> HIDE DEF s
  <2> QED
    BY <1>2, <1>b, <2>2, <2>3 DEF EnqueueReminder, Same
<1>3. ASSUME NEW j \in Job, Stamp(j) PROVE AnswersAreCounted'
  <2> DEFINE s == [job[j] EXCEPT !.phase = "dispatch", !.now = 0]
  <2>1. s.phase = "dispatch" /\ Put(j, s)
    BY <1>3, <1>a DEF Stamp, JobState
  <2> HIDE DEF s
  <2> QED
    BY <1>3, <1>b, <2>1 DEF Stamp, Same
<1>4. ASSUME NEW j \in Job, Halted(j) PROVE AnswersAreCounted'
  BY <1>4, <1>b DEF Halted, Same, Idle
<1>5. ASSUME NEW j \in Job, Claim(j) PROVE AnswersAreCounted'
  <2>1. PICK batch \in SUBSET Due :
          /\ row' = claim(batch)
          /\ Put(j, [job[j] EXCEPT !.phase = "check", !.batch = batch, !.tries = Tries(batch)])
    BY <1>5 DEF Claim
  <2> DEFINE s == [job[j] EXCEPT !.phase = "check", !.batch = batch, !.tries = Tries(batch)]
  <2>2. s.phase = "check" /\ Put(j, s)
    BY <1>a, <2>1 DEF JobState
  <2>3. \A o \in Key : row'[o].status = "sent" <=> row[o].status = "sent"
    BY <1>a, <2>1, ClaimRows
  <2> HIDE DEF s
  <2> QED
    BY <1>5, <1>b, <2>2, <2>3 DEF Claim, Same
<1>6. ASSUME NEW j \in Job, Check(j) PROVE AnswersAreCounted'
  <2>0. PICK k \in job[j].batch :
          \/ /\ Verdict(k) # "send"
             /\ Settle(k, Verdict(k), 0)
             /\ Put(j, [job[j] EXCEPT !.batch = @ \ {k}])
          \/ /\ Put(j, [job[j] EXCEPT !.phase = "call", !.key = k, !.disturbed = FALSE])
             /\ UNCHANGED row
    BY <1>6 DEF Check
  <2>1. CASE /\ Verdict(k) # "send"
             /\ Settle(k, Verdict(k), 0)
             /\ Put(j, [job[j] EXCEPT !.batch = @ \ {k}])
    <3> DEFINE s == [job[j] EXCEPT !.batch = @ \ {k}]
    <3>1. s.phase = "check" /\ Put(j, s)
      BY <1>6, <1>a, <2>1 DEF JobState, Check
    <3>2. k \in Key /\ row[k].status = "sending" /\ Verdict(k) # "sent"
      BY HeldIsNotDue DEF ClaimInv, HeldIsClaimed, Verdict
    <3>3. \A o \in Key : row'[o].status = "sent" <=> row[o].status = "sent"
      BY <1>a, <2>1, <3>2, SettleRows
    <3> HIDE DEF s
    <3> QED
      BY <1>6, <1>b, <3>1, <3>3 DEF Check, Same
  <2>2. CASE /\ Put(j, [job[j] EXCEPT !.phase = "call", !.key = k, !.disturbed = FALSE])
             /\ UNCHANGED row
    <3> DEFINE s == [job[j] EXCEPT !.phase = "call", !.key = k, !.disturbed = FALSE]
    <3>1. s.phase = "call" /\ Put(j, s)
      BY <1>a, <2>2 DEF JobState
    <3> HIDE DEF s
    <3> QED
      BY <1>6, <1>b, <2>2, <3>1 DEF Check, Same
  <2> QED
    BY <2>0, <2>1, <2>2
<1>7. ASSUME NEW j \in Job, job[j].phase = "call",
             NEW result \in {"accepted", "transient", "permanent"},
             Put(j, [job[j] EXCEPT !.phase = "record", !.result = result])
      PROVE \E k \in Key :
              /\ k = job[j].key /\ row[k].status # "sent" /\ delivered[k] = unknown[k]
              /\ Accepted(j, k)' <=> result = "accepted"
              /\ \A o \in Key \ {k} : ~Accepted(j, o)' /\ ~Accepted(j, o)
              /\ \A i \in Job \ {j} : ~Accepted(i, k)' /\ ~Accepted(i, k)
              /\ \A i \in Job \ {j}, o \in Key : Accepted(i, o)' <=> Accepted(i, o)
  <2> DEFINE s == [job[j] EXCEPT !.phase = "record", !.result = result]
  <2>0. PICK k : k = job[j].key
    OBVIOUS
  <2>1. s.phase = "record" /\ s.result = result /\ s.key = k
    BY <2>0, <1>a DEF JobState
  <2>2. job'[j] = s /\ \A i \in Job \ {j} : job'[i] = job[i]
    BY <1>7, <1>a, PutJobs
  <2> HIDE DEF s
  <2>3. /\ k \in Key /\ row[k].status = "sending"
        /\ \A i \in Job \ {j} : ~Accepted(i, k)
    BY <1>7, <2>0, AloneWithIt
  <2>4. \A o \in Key : ~Accepted(j, o)
    BY <1>7 DEF Accepted
  <2>5. delivered[k] = unknown[k]
    BY <2>3, <2>4 DEF AnswersAreCounted
  <2> QED
    BY <2>0, <2>1, <2>2, <2>3, <2>4, <2>5 DEF Accepted
<1>8. ASSUME NEW j \in Job, Send(j) PROVE AnswersAreCounted'
  <2>1. PICK result \in {"accepted", "transient", "permanent"} :
          /\ Put(j, [job[j] EXCEPT !.phase = "record", !.result = result])
          /\ delivered' = IF result = "accepted"
                          THEN [delivered EXCEPT ![job[j].key] = @ + 1]
                          ELSE delivered
    BY <1>8 DEF Send
  <2>2. PICK k \in Key :
          /\ k = job[j].key /\ row[k].status # "sent" /\ delivered[k] = unknown[k]
          /\ Accepted(j, k)' <=> result = "accepted"
          /\ \A o \in Key \ {k} : ~Accepted(j, o)' /\ ~Accepted(j, o)
          /\ \A i \in Job \ {j} : ~Accepted(i, k)' /\ ~Accepted(i, k)
          /\ \A i \in Job \ {j}, o \in Key : Accepted(i, o)' <=> Accepted(i, o)
    BY <1>7, <1>8, <2>1 DEF Send
  <2>3. UNCHANGED <<row, unknown>>
    BY <1>8 DEF Send
  <2>4. /\ delivered'[k] = IF result = "accepted" THEN delivered[k] + 1 ELSE delivered[k]
        /\ \A o \in Key \ {k} : delivered'[o] = delivered[o]
    BY <1>a, <2>1, <2>2 DEF TypeOK
  <2> QED
    <3>1. \A o \in Key \ {k} :
            /\ delivered'[o] = delivered[o] /\ unknown'[o] = unknown[o]
            /\ row'[o].status = row[o].status
            /\ \A i \in Job : Accepted(i, o)' <=> Accepted(i, o)
      BY <2>2, <2>3, <2>4
    <3>2. \A o \in Key \ {k} :
            /\ row'[o].status = "sent" => delivered'[o] = unknown'[o] + 1
            /\ \A i \in Job : Accepted(i, o)' => delivered'[o] = unknown'[o] + 1
            /\ (row'[o].status # "sent" /\ \A i \in Job : ~Accepted(i, o)')
               => delivered'[o] = unknown'[o]
      BY <3>1 DEF AnswersAreCounted
    <3>3. /\ row'[k].status # "sent"
          /\ \A i \in Job : Accepted(i, k)' => delivered'[k] = unknown'[k] + 1
          /\ (\A i \in Job : ~Accepted(i, k)') => delivered'[k] = unknown'[k]
      BY <2>2, <2>3, <2>4
    <3>4. \A o \in Key :
            /\ row'[o].status = "sent" => delivered'[o] = unknown'[o] + 1
            /\ \A i \in Job : Accepted(i, o)' => delivered'[o] = unknown'[o] + 1
            /\ (row'[o].status # "sent" /\ \A i \in Job : ~Accepted(i, o)')
               => delivered'[o] = unknown'[o]
      <4>1. ASSUME NEW o \in Key, o = k
            PROVE /\ row'[o].status = "sent" => delivered'[o] = unknown'[o] + 1
                  /\ \A i \in Job : Accepted(i, o)' => delivered'[o] = unknown'[o] + 1
                  /\ (row'[o].status # "sent" /\ \A i \in Job : ~Accepted(i, o)')
                     => delivered'[o] = unknown'[o]
        BY <3>3, <4>1
      <4> QED
        BY <3>2, <4>1
    <3> QED
      BY <3>4 DEF AnswersAreCounted
<1>9. ASSUME NEW j \in Job, AnswerLost(j) PROVE AnswersAreCounted'
  <2>2. PICK k \in Key :
          /\ k = job[j].key /\ row[k].status # "sent" /\ delivered[k] = unknown[k]
          /\ Accepted(j, k)' <=> "transient" = "accepted"
          /\ \A o \in Key \ {k} : ~Accepted(j, o)' /\ ~Accepted(j, o)
          /\ \A i \in Job \ {j} : ~Accepted(i, k)' /\ ~Accepted(i, k)
          /\ \A i \in Job \ {j}, o \in Key : Accepted(i, o)' <=> Accepted(i, o)
    BY <1>7, <1>9 DEF AnswerLost
  <2>3. UNCHANGED row
    BY <1>9 DEF AnswerLost
  <2>4. /\ delivered'[k] = delivered[k] + 1 /\ unknown'[k] = unknown[k] + 1
        /\ \A o \in Key \ {k} : delivered'[o] = delivered[o] /\ unknown'[o] = unknown[o]
    BY <1>a, <1>9, <2>2 DEF AnswerLost, TypeOK
  <2> QED
    <3>1. \A o \in Key \ {k} :
            /\ delivered'[o] = delivered[o] /\ unknown'[o] = unknown[o]
            /\ row'[o].status = row[o].status
            /\ \A i \in Job : Accepted(i, o)' <=> Accepted(i, o)
      BY <2>2, <2>3, <2>4
    <3>2. \A o \in Key \ {k} :
            /\ row'[o].status = "sent" => delivered'[o] = unknown'[o] + 1
            /\ \A i \in Job : Accepted(i, o)' => delivered'[o] = unknown'[o] + 1
            /\ (row'[o].status # "sent" /\ \A i \in Job : ~Accepted(i, o)')
               => delivered'[o] = unknown'[o]
      BY <3>1 DEF AnswersAreCounted
    <3>3. /\ row'[k].status # "sent"
          /\ \A i \in Job : Accepted(i, k)' => delivered'[k] = unknown'[k] + 1
          /\ (\A i \in Job : ~Accepted(i, k)') => delivered'[k] = unknown'[k]
      BY <2>2, <2>3, <2>4
    <3>4. \A o \in Key :
            /\ row'[o].status = "sent" => delivered'[o] = unknown'[o] + 1
            /\ \A i \in Job : Accepted(i, o)' => delivered'[o] = unknown'[o] + 1
            /\ (row'[o].status # "sent" /\ \A i \in Job : ~Accepted(i, o)')
               => delivered'[o] = unknown'[o]
      <4>1. ASSUME NEW o \in Key, o = k
            PROVE /\ row'[o].status = "sent" => delivered'[o] = unknown'[o] + 1
                  /\ \A i \in Job : Accepted(i, o)' => delivered'[o] = unknown'[o] + 1
                  /\ (row'[o].status # "sent" /\ \A i \in Job : ~Accepted(i, o)')
                     => delivered'[o] = unknown'[o]
        BY <3>3, <4>1
      <4> QED
        BY <3>2, <4>1
    <3> QED
      BY <3>4 DEF AnswersAreCounted
<1>10. ASSUME NEW j \in Job, Record(j) PROVE AnswersAreCounted'
  <2> DEFINE k == job[j].key
             s == [job[j] EXCEPT !.phase = "check", !.batch = @ \ {k}, !.key = Nobody,
                                 !.result = "none"]
  <2>1. /\ k \in Key /\ row[k].status = "sending"
        /\ \A i \in Job \ {j} : ~Accepted(i, k)
    BY <1>10, AloneWithIt DEF Record
  <2>2. s.phase = "check" /\ job'[j] = s /\ \A i \in Job \ {j} : job'[i] = job[i]
    BY <1>10, <1>a, PutJobs DEF Record, JobState
  <2> HIDE DEF s
  <2>3. /\ \A o \in Key : ~Accepted(j, o)'
        /\ \A o \in Key \ {k} : ~Accepted(j, o)
        /\ \A i \in Job \ {j}, o \in Key : Accepted(i, o)' <=> Accepted(i, o)
    BY <2>2 DEF Accepted
  <2>4. PICK status, wait : /\ Settle(k, status, wait)
                            /\ status = "sent" <=> Accepted(j, k)
    BY <1>10 DEF Record, Accepted
  <2>5. row'[k].status = status /\ \A o \in Key \ {k} : row'[o] = row[o]
    BY <1>a, <2>1, <2>4, SettleRows
  <2>6. UNCHANGED <<delivered, unknown>>
    BY <1>10 DEF Record, Same
  <2> HIDE DEF k
  <2> QED
    BY <2>1, <2>3, <2>4, <2>5, <2>6 DEF AnswersAreCounted
<1>11. ASSUME NEW j \in Job, Finish(j) PROVE AnswersAreCounted'
  BY <1>11, <1>b DEF Finish, Same, Idle
<1>12. ASSUME NEW j \in Job, Crash(j) PROVE AnswersAreCounted'
  <2> DEFINE k == job[j].key
  <2>1. /\ job'[j] = Idle /\ \A i \in Job \ {j} : job'[i] = job[i]
        /\ UNCHANGED <<row, delivered>>
    BY <1>12, <1>a, PutJobs DEF Crash
  <2>2. /\ \A o \in Key : ~Accepted(j, o)'
        /\ \A i \in Job \ {j}, o \in Key : Accepted(i, o)' <=> Accepted(i, o)
    BY <2>1 DEF Accepted, Idle
  <2>3. CASE job[j].phase = "record" /\ job[j].result = "accepted"
    <3>1. /\ k \in Key /\ row[k].status = "sending"
          /\ \A i \in Job \ {j} : ~Accepted(i, k)
      BY <2>3, AloneWithIt
    <3>2. unknown'[k] = unknown[k] + 1 /\ \A o \in Key \ {k} : unknown'[o] = unknown[o]
      BY <1>12, <1>a, <2>3, <3>1 DEF Crash, TypeOK
    <3>3. Accepted(j, k) /\ \A o \in Key \ {k} : ~Accepted(j, o)
      BY <2>3 DEF Accepted
    <3> HIDE DEF k
    <3> QED
      BY <2>1, <2>2, <3>1, <3>2, <3>3 DEF AnswersAreCounted
  <2>4. CASE ~(job[j].phase = "record" /\ job[j].result = "accepted")
    <3>1. \A o \in Key : ~Accepted(j, o)
      BY <2>4 DEF Accepted
    <3>2. unknown' = unknown
      BY <1>12, <2>4 DEF Crash
    <3> QED
      BY <2>1, <2>2, <3>1, <3>2, AnswersUntouched
  <2> QED
    BY <2>3, <2>4
<1>13. ASSUME UNCHANGED <<job, delivered, unknown>>,
              \A k \in Key : row'[k].status = "sent" <=> row[k].status = "sent"
       PROVE AnswersAreCounted'
  BY <1>13, AnswersUntouched DEF Accepted
<1>14. ASSUME NEW k \in Notice, Enqueue(k) PROVE AnswersAreCounted'
  <2>1. \A o \in Key : row'[o].status = "sent" <=> row[o].status = "sent"
    BY <1>14, <1>a, EnqueueRows DEF Enqueue, Key
  <2> QED
    BY <1>13, <1>14, <2>1 DEF Enqueue, Same
<1>15. ASSUME NEW k \in Key, retryNotification(k) PROVE AnswersAreCounted'
  <2>1. \A o \in Key : row'[o].status = "sent" <=> row[o].status = "sent"
    BY <1>15, <1>a DEF retryNotification, TypeOK, RowState
  <2> QED
    BY <1>13, <1>15, <2>1 DEF retryNotification
<1>16. ASSUME NEW v \in Visit, VisitChanges(v) PROVE AnswersAreCounted'
  <2>1. \A i \in Job : job'[i] = job[i] \/ job'[i] = [job[i] EXCEPT !.disturbed = TRUE]
    BY <1>16 DEF VisitChanges
  <2>2. \A i \in Job : /\ job'[i].phase = job[i].phase
                       /\ job'[i].key = job[i].key
                       /\ job'[i].result = job[i].result
    BY <1>a, <2>1 DEF JobState
  <2> QED
    BY <1>16, <2>2, AnswersUntouched DEF VisitChanges, Accepted
<1>17. ASSUME FlipKillSwitch PROVE AnswersAreCounted'
  BY <1>13, <1>17 DEF FlipKillSwitch
<1>18. ASSUME Tick PROVE AnswersAreCounted'
  <2>1. \A i \in Job : job'[i] = job[i] \/ job'[i] = [job[i] EXCEPT !.age = @ + 1]
    BY <1>18 DEF Tick
  <2>2. \A i \in Job : /\ job'[i].phase = job[i].phase
                       /\ job'[i].key = job[i].key
                       /\ job'[i].result = job[i].result
    BY <1>a, <2>1 DEF JobState
  <2>3. \A k \in Key : row'[k].status = row[k].status
    BY <1>18, <1>a DEF Tick, TypeOK, RowState
  <2> QED
    BY <1>18, <2>2, <2>3, AnswersUntouched DEF Tick, Same, Accepted
<1>19. ASSUME UNCHANGED vars PROVE AnswersAreCounted'
  BY <1>13, <1>19 DEF vars
<1> QED
  BY <1>1, <1>2, <1>3, <1>4, <1>5, <1>6, <1>8, <1>9, <1>10, <1>11, <1>12, <1>14,
     <1>15, <1>16, <1>17, <1>18, <1>19 DEF Next, JobStep

-----------------------------------------------------------------------------
(* The theorems.                                                           *)

LEMMA ClaimInit == Init => ClaimInv /\ AnswersAreCounted
<1> SUFFICES ASSUME Init PROVE ClaimInv /\ AnswersAreCounted
  OBVIOUS
<1>1. TypeOK
  BY TypeInit
<1>2. \A j \in Job : job[j].phase = "idle" /\ job[j].batch = {} /\ job[j].age = 0
  BY DEF Init, Idle
<1>3. \A k \in Key : row[k].status = "none" /\ delivered[k] = 0 /\ unknown[k] = 0
  BY DEF Init, NoRow
<1> QED
  BY <1>1, <1>2, <1>3, OutboxAssumption
     DEF ClaimInv, HeldIsClaimed, JobsAreBounded, HoldsOnlyWhileSending, OneHolder,
         AnswersAreCounted, Accepted

\* The claims are right in every reachable state.
LEMMA ClaimsHold == Spec => [](ClaimInv /\ AnswersAreCounted)
<1>1. ClaimInv /\ AnswersAreCounted /\ [Next]_vars => (ClaimInv /\ AnswersAreCounted)'
  BY ClaimStep, AnswerStep
<1> QED
  BY <1>1, ClaimInit, PTL DEF Spec

\* Every row and every job of the outbox stays well formed, and no backoff is
\* ever left negative by a dispatch that took longer than the delay it gives.
THEOREM OutboxIsTyped == Spec => []TypeOK
<1>1. TypeOK /\ [Next]_vars => TypeOK'
  BY TypeStep
<1> QED
  BY <1>1, TypeInit, PTL DEF Spec

\* Two overlapping jobs never work on one message, whatever the number of jobs
\* and messages, when a job cannot outlive the claim it made.
THEOREM ClaimsAreExclusive == Spec => []OneHolder
<1>1. ClaimInv => OneHolder
  BY DEF ClaimInv
<1> QED
  BY <1>1, ClaimsHold, PTL

\* The provider accepts a message again only after an acceptance nobody could
\* write down: a crash or a lost answer, never an ordinary race of two jobs.
THEOREM NoNeedlessDuplicate == Spec => []DeliveredOncePerKnownAnswer
<1>1. ClaimInv /\ AnswersAreCounted => DeliveredOncePerKnownAnswer
  <2> SUFFICES ASSUME ClaimInv, AnswersAreCounted, NEW k \in Key
               PROVE /\ delivered[k] <= unknown[k] + 1
                     /\ row[k].status = "sent" => delivered[k] = unknown[k] + 1
    BY DEF DeliveredOncePerKnownAnswer
  <2>1. delivered[k] \in Nat /\ unknown[k] \in Nat
    BY DEF ClaimInv, TypeOK
  <2>2. delivered[k] = unknown[k] + 1 \/ delivered[k] = unknown[k]
    BY DEF AnswersAreCounted
  <2> QED
    BY <2>1, <2>2 DEF AnswersAreCounted
<1> QED
  BY <1>1, ClaimsHold, PTL

\* A step leaves what was sent as it is: only a job that holds a message, which
\* is not sent yet, or the desk, on a failed one, writes a row's outcome.
LEMMA SentStep ==
  ASSUME ClaimInv, [Next]_vars, NEW k \in Key, row[k].status = "sent"
  PROVE row'[k].status = "sent"
<1>a. TypeOK
  BY DEF ClaimInv
<1>1. ASSUME NEW j \in Job, NEW held \in job[j].batch, NEW status, NEW wait,
             Settle(held, status, wait)
      PROVE row'[k].status = "sent"
  <2>1. held \in Key /\ held # k
    BY HeldIsNotDue DEF ClaimInv, HeldIsClaimed
  <2> QED
    BY <1>1, <1>a, <2>1, SettleRows
<1>2. ASSUME NEW j \in Job, EnqueueReminder(j) PROVE row'[k].status = "sent"
  <2>1. PICK new \in job[j].due : row' = enqueueNotification(new)
    BY <1>2 DEF EnqueueReminder
  <2>2. new \in Key
    BY <1>a DEF TypeOK, JobState, Key
  <2> QED
    BY <1>a, <2>1, <2>2, EnqueueRows
<1>3. ASSUME NEW j \in Job, Claim(j) PROVE row'[k].status = "sent"
  BY <1>3, <1>a, ClaimRows DEF Claim
<1>4. ASSUME NEW j \in Job, Check(j) PROVE row'[k].status = "sent"
  BY <1>1, <1>4 DEF Check
<1>5. ASSUME NEW j \in Job, Record(j) PROVE row'[k].status = "sent"
  <2>1. job[j].key \in job[j].batch
    BY <1>5, <1>a DEF Record, TypeOK
  <2>2. PICK status, wait : Settle(job[j].key, status, wait)
    BY <1>5 DEF Record
  <2> QED
    BY <1>1, <2>1, <2>2
<1>6. ASSUME NEW n \in Notice, Enqueue(n) PROVE row'[k].status = "sent"
  BY <1>6, <1>a, EnqueueRows DEF Enqueue, Key
<1>7. ASSUME NEW o \in Key, retryNotification(o) PROVE row'[k].status = "sent"
  BY <1>7, <1>a DEF retryNotification, TypeOK
<1>8. ASSUME Tick PROVE row'[k].status = "sent"
  BY <1>8, <1>a DEF Tick, TypeOK, RowState
<1>9. ASSUME UNCHANGED row PROVE row'[k].status = "sent"
  BY <1>9
<1> QED
  BY <1>2, <1>3, <1>4, <1>5, <1>6, <1>7, <1>8, <1>9
     DEF Next, JobStep, SweepStarts, Stamp, Halted, Send, Finish, AnswerLost, Crash,
         VisitChanges, FlipKillSwitch, vars

\* A message that went out is never queued, claimed, failed or suppressed again,
\* although every outcome is written by the row's id alone.
THEOREM SentIsFinal == Spec => SentStaysSent
<1>1. ClaimInv /\ [Next]_vars => [\A k \in Key : row[k].status = "sent"
                                                 => row'[k].status = "sent"]_vars
  BY SentStep
<1>2. ClaimInv /\ AnswersAreCounted => ClaimInv
  OBVIOUS
<1> QED
  BY <1>1, <1>2, ClaimsHold, PTL DEF Spec, SentStaysSent

-----------------------------------------------------------------------------
(* What a reminder says.                                                   *)

\* Steps that bring nobody to a call leave the question as it was answered.
LEMMA NoNewCalls ==
  ASSUME NoFalsePromise, UNCHANGED visit,
         \A i \in Job : job'[i].phase = "call" =>
           job[i].phase = "call" /\ job'[i].key = job[i].key /\ job'[i].disturbed = job[i].disturbed
  PROVE  NoFalsePromise'
BY DEF NoFalsePromise

LEMMA PromiseStep == TypeOK /\ NoFalsePromise /\ [Next]_vars => NoFalsePromise'
<1> SUFFICES ASSUME TypeOK, NoFalsePromise, [Next]_vars PROVE NoFalsePromise'
  OBVIOUS
<1>a. \A j \in Job : job[j] \in JobState
  BY DEF TypeOK
\* The ways a job writes its own state without coming to a call.
<1>b. ASSUME NEW j \in Job, NEW s, Put(j, s), s.phase # "call", UNCHANGED visit
      PROVE  NoFalsePromise'
  <2>1. job'[j] = s /\ \A i \in Job \ {j} : job'[i] = job[i]
    BY <1>b, PutJobs
  <2> QED
    BY <1>b, <2>1, NoNewCalls
<1>c. ASSUME NEW j \in Job, Put(j, Idle), UNCHANGED visit PROVE NoFalsePromise'
  BY <1>b, <1>c DEF Idle
<1>1. ASSUME NEW j \in Job, SweepStarts(j) PROVE NoFalsePromise'
  <2>1. [Idle EXCEPT !.phase = "sweep", !.now = clock, !.due = DueReminders].phase = "sweep"
    BY DEF Idle
  <2> QED
    BY <1>1, <1>b, <2>1 DEF SweepStarts, World
<1>2. ASSUME NEW j \in Job, EnqueueReminder(j) PROVE NoFalsePromise'
  <2>1. \A k : [job[j] EXCEPT !.due = @ \ {k}].phase = "sweep"
    BY <1>2, <1>a DEF EnqueueReminder, JobState
  <2> QED
    BY <1>2, <1>b, <2>1 DEF EnqueueReminder, World
<1>3. ASSUME NEW j \in Job, Stamp(j) PROVE NoFalsePromise'
  <2>1. [job[j] EXCEPT !.phase = "dispatch", !.now = 0].phase = "dispatch"
    BY <1>a, JobFields
  <2> QED
    BY <1>3, <1>b, <2>1 DEF Stamp, World
<1>4. ASSUME NEW j \in Job, Claim(j) PROVE NoFalsePromise'
  <2>1. PICK batch :
          Put(j, [job[j] EXCEPT !.phase = "check", !.batch = batch, !.tries = Tries(batch)])
    BY <1>4 DEF Claim
  <2>2. [job[j] EXCEPT !.phase = "check", !.batch = batch, !.tries = Tries(batch)].phase = "check"
    BY <1>a DEF JobState
  <2> QED
    BY <1>4, <1>b, <2>1, <2>2 DEF Claim, World
\* The call is made on the answer to the question.
<1>5. ASSUME NEW j \in Job, Check(j) PROVE NoFalsePromise'
  <2>0. UNCHANGED visit
    BY <1>5 DEF Check, World
  <2>1. PICK k \in job[j].batch :
          \/ Put(j, [job[j] EXCEPT !.batch = @ \ {k}])
          \/ /\ Verdict(k) = "send"
             /\ Put(j, [job[j] EXCEPT !.phase = "call", !.key = k, !.disturbed = FALSE])
    BY <1>5 DEF Check
  <2>2. CASE Put(j, [job[j] EXCEPT !.batch = @ \ {k}])
    <3>1. [job[j] EXCEPT !.batch = @ \ {k}].phase = "check"
      BY <1>5, <1>a DEF Check, JobState
    <3> QED
      BY <1>b, <2>0, <2>2, <3>1
  <2>3. CASE /\ Verdict(k) = "send"
             /\ Put(j, [job[j] EXCEPT !.phase = "call", !.key = k, !.disturbed = FALSE])
    <3> DEFINE s == [job[j] EXCEPT !.phase = "call", !.key = k, !.disturbed = FALSE]
    <3>0. s.key = k
      BY <1>a DEF JobState
    <3>1. job'[j].key = k /\ \A i \in Job \ {j} : job'[i] = job[i]
      <4>1. Put(j, s)
        BY <2>3
      <4> HIDE DEF s
      <4> QED
        BY <3>0, <4>1, PutJobs
    <3>2. k \in Reminder => visit[k[1]].coming /\ visit[k[1]].start = k[2]
      BY <2>3 DEF Verdict, staleReason
    <3> QED
      BY <2>0, <3>1, <3>2 DEF NoFalsePromise
  <2> QED
    BY <2>1, <2>2, <2>3
<1>6. ASSUME NEW j \in Job, Send(j) \/ AnswerLost(j) PROVE NoFalsePromise'
  <2>1. PICK result : Put(j, [job[j] EXCEPT !.phase = "record", !.result = result])
    BY <1>6 DEF Send, AnswerLost
  <2>2. [job[j] EXCEPT !.phase = "record", !.result = result].phase = "record"
    BY <1>a DEF JobState
  <2> QED
    BY <1>6, <1>b, <2>1, <2>2 DEF Send, AnswerLost, World
<1>7. ASSUME NEW j \in Job, Record(j) PROVE NoFalsePromise'
  <2>1. [job[j] EXCEPT !.phase = "check", !.batch = @ \ {job[j].key}, !.key = Nobody,
                       !.result = "none"].phase = "check"
    BY <1>a DEF JobState
  <2> QED
    BY <1>7, <1>b, <2>1 DEF Record, World
<1>8. ASSUME NEW j \in Job, Halted(j) \/ Finish(j) \/ Crash(j) PROVE NoFalsePromise'
  BY <1>8, <1>c DEF Halted, Finish, Crash, World
\* A change of the visit disturbs every call about it.
<1>9. ASSUME NEW v \in Visit, VisitChanges(v) PROVE NoFalsePromise'
  <2>1. \A o \in Visit \ {v} : visit'[o] = visit[o]
    BY <1>9 DEF VisitChanges, TypeOK
  <2>2. \A i \in Job :
          job'[i].phase = "call" /\ job'[i].key \in Reminder /\ ~job'[i].disturbed =>
            job'[i] = job[i] /\ job[i].key[1] # v
    <3> SUFFICES ASSUME NEW i \in Job, job'[i].phase = "call", job'[i].key \in Reminder,
                        ~job'[i].disturbed
                 PROVE  job'[i] = job[i] /\ job[i].key[1] # v
      OBVIOUS
    <3>1. job'[i] = IF job[i].phase = "call" /\ job[i].key \in Reminder /\ job[i].key[1] = v
                    THEN [job[i] EXCEPT !.disturbed = TRUE] ELSE job[i]
      BY <1>9 DEF VisitChanges
    <3>2. [job[i] EXCEPT !.disturbed = TRUE].disturbed = TRUE
      BY <1>a DEF JobState
    <3> QED
      BY <3>1, <3>2
  <2>3. \A k \in Reminder : k[1] \in Visit
    BY DEF Reminder
  <2> QED
    BY <2>1, <2>2, <2>3 DEF NoFalsePromise
<1>10. ASSUME Tick PROVE NoFalsePromise'
  <2>1. \A i \in Job : job'[i] = job[i] \/ job'[i] = [job[i] EXCEPT !.age = @ + 1]
    BY <1>10 DEF Tick
  <2>2. \A i \in Job : /\ job'[i].phase = job[i].phase /\ job'[i].key = job[i].key
                       /\ job'[i].disturbed = job[i].disturbed
    BY <1>a, <2>1 DEF JobState
  <2> QED
    BY <1>10, <2>2, NoNewCalls DEF Tick
<1>11. ASSUME UNCHANGED <<job, visit>> PROVE NoFalsePromise'
  BY <1>11, NoNewCalls
<1> QED
  BY <1>1, <1>2, <1>3, <1>4, <1>5, <1>6, <1>7, <1>8, <1>9, <1>10, <1>11
     DEF Next, JobStep, Enqueue, retryNotification, FlipKillSwitch, World, vars

\* A reminder that is handed to the provider names a visit that stands where it
\* says, unless the visit changed after the last question was asked, whatever
\* happened while it was queued, claimed or backed off (dispatch.ts, stale.ts).
THEOREM RemindersAreTrue == Spec => []NoFalsePromise
<1>1. Init => NoFalsePromise
  BY DEF Init, Idle, NoFalsePromise
<1> QED
  BY <1>1, PromiseStep, OutboxIsTyped, PTL DEF Spec

-----------------------------------------------------------------------------
(* What the watermark says.                                                *)

\* A row that was written says how it stands.
RowsAreReal == \A k \in Key : row[k] # NoRow => row[k].status # "none"

\* Visit v stood where it stands before the instant, in its window, and its
\* reminder is not written.
Unwritten(v, instant) ==
  /\ visit[v].coming /\ changedAt[v] < instant /\ InWindow(instant, visit[v].start)
  /\ row[<<v, visit[v].start>>] = NoRow

\* A run in its sweep still has in hand what it has not written.
SweepsAreHonest ==
  \A j \in Job : job[j].phase = "sweep" =>
    /\ job[j].now <= clock
    /\ \A v \in Visit : Unwritten(v, job[j].now) => <<v, visit[v].start>> \in job[j].due

WatermarkInv ==
  /\ TypeOK /\ RowsAreReal /\ SweepsAreHonest
  /\ lastRunAt <= clock /\ \A v \in Visit : ~Unwritten(v, lastRunAt)

LEMMA NothingToCount ==
  ASSUME NEW r, r = NoRow, NEW s, NEW wait, NEW age, wait = 0, age = 0,
         s = [r EXCEPT !.wait = wait, !.claimAge = age]
  PROVE  s = NoRow
BY DEF NoRow

\* No step takes a row away or writes one that says nothing.
LEMMA RowsStay ==
  ASSUME TypeOK, RowsAreReal, [Next]_vars
  PROVE  \A k \in Key : row'[k] = row[k] \/ row'[k].status # "none"
<1> SUFFICES ASSUME NEW k \in Key, row'[k] # row[k] PROVE row'[k].status # "none"
  OBVIOUS
<1>1. ASSUME NEW o \in Key, NEW status, NEW wait, Settle(o, status, wait), status # "none"
      PROVE  row'[k].status # "none"
  BY <1>1, SettleRows
<1>2. ASSUME NEW o \in Key, row' = enqueueNotification(o) PROVE row'[k].status # "none"
  <2> DEFINE new == [status |-> IF enabled /\ o \in Addressed THEN "pending" ELSE "suppressed",
                     attempts |-> 0, wait |-> 0, claimAge |-> 0, place |-> Cardinality(Rows) + 1]
  <2>1. new.status # "none"
    OBVIOUS
  <2>2. row' = IF row[o] # NoRow THEN row ELSE [row EXCEPT ![o] = new]
    BY <1>2 DEF enqueueNotification
  <2> HIDE DEF new
  <2> QED
    BY <2>1, <2>2 DEF TypeOK
<1>3. ASSUME NEW j \in Job, EnqueueReminder(j) PROVE row'[k].status # "none"
  <2>1. PICK o \in job[j].due : row' = enqueueNotification(o)
    BY <1>3 DEF EnqueueReminder
  <2>2. o \in Key
    BY DEF TypeOK, JobState, Key
  <2> QED
    BY <1>2, <2>1, <2>2
<1>4. ASSUME NEW j \in Job, Claim(j) PROVE row'[k].status # "none"
  BY <1>4, ClaimRows DEF Claim
<1>5. ASSUME NEW j \in Job, Check(j) PROVE row'[k].status # "none"
  <2>1. PICK o \in job[j].batch : Settle(o, Verdict(o), 0)
    BY <1>5 DEF Check
  <2>2. o \in Key /\ Verdict(o) # "none"
    BY DEF TypeOK, JobState, Verdict
  <2> QED
    BY <1>1, <2>1, <2>2
<1>6. ASSUME NEW j \in Job, Record(j) PROVE row'[k].status # "none"
  <2>1. PICK status, wait : Settle(job[j].key, status, wait) /\ status # "none"
    BY <1>6 DEF Record
  <2>2. job[j].key \in Key
    BY <1>6 DEF Record, TypeOK, JobState
  <2> QED
    BY <1>1, <2>1, <2>2
<1>7. ASSUME NEW n \in Notice, Enqueue(n) PROVE row'[k].status # "none"
  BY <1>2, <1>7 DEF Enqueue, Key
<1>8. ASSUME NEW o \in Key, retryNotification(o) PROVE row'[k].status # "none"
  BY <1>8 DEF retryNotification, TypeOK, RowState
<1>9. ASSUME Tick PROVE row'[k].status # "none"
  <2>1. /\ row'[k].status = row[k].status
        /\ row[k] = NoRow => row'[k] = row[k]
    <3> DEFINE wait == NotNegative(row[k].wait - 1)
               age == IF row[k].status = "sending" /\ row[k].claimAge <= StaleClaim
                      THEN row[k].claimAge + 1 ELSE row[k].claimAge
    <3>1. row'[k] = [row[k] EXCEPT !.wait = wait, !.claimAge = age]
      BY <1>9 DEF Tick
    <3>2. row[k] = NoRow => wait = 0 /\ age = 0
      BY DEF NoRow, NotNegative
    <3>3. row[k] \in RowState
      BY DEF TypeOK
    <3> HIDE DEF wait, age
    <3>4. row'[k].status = row[k].status
      BY <3>1, <3>3 DEF RowState
    <3>5. row[k] = NoRow => row'[k] = NoRow
      BY <3>1, <3>2, NothingToCount
    <3> QED
      BY <3>4, <3>5
  <2> QED
    BY <2>1 DEF RowsAreReal
<1> QED
  BY <1>3, <1>4, <1>5, <1>6, <1>7, <1>8, <1>9
     DEF Next, JobStep, SweepStarts, Stamp, Halted, Send, Finish, AnswerLost, Crash,
         VisitChanges, FlipKillSwitch, vars

\* A step that changes no visit, begins no run and moves no watermark.
LEMMA SweepsGoOn ==
  ASSUME WatermarkInv, TypeOK', [Next]_vars, UNCHANGED <<visit, changedAt, lastRunAt>>,
         clock' \in Nat, clock <= clock',
         \A i \in Job : job'[i].phase = "sweep" =>
           /\ job[i].phase = "sweep" /\ job'[i].now = job[i].now
           /\ \A v \in Visit : <<v, visit[v].start>> \in job[i].due \ job'[i].due =>
                row'[<<v, visit[v].start>>] # NoRow
  PROVE  WatermarkInv'
<1> USE DEF WatermarkInv
<1>1. \A k \in Key : row'[k] = row[k] \/ row'[k].status # "none"
  BY RowsStay
<1>2. RowsAreReal'
  BY <1>1 DEF RowsAreReal
<1>3. \A v \in Visit : <<v, visit[v].start>> \in Key
  BY DEF TypeOK, Key, Reminder
<1>4. \A v \in Visit, instant \in Int : Unwritten(v, instant)' => Unwritten(v, instant)
  BY <1>1, <1>3 DEF Unwritten, InWindow, RowsAreReal, NoRow
<1>5. lastRunAt \in Int /\ clock \in Nat /\ \A i \in Job : job[i].now \in Nat
  BY DEF TypeOK, JobState
<1>6. lastRunAt' <= clock' /\ \A v \in Visit : ~Unwritten(v, lastRunAt)'
  BY <1>4, <1>5
<1>7. SweepsAreHonest'
  <2> SUFFICES ASSUME NEW j \in Job, job'[j].phase = "sweep"
               PROVE  /\ job'[j].now <= clock'
                      /\ \A v \in Visit : Unwritten(v, job[j].now)' =>
                           <<v, visit'[v].start>> \in job'[j].due
    BY DEF SweepsAreHonest
  <2>1. job[j].phase = "sweep" /\ job'[j].now = job[j].now
    OBVIOUS
  <2>2. job'[j].now <= clock'
    BY <1>5, <2>1 DEF SweepsAreHonest
  <2>3. ASSUME NEW v \in Visit, Unwritten(v, job[j].now)'
        PROVE  <<v, visit'[v].start>> \in job'[j].due
    <3>0. PICK instant \in Int : instant = job[j].now
      BY <1>5
    <3>1. Unwritten(v, instant)'
      BY <2>1, <2>3, <3>0 DEF Unwritten
    <3>2. <<v, visit[v].start>> \in job[j].due
      BY <1>4, <2>1, <3>0, <3>1 DEF SweepsAreHonest
    <3>3. row'[<<v, visit[v].start>>] = NoRow
      BY <2>3 DEF Unwritten
    <3> QED
      BY <3>2, <3>3
  <2> QED
    BY <2>2, <2>3
<1> QED
  BY <1>2, <1>6, <1>7

LEMMA WatermarkInit == Init => WatermarkInv
<1> SUFFICES ASSUME Init PROVE WatermarkInv
  OBVIOUS
<1>1. TypeOK
  BY TypeInit
<1>2. \A v \in Visit : changedAt[v] = -1
  BY DEF Init
<1> QED
  BY <1>1, <1>2 DEF Init, WatermarkInv, RowsAreReal, SweepsAreHonest, Idle, Unwritten

\* The rows are written before the watermark, and the watermark says the time
\* the reading was made, not the time the writing ended.
LEMMA WatermarkStep == WatermarkInv /\ [Next]_vars => WatermarkInv'
<1> SUFFICES ASSUME WatermarkInv, [Next]_vars PROVE WatermarkInv'
  OBVIOUS
<1>a. /\ TypeOK /\ TypeOK' /\ clock \in Nat /\ lastRunAt \in Int
      /\ \A j \in Job : job[j] \in JobState
  BY TypeStep DEF WatermarkInv, TypeOK
<1>b. /\ \A k \in Key : row'[k] = row[k] \/ row'[k].status # "none"
      /\ RowsAreReal'
  BY RowsStay DEF WatermarkInv, RowsAreReal
<1>c. \A v \in Visit : <<v, visit[v].start>> \in Reminder /\ <<v, visit[v].start>> \in Key
  BY <1>a DEF TypeOK, Key, Reminder
\* A job that ends up out of its sweep, the rest of the world as it was.
<1>d. ASSUME NEW j \in Job, NEW s, Put(j, s), s.phase # "sweep",
             UNCHANGED <<visit, changedAt, lastRunAt, clock>>
      PROVE  WatermarkInv'
  <2>1. job'[j] = s /\ \A i \in Job \ {j} : job'[i] = job[i]
    BY <1>a, <1>d, PutJobs
  <2> QED
    BY <1>a, <1>d, <2>1, SweepsGoOn
<1>1. ASSUME NEW j \in Job, SweepStarts(j) PROVE WatermarkInv'
  <2> DEFINE s == [Idle EXCEPT !.phase = "sweep", !.now = clock, !.due = DueReminders]
  <2>1. s.now = clock /\ s.due = DueReminders /\ Put(j, s)
        /\ UNCHANGED <<row, visit, changedAt, lastRunAt, clock>>
    BY <1>1 DEF SweepStarts, Idle, World
  <2> HIDE DEF s
  <2>2. job'[j] = s /\ \A i \in Job \ {j} : job'[i] = job[i]
    BY <1>a, <2>1, PutJobs
  <2>3. \A v \in Visit : Unwritten(v, clock) => <<v, visit[v].start>> \in DueReminders
    BY <1>c DEF Unwritten, DueReminders
  <2>4. SweepsAreHonest'
    BY <1>a, <2>1, <2>2, <2>3 DEF SweepsAreHonest, Unwritten, WatermarkInv
  <2> QED
    BY <1>a, <1>b, <2>1, <2>4 DEF WatermarkInv, Unwritten
<1>2. ASSUME NEW j \in Job, EnqueueReminder(j) PROVE WatermarkInv'
  <2>1. PICK k \in job[j].due :
          row' = enqueueNotification(k) /\ Put(j, [job[j] EXCEPT !.due = @ \ {k}])
    BY <1>2 DEF EnqueueReminder
  <2> DEFINE s == [job[j] EXCEPT !.due = @ \ {k}]
  <2>2. s.phase = job[j].phase /\ s.now = job[j].now /\ s.due = job[j].due \ {k} /\ Put(j, s)
    BY <1>a, <2>1 DEF JobState
  <2> HIDE DEF s
  <2>3. job'[j] = s /\ \A i \in Job \ {j} : job'[i] = job[i]
    BY <1>a, <2>2, PutJobs
  <2>4. k \in Key
    BY <1>a DEF JobState, Key
  <2>5. row'[k] # NoRow
    <3>1. row[k] # NoRow => row'[k] # NoRow
      BY <2>1 DEF enqueueNotification
    <3>2. row[k] = NoRow => row'[k].status # "none"
      BY <1>a, <2>1, <2>4 DEF enqueueNotification, TypeOK
    <3> QED
      BY <3>1, <3>2 DEF NoRow
  <2>6. UNCHANGED <<visit, changedAt, lastRunAt, clock>>
    BY <1>2 DEF EnqueueReminder, World
  <2>7. \A i \in Job : job'[i].phase = "sweep" =>
           /\ job[i].phase = "sweep" /\ job'[i].now = job[i].now
           /\ \A o \in job[i].due \ job'[i].due : row'[o] # NoRow
    BY <2>2, <2>3, <2>5
  <2> QED
    BY <1>a, <2>6, <2>7, SweepsGoOn
<1>3. ASSUME NEW j \in Job, Stamp(j) PROVE WatermarkInv'
  <2> DEFINE s == [job[j] EXCEPT !.phase = "dispatch", !.now = 0]
  <2>1. s.phase = "dispatch" /\ Put(j, s) /\ UNCHANGED <<row, visit, changedAt, clock>>
    BY <1>3, <1>a, JobFields DEF Stamp, World
  <2> HIDE DEF s
  <2>2. job'[j] = s /\ \A i \in Job \ {j} : job'[i] = job[i]
    BY <1>a, <2>1, PutJobs
  <2>3. job[j].now <= clock /\ \A v \in Visit : ~Unwritten(v, job[j].now)
    BY <1>3 DEF Stamp, WatermarkInv, SweepsAreHonest
  <2>4. lastRunAt' = job[j].now \/ lastRunAt' = lastRunAt
    BY <1>3 DEF Stamp
  <2>5. lastRunAt' <= clock' /\ \A v \in Visit : ~Unwritten(v, lastRunAt)'
    BY <2>1, <2>3, <2>4 DEF WatermarkInv, Unwritten
  <2>6. SweepsAreHonest'
    BY <2>1, <2>2 DEF SweepsAreHonest, Unwritten, WatermarkInv
  <2> QED
    BY <1>a, <1>b, <2>5, <2>6 DEF WatermarkInv
<1>4. ASSUME NEW j \in Job, Claim(j) PROVE WatermarkInv'
  <2>1. PICK batch :
          Put(j, [job[j] EXCEPT !.phase = "check", !.batch = batch, !.tries = Tries(batch)])
    BY <1>4 DEF Claim
  <2>2. [job[j] EXCEPT !.phase = "check", !.batch = batch, !.tries = Tries(batch)].phase = "check"
    BY <1>a DEF JobState
  <2> QED
    BY <1>4, <1>d, <2>1, <2>2 DEF Claim, World
<1>5. ASSUME NEW j \in Job, Check(j) PROVE WatermarkInv'
  <2>1. PICK k \in job[j].batch :
          \/ Put(j, [job[j] EXCEPT !.batch = @ \ {k}])
          \/ Put(j, [job[j] EXCEPT !.phase = "call", !.key = k, !.disturbed = FALSE])
    BY <1>5 DEF Check
  <2>2. /\ [job[j] EXCEPT !.batch = @ \ {k}].phase = "check"
        /\ [job[j] EXCEPT !.phase = "call", !.key = k, !.disturbed = FALSE].phase = "call"
    BY <1>5, <1>a DEF Check, JobState
  <2> QED
    BY <1>5, <1>d, <2>1, <2>2 DEF Check, World
<1>6. ASSUME NEW j \in Job, Send(j) \/ AnswerLost(j) PROVE WatermarkInv'
  <2>1. PICK result : Put(j, [job[j] EXCEPT !.phase = "record", !.result = result])
    BY <1>6 DEF Send, AnswerLost
  <2>2. [job[j] EXCEPT !.phase = "record", !.result = result].phase = "record"
    BY <1>a DEF JobState
  <2> QED
    BY <1>6, <1>d, <2>1, <2>2 DEF Send, AnswerLost, World
<1>7. ASSUME NEW j \in Job, Record(j) PROVE WatermarkInv'
  <2>1. [job[j] EXCEPT !.phase = "check", !.batch = @ \ {job[j].key}, !.key = Nobody,
                       !.result = "none"].phase = "check"
    BY <1>a DEF JobState
  <2> QED
    BY <1>7, <1>d, <2>1 DEF Record, World
<1>8. ASSUME NEW j \in Job, Halted(j) \/ Finish(j) \/ Crash(j) PROVE WatermarkInv'
  <2>1. Idle.phase # "sweep"
    BY DEF Idle
  <2> QED
    BY <1>8, <1>d, <2>1 DEF Halted, Finish, Crash, World
\* A visit that changes has changed no earlier than any run began.
<1>9. ASSUME NEW v \in Visit, VisitChanges(v) PROVE WatermarkInv'
  <2>1. /\ \A o \in Visit \ {v} : visit'[o] = visit[o] /\ changedAt'[o] = changedAt[o]
        /\ changedAt'[v] = clock /\ UNCHANGED <<row, clock, lastRunAt>>
    BY <1>9, <1>a DEF VisitChanges, TypeOK
  <2>2. \A i \in Job : /\ job'[i].phase = job[i].phase /\ job'[i].now = job[i].now
                       /\ job'[i].due = job[i].due
    <3>1. \A i \in Job : job'[i] = job[i] \/ job'[i] = [job[i] EXCEPT !.disturbed = TRUE]
      BY <1>9 DEF VisitChanges
    <3> QED
      BY <1>a, <3>1 DEF JobState
  <2>3. \A o \in Visit, instant \in Int :
          instant <= clock /\ Unwritten(o, instant)' => o # v /\ Unwritten(o, instant)
    BY <1>a, <2>1 DEF Unwritten
  <2>4. SweepsAreHonest'
    <3> SUFFICES ASSUME NEW j \in Job, job'[j].phase = "sweep"
                 PROVE  /\ job'[j].now <= clock'
                        /\ \A o \in Visit : Unwritten(o, job[j].now)' =>
                             <<o, visit'[o].start>> \in job'[j].due
      BY DEF SweepsAreHonest
    <3>1. PICK instant \in Int : instant = job[j].now /\ instant = job'[j].now
      BY <1>a, <2>2 DEF JobState
    <3>2. instant <= clock /\ \A o \in Visit : Unwritten(o, instant) =>
                                <<o, visit[o].start>> \in job[j].due
      BY <2>2, <3>1 DEF WatermarkInv, SweepsAreHonest
    <3>3. ASSUME NEW o \in Visit, Unwritten(o, job[j].now)'
          PROVE  <<o, visit'[o].start>> \in job'[j].due
      <4>1. Unwritten(o, instant)'
        BY <3>1, <3>3 DEF Unwritten
      <4> QED
        BY <2>1, <2>2, <2>3, <3>2, <4>1
    <3> QED
      BY <2>1, <3>1, <3>2, <3>3
  <2>5. lastRunAt' <= clock' /\ \A o \in Visit : ~Unwritten(o, lastRunAt)'
    <3>1. PICK instant \in Int : instant = lastRunAt /\ instant = lastRunAt'
      BY <1>a, <2>1
    <3>2. instant <= clock /\ \A o \in Visit : ~Unwritten(o, instant)
      BY <3>1 DEF WatermarkInv
    <3>3. \A o \in Visit : Unwritten(o, lastRunAt)' => Unwritten(o, instant)'
      BY <3>1 DEF Unwritten
    <3> QED
      BY <2>1, <2>3, <3>1, <3>2, <3>3
  <2> QED
    BY <1>a, <1>b, <2>4, <2>5 DEF WatermarkInv
<1>10. ASSUME Tick PROVE WatermarkInv'
  <2>1. \A i \in Job : job'[i] = job[i] \/ job'[i] = [job[i] EXCEPT !.age = @ + 1]
    BY <1>10 DEF Tick
  <2>2. \A i \in Job : /\ job'[i].phase = job[i].phase /\ job'[i].now = job[i].now
                       /\ job'[i].due = job[i].due
    BY <1>a, <2>1 DEF JobState
  <2>3. clock' \in Nat /\ clock <= clock' /\ UNCHANGED <<visit, changedAt, lastRunAt>>
    <3>1. clock' = clock + 1 \/ clock' = clock
      BY <1>10 DEF Tick
    <3>2. UNCHANGED <<visit, changedAt, lastRunAt>>
      BY <1>10 DEF Tick
    <3> QED
      BY <1>a, <3>1, <3>2
  <2> QED
    BY <1>a, <2>2, <2>3, SweepsGoOn
<1>11. ASSUME UNCHANGED <<job, visit, changedAt, lastRunAt, clock>> PROVE WatermarkInv'
  BY <1>11, <1>a, SweepsGoOn
<1> QED
  BY <1>1, <1>2, <1>3, <1>4, <1>5, <1>6, <1>7, <1>8, <1>9, <1>10, <1>11
     DEF Next, JobStep, Enqueue, retryNotification, FlipKillSwitch, World, vars

\* Whatever the watermark says was swept has its reminders: every visit that
\* stood before that run began, inside its window, has its row, although runs
\* overlap, die half way and end in any order (reminders.ts).
THEOREM TheWatermarkIsTrue == Spec => []WatermarkIsTruthful
<1>1. WatermarkInv => WatermarkIsTruthful
  BY DEF WatermarkInv, Unwritten, WatermarkIsTruthful
<1> QED
  BY <1>1, WatermarkInit, WatermarkStep, PTL DEF Spec

=============================================================================
