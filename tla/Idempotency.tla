---------------------------- MODULE Idempotency ----------------------------
(* The idempotent write of the API: packages/db/api/idempotency.ts (the      *)
(* record) and apps/web/lib/api/idempotent.ts (the request). A request       *)
(* claims its key in one committed statement, runs the domain write and      *)
(* records its outcome in one transaction, and gives the key back when it    *)
(* failed. It may die or be held up anywhere: no time bound is assumed.      *)
EXTENDS Integers

CONSTANTS
  Request,     \* HTTP requests, numbers, each sent once; a retry is another one
  Key,         \* (apiKeyId, Idempotency-Key)
  Hash,        \* hashes of method, path and body
  TTL,         \* IDEMPOTENCY_TTL_MS, in ticks
  StaleAfter,  \* STALE_AFTER_MS, in ticks
  MaxClock     \* bound of the instance

ASSUME TimeAssumption == TTL \in Nat /\ MaxClock \in Nat

VARIABLES
  clock,
  nextId,      \* the next record id
  record,      \* IdempotencyRecord, for each key
  request,     \* what each request has in hand
  writes       \* history: domain writes committed under each key

vars == <<clock, nextId, record, request, writes>>

\* What the work of a request ends in: a write, or a domain refusal, which is
\* an answer and is stored like one.
Outcome == {"written", "refused"}

NoRecord == [id |-> 0, hash |-> "none", status |-> "none", response |-> "none",
             expiresAt |-> 0, updatedAt |-> 0]
Idle == [stage |-> "idle", key |-> "none", hash |-> "none", now |-> 0, id |-> 0,
         answer |-> "none"]

\* "gone" is a request that ended without an outcome: 422, 409, an error, or
\* its process died.
Stage == {"idle", "arrived", "beaten", "claimed", "committed", "failing",
          "answered", "gone"}

Records ==
  [id : Nat \ {0}, hash : Hash, status : {"in_progress", "done"},
   response : Outcome \cup {"none"}, expiresAt : Int, updatedAt : Int]
Hands ==
  [stage : Stage, key : Key \cup {"none"}, hash : Hash \cup {"none"}, now : Int, id : Nat,
   answer : Outcome \cup {"none"}]

TypeOK ==
  /\ clock \in 0 .. MaxClock
  /\ nextId \in Nat \ {0}
  /\ record \in [Key -> {NoRecord} \cup Records]
  /\ request \in [Request -> Hands]
  /\ writes \in [Key -> Nat]

Init ==
  /\ clock = 0
  /\ nextId = 1
  /\ record = [k \in Key |-> NoRecord]
  /\ request = [r \in Request |-> Idle]
  /\ writes = [k \in Key |-> 0]

At(r, stage) == request[r].stage = stage
To(r, stage) == request' = [request EXCEPT ![r].stage = stage]
Leaves(r) == request' = [request EXCEPT ![r] = [Idle EXCEPT !.stage = "gone"]]

\* The request is read and authenticated; its `now` is fixed here. Requests are
\* numbered as they arrive.
Arrive(r, k, h) ==
  /\ At(r, "idle") /\ \A q \in Request : q < r => ~At(q, "idle")
  /\ request' = [request EXCEPT ![r] = [stage |-> "arrived", key |-> k, hash |-> h,
                                        now |-> clock, id |-> 0, answer |-> "none"]]
  /\ UNCHANGED <<clock, nextId, record, writes>>

Expired(rec, now) == rec # NoRecord /\ rec.expiresAt <= now

\* Mutant: an abandoned claim is told by its age alone.
MutAbandoned(rec, now, h) ==
  rec # NoRecord /\ rec.updatedAt <= now - StaleAfter /\ rec.hash = h
\* The claim of a process that is taken to be dead, for the same request.
Abandoned(rec, now, h) ==
  /\ rec.status = "in_progress"
  /\ rec.updatedAt <= now - StaleAfter
  /\ rec.hash = h

Ours(r) ==
  LET rec == record[request[r].key] IN
  rec = NoRecord \/ Expired(rec, request[r].now) \/ Abandoned(rec, request[r].now, request[r].hash)

\* Mutant: the id is never set anew.
MutclaimedId(r) == record[request[r].key].id
\* An expired record gets a new id, an abandoned one keeps its own.
claimedId(r) ==
  LET rec == record[request[r].key] IN
  IF rec = NoRecord \/ Expired(rec, request[r].now) THEN nextId ELSE rec.id

\* INSERT ... ON CONFLICT DO UPDATE WHERE ... RETURNING, committed on its own.
Claim(r) ==
  LET q == request[r] IN
  /\ At(r, "arrived")
  /\ Ours(r)
  /\ record' = [record EXCEPT ![q.key] =
       [id |-> claimedId(r), hash |-> q.hash, status |-> "in_progress", response |-> "none",
        expiresAt |-> q.now + TTL, updatedAt |-> q.now]]
  /\ request' = [request EXCEPT ![r].stage = "claimed", ![r].id = claimedId(r)]
  /\ nextId' = nextId + (IF claimedId(r) = nextId THEN 1 ELSE 0)
  /\ UNCHANGED <<clock, writes>>

\* The statement returned no row: the record is somebody's, and is read next.
Beaten(r) ==
  /\ At(r, "arrived") /\ ~Ours(r)
  /\ To(r, "beaten")
  /\ UNCHANGED <<clock, nextId, record, writes>>

\* 422, 409, the stored answer, or an error when the record is gone by now.
ReadExisting(r) ==
  LET rec == record[request[r].key] IN
  /\ At(r, "beaten")
  /\ \/ /\ rec.hash # request[r].hash \/ rec.status # "done"
        /\ Leaves(r)
     \/ /\ rec.hash = request[r].hash /\ rec.status = "done"
        /\ request' = [request EXCEPT ![r].stage = "answered", ![r].id = rec.id,
                                      ![r].answer = rec.response]
  /\ UNCHANGED <<clock, nextId, record, writes>>

\* Mutant: the outcome is written by id alone.
MutHolds(r) == record[request[r].key].id = request[r].id
\* finishClaim's WHERE: the record has our id and nobody's outcome.
Holds(r) ==
  /\ record[request[r].key].id = request[r].id
  /\ record[request[r].key].status = "in_progress"

\* The work and its outcome, one transaction: a refusal rolled the work's own
\* savepoint back, so only "written" leaves a domain write.
Commit(r, o) ==
  LET k == request[r].key IN
  /\ At(r, "claimed")
  /\ Holds(r)
  /\ record' = [record EXCEPT ![k].status = "done", ![k].response = o,
                              ![k].updatedAt = request[r].now]
  /\ request' = [request EXCEPT ![r].stage = "committed", ![r].answer = o]
  /\ writes' = [writes EXCEPT ![k] = @ + (IF o = "written" THEN 1 ELSE 0)]
  /\ UNCHANGED <<clock, nextId>>

\* The record is no longer ours, or the work failed with something that is no
\* answer, or it timed out: everything it wrote is rolled back.
RollBack(r) ==
  /\ At(r, "claimed")
  /\ To(r, "failing")
  /\ UNCHANGED <<clock, nextId, record, writes>>

\* The transaction committed and its client never heard.
CommitUnknown(r) ==
  /\ At(r, "committed")
  /\ request' = [request EXCEPT ![r].stage = "failing", ![r].answer = "none"]
  /\ UNCHANGED <<clock, nextId, record, writes>>

Reply(r) ==
  /\ At(r, "committed")
  /\ To(r, "answered")
  /\ UNCHANGED <<clock, nextId, record, writes>>

\* Mutant: whatever the record says by now is given back.
MutReleasable(rec, id) == rec.id = id
\* releaseClaim's WHERE.
Releasable(rec, id) == rec.id = id /\ rec.status = "in_progress"

\* A request that failed gives its key back, and rethrows.
Release(r) ==
  /\ At(r, "failing")
  /\ record' = [k \in Key |-> IF Releasable(record[k], request[r].id) THEN NoRecord ELSE record[k]]
  /\ Leaves(r)
  /\ UNCHANGED <<clock, nextId, writes>>

\* The process of a request that claimed is killed.
Crash(r) ==
  /\ request[r].stage \in {"claimed", "committed", "failing"}
  /\ Leaves(r)
  /\ UNCHANGED <<clock, nextId, record, writes>>

\* The hourly job.
pruneIdempotencyRecords ==
  /\ \E k \in Key : Expired(record[k], clock)
  /\ record' = [k \in Key |-> IF Expired(record[k], clock) THEN NoRecord ELSE record[k]]
  /\ UNCHANGED <<clock, nextId, request, writes>>

Tick ==
  /\ clock < MaxClock
  /\ clock' = clock + 1
  /\ UNCHANGED <<nextId, record, request, writes>>

Next ==
  \/ \E r \in Request :
       \/ \E k \in Key, h \in Hash : Arrive(r, k, h)
       \/ Claim(r) \/ Beaten(r) \/ ReadExisting(r)
       \/ \E o \in Outcome : Commit(r, o)
       \/ RollBack(r) \/ CommitUnknown(r) \/ Reply(r) \/ Release(r) \/ Crash(r)
  \/ pruneIdempotencyRecords
  \/ Tick

Spec == Init /\ [][Next]_vars
-----------------------------------------------------------------------------
\* Two requests answered from one claim heard the same thing, whichever of
\* them ran it, whoever reclaimed it meanwhile and whatever failed after.
\* (idempotent.ts:13: replaying must say the same thing again.)
AnswersAgree ==
  \A r, s \in Request :
    (At(r, "answered") /\ At(s, "answered") /\ request[r].id = request[s].id)
      => request[r].answer = request[s].answer

\* The record as the promise sees it: an outcome on record stands until it
\* expires; a claim in progress is no outcome.
Promise == INSTANCE WriteOnce WITH
  Instant <- TTL .. TTL + MaxClock,
  answer <- [k \in Key |-> IF record[k].status = "done"
                           THEN [outcome |-> record[k].response, until |-> record[k].expiresAt]
                           ELSE [outcome |-> "none", until |-> 0]]

\* A key makes at most one write in its window, and its first outcome stands
\* until the window is over: every step is a step of that promise or none.
\* (idempotency.ts:12 to 16: an abandoned claim is safe to take over.)
KeepsThePromise == Promise!Init /\ [][Promise!Next]_(Promise!vars)
=============================================================================
