--------------------------- MODULE RequestsProofs ---------------------------
(***************************************************************************)
(* Requests that are repeated, abandoned and answered late, for any        *)
(* number of them.                                                         *)
(*                                                                         *)
(* The idempotent write of the API (Idempotency), for any requests, keys   *)
(* and bodies: its state keeps its types, two requests answered from one   *)
(* claim were told the same thing, and the record implements the register  *)
(* of WriteOnce.                                                           *)
(*                                                                         *)
(* The deliveries of events (Webhooks), for any writers, sweeps, readers,  *)
(* endpoints and wishes, and any number of events: type correctness, that  *)
(* no cursor passes over an event (NothingSkipped), and that an event has  *)
(* one body for everybody (OneBodyPerEvent).  Both rest on Numbering: the  *)
(* committed events are a prefix of the numbers, because the counter stays *)
(* locked until its holder's commit.                                       *)
(*                                                                         *)
(* And a visitor's booking on the website (Online), for any book,          *)
(* stylists and requests: what the done screen says is in the book.        *)
(***************************************************************************)
EXTENDS Idempotency, Webhooks, Online, OffersProofs, SequenceTheorems, FiniteSetTheorems, TLAPS

(* The idempotent write.                                                   *)

\* A request that has a claim's id in hand.
HasId(r) == request[r].stage \in {"claimed", "committed", "failing", "answered"}

\* A request that was, or is about to be, told an outcome.
HasAnswer(r) == request[r].stage \in {"committed", "answered"}

\* An id is older than nextId and belongs to one key, on the record and in
\* every hand.
IdsAreOfOneKey ==
  /\ \A k \in Key : record[k].id < nextId
  /\ \A r \in Request : HasId(r) => request[r].id \in 1 .. nextId - 1
  /\ \A k, l \in Key : record[k].id = record[l].id /\ record[k] # NoRecord => k = l
  /\ \A r \in Request, k \in Key :
       HasId(r) /\ record[k].id = request[r].id => request[r].key = k
  /\ \A r, s \in Request :
       HasId(r) /\ HasId(s) /\ request[r].id = request[s].id => request[r].key = request[s].key

\* A record on which work is done holds what it ended in.
RecordsAreWhole ==
  \A k \in Key :
    /\ record[k] # NoRecord => record[k].status \in {"in_progress", "done"}
    /\ record[k].status = "done" => record[k].response \in Outcome

\* An answer in a request's hand is the one on record for as long as the claim
\* it comes from is, and a claim in progress has given nobody an answer.
AnswersAreOnRecord ==
  \A r \in Request :
    /\ HasAnswer(r) => request[r].answer \in Outcome
    /\ HasAnswer(r) /\ record[request[r].key].id = request[r].id =>
         record[request[r].key].status = "done" /\ record[request[r].key].response = request[r].answer

\* Whoever has an outcome of one claim has the same one.
OneOutcome ==
  \A r, s \in Request :
    HasAnswer(r) /\ HasAnswer(s) /\ request[r].id = request[s].id
      => request[r].answer = request[s].answer

\* A request in flight has a key and was read at an instant that has passed; a
\* record expires one window after such an instant.
RequestsAreRead ==
  /\ \A r \in Request :
       request[r].stage \notin {"idle", "gone"} =>
         request[r].key \in Key /\ request[r].hash \in Hash /\ request[r].now \in 0 .. clock
  /\ \A k \in Key :
       record[k] # NoRecord => record[k].expiresAt \in TTL .. TTL + clock

IInv ==
  /\ TypeOK /\ RequestsAreRead /\ RecordsAreWhole /\ IdsAreOfOneKey
  /\ AnswersAreOnRecord /\ OneOutcome

LEMMA InitIInv == Init => IInv
BY TimeAssumption
   DEF Init, IInv, TypeOK, RequestsAreRead, RecordsAreWhole, IdsAreOfOneKey, AnswersAreOnRecord,
       OneOutcome, HasId, HasAnswer, Hands, Idle, NoRecord, Stage

\* What every step needs of the types.
USE DEF Stage, Outcome
-----------------------------------------------------------------------------
LEMMA ArriveKeepsIInv ==
  ASSUME IInv, NEW r \in Request, NEW k \in Key, NEW h \in Hash, Arrive(r, k, h)
  PROVE  IInv'
<1> USE TimeAssumption DEF IInv, Arrive, At
<1>1. TypeOK'
  BY DEF TypeOK, Hands
<1>2. RequestsAreRead'
  BY DEF TypeOK, Hands, RequestsAreRead
<1>3. RecordsAreWhole'
  BY DEF RecordsAreWhole
<1>4. \A s \in Request : HasId(s)' => s # r /\ HasId(s) /\ request'[s] = request[s]
  BY DEF TypeOK, HasId
<1>5. \A s \in Request : HasAnswer(s)' => s # r /\ HasAnswer(s) /\ request'[s] = request[s]
  BY DEF TypeOK, HasAnswer
<1>6. IdsAreOfOneKey'
  BY <1>4 DEF IdsAreOfOneKey
<1>7. AnswersAreOnRecord'
  BY <1>5 DEF AnswersAreOnRecord
<1>8. OneOutcome'
  BY <1>5 DEF OneOutcome
<1>9. QED
  BY <1>1, <1>2, <1>3, <1>6, <1>7, <1>8

LEMMA LeavingKeepsIInv ==
  ASSUME IInv, NEW r \in Request, Leaves(r), UNCHANGED <<clock, nextId, record, writes>>
  PROVE  IInv'
<1> USE TimeAssumption DEF IInv, Leaves, Idle
<1>1. TypeOK'
  BY DEF TypeOK, Hands
<1>2. RequestsAreRead'
  BY DEF TypeOK, RequestsAreRead
<1>3. RecordsAreWhole'
  BY DEF RecordsAreWhole
<1>4. \A s \in Request : HasId(s)' => s # r /\ HasId(s) /\ request'[s] = request[s]
  BY DEF TypeOK, HasId
<1>5. \A s \in Request : HasAnswer(s)' => s # r /\ HasAnswer(s) /\ request'[s] = request[s]
  BY DEF TypeOK, HasAnswer
<1>6. IdsAreOfOneKey'
  BY <1>4 DEF IdsAreOfOneKey
<1>7. AnswersAreOnRecord'
  BY <1>5 DEF AnswersAreOnRecord
<1>8. OneOutcome'
  BY <1>5 DEF OneOutcome
<1>9. QED
  BY <1>1, <1>2, <1>3, <1>6, <1>7, <1>8

\* The claim gives its record a new id, or takes over the one of a process that
\* is taken to be dead: either way nobody has an outcome of it.
LEMMA ClaimKeepsIInv ==
  ASSUME IInv, NEW r \in Request, Claim(r)
  PROVE  IInv'
<1> DEFINE key == request[r].key
           id == claimedId(r)
<1> USE TimeAssumption DEF IInv
<1>1. /\ key \in Key /\ request[r].hash \in Hash /\ request[r].now \in 0 .. clock
      /\ clock \in Nat /\ nextId \in Nat \ {0}
  BY DEF Claim, At, TypeOK, RequestsAreRead
<1>2. \/ id = nextId /\ nextId' = nextId + 1
      \/ /\ id = record[key].id /\ id \in 1 .. nextId - 1 /\ nextId' = nextId
         /\ record[key] # NoRecord /\ record[key].status = "in_progress"
  <2>1. CASE record[key] = NoRecord \/ Expired(record[key], request[r].now)
    BY <2>1 DEF Claim, claimedId
  <2>2. CASE ~(record[key] = NoRecord \/ Expired(record[key], request[r].now))
    <3>1. record[key].status = "in_progress" /\ record[key] # NoRecord /\ id = record[key].id
      BY <2>2, <1>1 DEF Claim, claimedId, Ours, Abandoned
    <3>2. record[key].id \in Nat \ {0} /\ record[key].id < nextId
      BY <3>1, <1>1 DEF TypeOK, IdsAreOfOneKey, Records
    <3>3. nextId' = nextId
      BY <3>1, <3>2, <1>1 DEF Claim
    <3> QED
      BY <3>1, <3>2, <3>3, <1>1
  <2> QED
    BY <2>1, <2>2
<1>3. id \in Nat \ {0} /\ id < nextId' /\ nextId' \in Nat \ {0} /\ nextId <= nextId'
  BY <1>1, <1>2
<1>4. /\ record'[key] = [id |-> id, hash |-> request[r].hash, status |-> "in_progress",
                         response |-> "none", expiresAt |-> request[r].now + TTL,
                         updatedAt |-> request[r].now]
      /\ \A k \in Key \ {key} : record'[k] = record[k]
      /\ request'[r] = [request[r] EXCEPT !.stage = "claimed", !.id = id]
      /\ \A s \in Request \ {r} : request'[s] = request[s]
      /\ DOMAIN record' = Key /\ DOMAIN request' = Request
      /\ UNCHANGED <<clock, writes>>
  BY <1>1 DEF Claim, TypeOK
<1>5. request'[r].stage = "claimed" /\ request'[r].id = id /\ request'[r].key = key
      /\ request'[r].hash = request[r].hash /\ request'[r].now = request[r].now
  BY <1>4 DEF TypeOK, Hands
<1>6. \A s \in Request : HasAnswer(s)' => s # r /\ HasAnswer(s) /\ request'[s] = request[s]
  BY <1>4, <1>5 DEF HasAnswer
<1>7. \A s \in Request \ {r} : HasId(s)' => HasId(s) /\ request'[s] = request[s]
  BY <1>4 DEF HasId
\* Nobody else's id is the new one, unless it is of this key already.
<1>8. \A k \in Key \ {key} : record[k].id # id
  BY <1>1, <1>2 DEF TypeOK, IdsAreOfOneKey, NoRecord, Records
<1>9. \A s \in Request : HasId(s) /\ request[s].id = id => request[s].key = key
  BY <1>1, <1>2 DEF IdsAreOfOneKey
<1>10. TypeOK'
  <2>1. record' \in [Key -> {NoRecord} \cup Records]
    <3>1. [id |-> id, hash |-> request[r].hash, status |-> "in_progress", response |-> "none",
           expiresAt |-> request[r].now + TTL, updatedAt |-> request[r].now] \in Records
      BY <1>1, <1>3 DEF Records
    <3>2. PICK new \in Records : record' = [record EXCEPT ![key] = new]
      BY <3>1 DEF Claim
    <3> QED
      BY <1>1, <3>2 DEF TypeOK
  <2>2. [request[r] EXCEPT !.stage = "claimed", !.id = id] \in Hands
    BY <1>3 DEF TypeOK, Hands
  <2>3. request' \in [Request -> Hands]
    BY <2>2 DEF TypeOK, Claim
  <2> QED
    BY <1>3, <1>4, <2>1, <2>3 DEF TypeOK
<1>11. RequestsAreRead'
  BY <1>1, <1>4, <1>5 DEF RequestsAreRead, NoRecord, TypeOK, Claim, At
<1>12. RecordsAreWhole'
  BY <1>4 DEF RecordsAreWhole
<1>13. IdsAreOfOneKey'
  <2>1. \A k \in Key : record'[k].id < nextId'
    <3>1. \A k \in Key : record[k].id \in Nat /\ record[k].id < nextId
      BY DEF IdsAreOfOneKey, TypeOK, NoRecord, Records
    <3> QED
      BY <1>1, <1>3, <1>4, <3>1
  <2>2. \A s \in Request : HasId(s)' => request'[s].id \in 1 .. nextId' - 1
    BY <1>1, <1>3, <1>5, <1>7 DEF IdsAreOfOneKey
  <2>3. \A k, l \in Key : record'[k].id = record'[l].id /\ record'[k] # NoRecord => k = l
    BY <1>1, <1>4, <1>8 DEF IdsAreOfOneKey, NoRecord
  <2>4. \A s \in Request, k \in Key :
           HasId(s)' /\ record'[k].id = request'[s].id => request'[s].key = k
    <3> TAKE s \in Request, k \in Key
    <3>1. CASE s = r
      BY <3>1, <1>1, <1>4, <1>5, <1>8
    <3>2. CASE s # r
      BY <3>2, <1>1, <1>4, <1>7, <1>9 DEF IdsAreOfOneKey
    <3> QED
      BY <3>1, <3>2
  <2>5. \A s, t \in Request :
           HasId(s)' /\ HasId(t)' /\ request'[s].id = request'[t].id
             => request'[s].key = request'[t].key
    BY <1>5, <1>7, <1>9 DEF IdsAreOfOneKey
  <2> QED
    BY <2>1, <2>2, <2>3, <2>4, <2>5 DEF IdsAreOfOneKey, HasId
<1>14. AnswersAreOnRecord'
  <2> SUFFICES ASSUME NEW s \in Request, HasAnswer(s)'
               PROVE  /\ request'[s].answer \in Outcome
                      /\ record'[request'[s].key].id = request'[s].id =>
                           /\ record'[request'[s].key].status = "done"
                           /\ record'[request'[s].key].response = request'[s].answer
    BY DEF AnswersAreOnRecord, HasAnswer
  <2>1. HasAnswer(s) /\ HasId(s) /\ request'[s] = request[s] /\ request[s].key \in Key
    BY <1>6 DEF HasAnswer, HasId, RequestsAreRead
  <2>2. CASE request[s].key # key
    BY <2>1, <2>2, <1>4 DEF AnswersAreOnRecord
  <2>3. CASE request[s].key = key
    <3>1. request[s].id # id
      BY <2>1, <2>3, <1>1, <1>2 DEF AnswersAreOnRecord, IdsAreOfOneKey
    <3> QED
      BY <2>1, <2>3, <3>1, <1>4 DEF AnswersAreOnRecord
  <2> QED
    BY <2>2, <2>3
<1>15. OneOutcome'
  BY <1>6 DEF OneOutcome
<1> QED
  BY <1>10, <1>11, <1>12, <1>13, <1>14, <1>15

LEMMA ReadExistingKeepsIInv ==
  ASSUME IInv, NEW r \in Request, ReadExisting(r)
  PROVE  IInv'
<1> DEFINE key == request[r].key
           rec == record[request[r].key]
<1> USE TimeAssumption DEF IInv
<1>1. CASE Leaves(r)
  BY <1>1, LeavingKeepsIInv DEF ReadExisting
<1>2. CASE /\ rec.hash = request[r].hash /\ rec.status = "done"
           /\ request' = [request EXCEPT ![r].stage = "answered", ![r].id = rec.id,
                                         ![r].answer = rec.response]
  <2>0. rec.status = "done"
    BY <1>2
  <2>1. key \in Key /\ UNCHANGED <<clock, nextId, record, writes>>
    BY DEF ReadExisting, At, RequestsAreRead
  <2>2. rec # NoRecord /\ rec.id \in 1 .. nextId - 1 /\ rec.response \in Outcome
    BY <1>2, <2>1 DEF TypeOK, NoRecord, RecordsAreWhole, IdsAreOfOneKey, Records
  <2>3. /\ \A s \in Request \ {r} : request'[s] = request[s]
        /\ request'[r].id = rec.id /\ request'[r].key = key
        /\ request'[r].answer = rec.response /\ request'[r].stage = "answered"
        /\ request'[r].hash = request[r].hash /\ request'[r].now = request[r].now
    BY <1>2 DEF TypeOK, Hands
  <2>4. TypeOK'
    <3>1. [request[r] EXCEPT !.stage = "answered", !.id = rec.id, !.answer = rec.response] \in Hands
      <4>1. request[r] \in Hands /\ rec.id \in Nat /\ rec.response \in Outcome
        BY <2>2 DEF TypeOK
      <4> QED
        BY <4>1 DEF Hands
    <3>2. request' \in [Request -> Hands]
      BY <1>2, <3>1 DEF TypeOK
    <3> QED
      BY <2>1, <3>2 DEF TypeOK
  <2>5. RequestsAreRead'
    BY <2>1, <2>3 DEF RequestsAreRead, ReadExisting, At
  <2>6. RecordsAreWhole'
    BY <2>1 DEF RecordsAreWhole
  <2>7. IdsAreOfOneKey'
    <3>1. \A s \in Request \ {r} : HasId(s)' => HasId(s) /\ request'[s] = request[s]
      BY <2>3 DEF HasId
    <3>2. \A s \in Request : HasId(s)' => request'[s].id \in 1 .. nextId - 1
      BY <2>2, <2>3, <3>1 DEF IdsAreOfOneKey
    <3>3. ASSUME NEW s \in Request, NEW k \in Key, HasId(s)', record[k].id = request'[s].id
          PROVE  request'[s].key = k
      BY <2>1, <2>2, <2>3, <3>1, <3>3 DEF IdsAreOfOneKey
    <3>4. ASSUME NEW s \in Request, NEW t \in Request, HasId(s)', HasId(t)',
                 request'[s].id = request'[t].id
          PROVE  request'[s].key = request'[t].key
      BY <2>1, <2>2, <2>3, <3>1, <3>3, <3>4 DEF IdsAreOfOneKey
    <3> QED
      BY <2>1, <3>2, <3>3, <3>4 DEF IdsAreOfOneKey
  <2>8. AnswersAreOnRecord'
    <3>1. \A s \in Request \ {r} : HasAnswer(s)' => HasAnswer(s) /\ request'[s] = request[s]
      BY <2>3 DEF HasAnswer
    <3> QED
      BY <2>0, <2>1, <2>2, <2>3, <3>1 DEF AnswersAreOnRecord
  \* Whoever has an answer of that id has the one on record.
  <2>9. \A s \in Request \ {r} :
           HasAnswer(s) /\ request[s].id = rec.id => request[s].answer = rec.response
    BY <2>1, <2>2 DEF AnswersAreOnRecord, IdsAreOfOneKey, HasAnswer, HasId
  <2>10. OneOutcome'
    <3>1. \A s \in Request \ {r} : HasAnswer(s)' => HasAnswer(s) /\ request'[s] = request[s]
      BY <2>3 DEF HasAnswer
    <3> SUFFICES ASSUME NEW s \in Request, NEW t \in Request, HasAnswer(s)', HasAnswer(t)',
                        request'[s].id = request'[t].id
                 PROVE  request'[s].answer = request'[t].answer
      BY DEF OneOutcome
    <3> QED
      BY <2>3, <2>9, <3>1 DEF OneOutcome
  <2> QED
    BY <2>4, <2>5, <2>6, <2>7, <2>8, <2>10
<1> QED
  BY <1>1, <1>2 DEF ReadExisting

GoesOn(r, stage, answer) ==
  request' = [request EXCEPT ![r].stage = stage, ![r].answer = answer]

\* A request that goes on without touching the record, and forgets an answer
\* or keeps it.
LEMMA GoingOnKeepsIInv ==
  ASSUME IInv, NEW r \in Request, NEW stage \in Stage, NEW answer \in Outcome \cup {"none"},
         request[r].stage \notin {"idle", "gone"},
         stage \in {"claimed", "committed", "failing", "answered"} => HasId(r),
         stage \in {"committed", "answered"} => HasAnswer(r) /\ answer = request[r].answer,
         GoesOn(r, stage, answer),
         UNCHANGED <<clock, nextId, record, writes>>
  PROVE  IInv'
<1> USE TimeAssumption DEF IInv
<1>1. /\ \A s \in Request \ {r} : request'[s] = request[s]
      /\ request'[r].id = request[r].id /\ request'[r].key = request[r].key
      /\ request'[r].answer = answer /\ request'[r].stage = stage
      /\ request'[r].hash = request[r].hash /\ request'[r].now = request[r].now
  BY DEF TypeOK, Hands, GoesOn
<1>2. \A s \in Request : /\ HasId(s)' => HasId(s)
                         /\ request'[s].id = request[s].id /\ request'[s].key = request[s].key
  BY <1>1 DEF HasId
<1>3. \A s \in Request : HasAnswer(s)' => HasAnswer(s) /\ request'[s].answer = request[s].answer
  BY <1>1 DEF HasAnswer
<1>4. TypeOK'
  <2>1. [request[r] EXCEPT !.stage = stage, !.answer = answer] \in Hands
    BY DEF TypeOK, Hands
  <2>2. request' \in [Request -> Hands]
    BY <2>1 DEF TypeOK, GoesOn
  <2> QED
    BY <2>2 DEF TypeOK
<1>5. RequestsAreRead'
  BY <1>1 DEF RequestsAreRead
<1>6. RecordsAreWhole'
  BY DEF RecordsAreWhole
<1>7. IdsAreOfOneKey'
  <2>1. \A s \in Request : HasId(s)' => request'[s].id \in 1 .. nextId - 1
    BY <1>2 DEF IdsAreOfOneKey
  <2>2. \A s \in Request, k \in Key :
           HasId(s)' /\ record[k].id = request'[s].id => request'[s].key = k
    BY <1>2 DEF IdsAreOfOneKey
  <2>3. ASSUME NEW s \in Request, NEW t \in Request, HasId(s)', HasId(t)',
               request'[s].id = request'[t].id
        PROVE  request'[s].key = request'[t].key
    BY <1>2, <2>3 DEF IdsAreOfOneKey
  <2> QED
    BY <2>1, <2>2, <2>3 DEF IdsAreOfOneKey
<1>8. AnswersAreOnRecord'
  BY <1>2, <1>3 DEF AnswersAreOnRecord
<1>9. OneOutcome'
  <2> SUFFICES ASSUME NEW s \in Request, NEW t \in Request, HasAnswer(s)', HasAnswer(t)',
                      request'[s].id = request'[t].id
               PROVE  request'[s].answer = request'[t].answer
    BY DEF OneOutcome
  <2> QED
    BY <1>2, <1>3 DEF OneOutcome
<1> QED
  BY <1>4, <1>5, <1>6, <1>7, <1>8, <1>9

LEMMA WaitingKeepsIInv ==
  ASSUME IInv, NEW r \in Request, Beaten(r) \/ RollBack(r) \/ CommitUnknown(r) \/ Reply(r)
  PROVE  IInv'
<1>1. request \in [Request -> Hands]
      /\ request[r].answer \in Outcome \cup {"none"}
  BY DEF IInv, TypeOK, Hands
<1>2. \A stage \in Stage : To(r, stage) => GoesOn(r, stage, request[r].answer)
  <2>1. \A stage \in Stage : [request[r] EXCEPT !.stage = stage, !.answer = request[r].answer]
                              = [request[r] EXCEPT !.stage = stage]
    BY <1>1 DEF Hands
  <2> QED
    BY <1>1, <2>1 DEF To, GoesOn
<1>3. CASE Beaten(r)
  BY <1>1, <1>2, <1>3, GoingOnKeepsIInv DEF Beaten, At
<1>4. CASE RollBack(r)
  BY <1>1, <1>2, <1>4, GoingOnKeepsIInv DEF RollBack, At, HasId
<1>5. CASE CommitUnknown(r)
  BY <1>1, <1>5, GoingOnKeepsIInv DEF CommitUnknown, At, HasId, GoesOn
<1>6. CASE Reply(r)
  BY <1>1, <1>2, <1>6, GoingOnKeepsIInv DEF Reply, At, HasId, HasAnswer
<1> QED
  BY <1>3, <1>4, <1>5, <1>6

\* Only the holder of a claim in progress commits, and it is the first to have
\* an outcome of it.
LEMMA CommitKeepsIInv ==
  ASSUME IInv, NEW r \in Request, NEW o \in Outcome, Commit(r, o)
  PROVE  IInv'
<1> DEFINE key == request[r].key
<1> USE TimeAssumption DEF IInv
<1>1. key \in Key /\ request[r].id \in 1 .. nextId - 1 /\ HasId(r)
      /\ record[key].id = request[r].id /\ record[key].status = "in_progress"
      /\ record[key] # NoRecord
  BY DEF Commit, At, Holds, RequestsAreRead, IdsAreOfOneKey, HasId, NoRecord
<1>2. /\ \A k \in Key \ {key} : record'[k] = record[k]
      /\ record'[key].id = record[key].id /\ record'[key].expiresAt = record[key].expiresAt
      /\ record'[key].status = "done" /\ record'[key].response = o
      /\ UNCHANGED <<clock, nextId>>
  <2>1. record[key] \in Records
    BY <1>1 DEF TypeOK
  <2>2. /\ record'[key] = [record[key] EXCEPT !.status = "done", !.response = o,
                                              !.updatedAt = request[r].now]
        /\ \A k \in Key \ {key} : record'[k] = record[k]
        /\ UNCHANGED <<clock, nextId>>
    BY <1>1 DEF Commit, TypeOK
  <2> QED
    BY <2>1, <2>2 DEF Records
<1>3. /\ \A s \in Request \ {r} : request'[s] = request[s]
      /\ request'[r].id = request[r].id /\ request'[r].key = key
      /\ request'[r].answer = o /\ request'[r].stage = "committed"
      /\ request'[r].hash = request[r].hash /\ request'[r].now = request[r].now
  BY DEF Commit, TypeOK, Hands
<1>4. \A s \in Request : HasId(s)' => HasId(s) /\ request'[s].id = request[s].id
                                      /\ request'[s].key = request[s].key
  BY <1>1, <1>3 DEF HasId
<1>5. \A s \in Request : HasAnswer(s)' => s = r \/ (HasAnswer(s) /\ request'[s] = request[s])
  BY <1>3 DEF HasAnswer
\* Nobody has an outcome of a claim in progress.
<1>6. \A s \in Request : HasAnswer(s) => request[s].id # request[r].id
  BY <1>1 DEF AnswersAreOnRecord, IdsAreOfOneKey, HasAnswer, HasId
<1>7. TypeOK'
  <2>1. [record[key] EXCEPT !.status = "done", !.response = o, !.updatedAt = request[r].now]
          \in Records
    <3>1. record[key] \in Records /\ request[r].now \in Int
      BY <1>1 DEF TypeOK, Hands
    <3> QED
      BY <3>1 DEF Records
  <2>2. record' \in [Key -> {NoRecord} \cup Records]
    BY <1>1, <2>1 DEF Commit, TypeOK
  <2>3. [request[r] EXCEPT !.stage = "committed", !.answer = o] \in Hands
    BY DEF TypeOK, Hands
  <2>4. request' \in [Request -> Hands]
    BY <2>3 DEF Commit, TypeOK
  <2>5. writes' \in [Key -> Nat]
    BY <1>1 DEF Commit, TypeOK
  <2> QED
    BY <1>2, <2>2, <2>4, <2>5 DEF TypeOK
<1>8. RequestsAreRead'
  <2>1. request[r].stage = "claimed"
    BY DEF Commit, At
  <2> QED
    BY <1>1, <1>2, <1>3, <2>1 DEF RequestsAreRead
<1>9. RecordsAreWhole'
  BY <1>2 DEF RecordsAreWhole
<1>10. IdsAreOfOneKey'
  <2>1. \A k \in Key : record'[k].id = record[k].id /\ (record'[k] # NoRecord => record[k] # NoRecord)
    BY <1>1, <1>2
  <2>2. \A s \in Request : HasId(s)' => request'[s].id \in 1 .. nextId' - 1
    BY <1>2, <1>4 DEF IdsAreOfOneKey
  <2>3. ASSUME NEW s \in Request, NEW k \in Key, HasId(s)', record'[k].id = request'[s].id
        PROVE  request'[s].key = k
    BY <1>4, <2>1, <2>3 DEF IdsAreOfOneKey
  <2>4. ASSUME NEW s \in Request, NEW t \in Request, HasId(s)', HasId(t)',
               request'[s].id = request'[t].id
        PROVE  request'[s].key = request'[t].key
    BY <1>4, <2>4 DEF IdsAreOfOneKey
  <2>5. \A k \in Key : record'[k].id < nextId'
    BY <1>2, <2>1 DEF IdsAreOfOneKey
  <2>6. \A k, l \in Key : record'[k].id = record'[l].id /\ record'[k] # NoRecord => k = l
    BY <2>1 DEF IdsAreOfOneKey
  <2> QED
    BY <2>2, <2>3, <2>4, <2>5, <2>6 DEF IdsAreOfOneKey
<1>11. AnswersAreOnRecord'
  <2> SUFFICES ASSUME NEW s \in Request, HasAnswer(s)'
               PROVE  /\ request'[s].answer \in Outcome
                      /\ record'[request'[s].key].id = request'[s].id =>
                           /\ record'[request'[s].key].status = "done"
                           /\ record'[request'[s].key].response = request'[s].answer
    BY DEF AnswersAreOnRecord, HasAnswer
  <2>1. CASE s = r
    BY <2>1, <1>2, <1>3
  <2>2. CASE s # r
    <3>1. HasAnswer(s) /\ request'[s] = request[s] /\ request[s].key \in Key
      BY <2>2, <1>5 DEF RequestsAreRead, HasAnswer
    <3>2. CASE request[s].key # key
      BY <3>1, <3>2, <1>2 DEF AnswersAreOnRecord
    <3>3. CASE request[s].key = key
      BY <3>1, <3>3, <1>1, <1>2, <1>6 DEF AnswersAreOnRecord
    <3> QED
      BY <3>2, <3>3
  <2> QED
    BY <2>1, <2>2
<1>12. OneOutcome'
  <2> SUFFICES ASSUME NEW s \in Request, NEW t \in Request, HasAnswer(s)', HasAnswer(t)',
                      request'[s].id = request'[t].id
               PROVE  request'[s].answer = request'[t].answer
    BY DEF OneOutcome
  <2> QED
    BY <1>3, <1>5, <1>6 DEF OneOutcome
<1> QED
  BY <1>7, <1>8, <1>9, <1>10, <1>11, <1>12

\* Records that go, whoever takes them, leave the others as they are.
LEMMA ForgettingKeepsIInv ==
  ASSUME IInv, UNCHANGED <<clock, nextId, request, writes>>,
         NEW K \in SUBSET Key,
         record' = [k \in Key |-> IF k \in K THEN NoRecord ELSE record[k]]
  PROVE  IInv'
<1> USE TimeAssumption DEF IInv
<1>1. TypeOK'
  BY DEF TypeOK
<1>2. RequestsAreRead'
  BY DEF RequestsAreRead
<1>3. RecordsAreWhole'
  BY DEF RecordsAreWhole, NoRecord
<1>4. IdsAreOfOneKey'
  <2>1. \A k \in Key : record'[k].id < nextId
    BY DEF TypeOK, IdsAreOfOneKey, NoRecord
  <2>2. \A k, l \in Key : record'[k].id = record'[l].id /\ record'[k] # NoRecord => k = l
    <3> SUFFICES ASSUME NEW k \in Key, NEW l \in Key, record'[k].id = record'[l].id,
                        record'[k] # NoRecord
                 PROVE  k = l
      OBVIOUS
    <3>1. record'[k] = record[k] /\ record[k].id # 0
      BY DEF TypeOK, Records
    <3>2. record'[l] = record[l]
      BY <3>1 DEF NoRecord
    <3> QED
      BY <3>1, <3>2 DEF IdsAreOfOneKey
  <2>3. \A r \in Request, k \in Key :
           HasId(r) /\ record'[k].id = request[r].id => request[r].key = k
    BY DEF IdsAreOfOneKey, NoRecord
  <2> QED
    BY <2>1, <2>2, <2>3 DEF IdsAreOfOneKey, HasId
<1>5. AnswersAreOnRecord'
  <2>1. \A r \in Request : HasAnswer(r) => request[r].id # 0 /\ request[r].key \in Key
    BY DEF HasAnswer, HasId, IdsAreOfOneKey, RequestsAreRead
  <2> QED
    BY <2>1 DEF AnswersAreOnRecord, HasAnswer, NoRecord
<1>6. OneOutcome'
  BY DEF OneOutcome, HasAnswer
<1> QED
  BY <1>1, <1>2, <1>3, <1>4, <1>5, <1>6

LEMMA ReleaseKeepsIInv ==
  ASSUME IInv, NEW r \in Request, Release(r)
  PROVE  IInv'
<1> DEFINE K == {k \in Key : Releasable(record[k], request[r].id)}
<1>1. record' = [k \in Key |-> IF k \in K THEN NoRecord ELSE record[k]]
  BY DEF Release
<1> USE TimeAssumption DEF IInv, Leaves, Idle, Release
<1>2. \A s \in Request : HasId(s)' => s # r /\ HasId(s) /\ request'[s] = request[s]
  BY DEF TypeOK, HasId
<1>3. \A s \in Request : HasAnswer(s)' => s # r /\ HasAnswer(s) /\ request'[s] = request[s]
  BY DEF TypeOK, HasAnswer
<1>4. \A k \in Key : record'[k] = record[k] \/ record'[k] = NoRecord
  BY <1>1
<1>5. TypeOK'
  BY <1>1 DEF TypeOK, Hands
<1>6. RequestsAreRead'
  BY <1>4 DEF TypeOK, RequestsAreRead
<1>7. RecordsAreWhole'
  BY <1>4 DEF RecordsAreWhole, NoRecord
<1>8. IdsAreOfOneKey'
  <2>1. \A k \in Key : record'[k].id < nextId
    BY <1>4 DEF TypeOK, IdsAreOfOneKey, NoRecord
  <2>2. \A k, l \in Key : record'[k].id = record'[l].id /\ record'[k] # NoRecord => k = l
    <3> SUFFICES ASSUME NEW k \in Key, NEW l \in Key, record'[k].id = record'[l].id,
                        record'[k] # NoRecord
                 PROVE  k = l
      OBVIOUS
    <3>1. record'[k] = record[k] /\ record[k].id # 0
      BY <1>4 DEF TypeOK, Records
    <3>2. record'[l] = record[l]
      BY <3>1, <1>4 DEF NoRecord
    <3> QED
      BY <3>1, <3>2 DEF IdsAreOfOneKey
  <2>3. \A s \in Request, k \in Key :
           HasId(s)' /\ record'[k].id = request'[s].id => request'[s].key = k
    BY <1>2, <1>4 DEF IdsAreOfOneKey, NoRecord
  <2> QED
    BY <1>2, <2>1, <2>2, <2>3 DEF IdsAreOfOneKey
<1>9. AnswersAreOnRecord'
  <2>1. \A s \in Request : HasAnswer(s) => request[s].id # 0 /\ request[s].key \in Key
    BY DEF HasAnswer, HasId, IdsAreOfOneKey, RequestsAreRead
  <2> QED
    BY <1>3, <1>4, <2>1 DEF AnswersAreOnRecord, NoRecord
<1>10. OneOutcome'
  BY <1>3 DEF OneOutcome
<1> QED
  BY <1>5, <1>6, <1>7, <1>8, <1>9, <1>10

LEMMA PruningKeepsIInv ==
  ASSUME IInv, pruneIdempotencyRecords
  PROVE  IInv'
<1> DEFINE K == {k \in Key : Expired(record[k], clock)}
<1>1. record' = [k \in Key |-> IF k \in K THEN NoRecord ELSE record[k]]
  BY DEF pruneIdempotencyRecords
<1> QED
  BY <1>1, ForgettingKeepsIInv DEF pruneIdempotencyRecords

LEMMA TickKeepsIInv == IInv /\ Tick => IInv'
BY TimeAssumption
   DEF IInv, Tick, TypeOK, RequestsAreRead, RecordsAreWhole, IdsAreOfOneKey, AnswersAreOnRecord,
       OneOutcome, HasId, HasAnswer

LEMMA StutterKeepsIInv == IInv /\ UNCHANGED vars => IInv'
BY DEF vars, IInv, TypeOK, RequestsAreRead, RecordsAreWhole, IdsAreOfOneKey, AnswersAreOnRecord,
       OneOutcome, HasId, HasAnswer

\* Every step keeps the inductive invariant.
THEOREM StepKeepsIInv == IInv /\ [Next]_vars => IInv'
<1> SUFFICES ASSUME IInv, [Next]_vars PROVE IInv'
  OBVIOUS
<1>1. ASSUME NEW r \in Request, NEW k \in Key, NEW h \in Hash, Arrive(r, k, h)
      PROVE  IInv'
  BY <1>1, ArriveKeepsIInv
<1>2. ASSUME NEW r \in Request, Claim(r) PROVE IInv'
  BY <1>2, ClaimKeepsIInv
<1>3. ASSUME NEW r \in Request, Beaten(r) \/ RollBack(r) \/ CommitUnknown(r) \/ Reply(r)
      PROVE  IInv'
  BY <1>3, WaitingKeepsIInv
<1>4. ASSUME NEW r \in Request, ReadExisting(r) PROVE IInv'
  BY <1>4, ReadExistingKeepsIInv
<1>5. ASSUME NEW r \in Request, NEW o \in Outcome, Commit(r, o) PROVE IInv'
  BY <1>5, CommitKeepsIInv
<1>6. ASSUME NEW r \in Request, Release(r) PROVE IInv'
  BY <1>6, ReleaseKeepsIInv
<1>7. ASSUME NEW r \in Request, Crash(r) PROVE IInv'
  BY <1>7, LeavingKeepsIInv DEF Crash
<1> QED
  BY <1>1, <1>2, <1>3, <1>4, <1>5, <1>6, <1>7, PruningKeepsIInv, TickKeepsIInv,
     StutterKeepsIInv DEF Next

THEOREM IInvIsInvariant == Spec => []IInv
BY InitIInv, StepKeepsIInv, PTL DEF Spec

\* Records and requests keep their shape, whoever dies where and whichever
\* record is taken over, released or pruned (idempotency.ts).
THEOREM TypeCorrect == Spec => []TypeOK
<1>1. IInv => TypeOK
  BY DEF IInv
<1> QED
  BY <1>1, IInvIsInvariant, PTL

\* However many retries, processes and takeovers a key sees, requests answered
\* from one claim heard the same outcome (idempotent.ts:13).
THEOREM AnswersAlwaysAgree == Spec => []AnswersAgree
<1>1. IInv => AnswersAgree
  BY DEF IInv, OneOutcome, AnswersAgree, HasAnswer, At
<1> QED
  BY <1>1, IInvIsInvariant, PTL
-----------------------------------------------------------------------------
\* What WriteOnce sees of a record.
Seen(rec) ==
  IF rec.status = "done" THEN [outcome |-> rec.response, until |-> rec.expiresAt]
                         ELSE [outcome |-> "none", until |-> 0]

\* Steps the promise does not see: no outcome comes on record or goes.
LEMMA Unseen ==
  ASSUME UNCHANGED <<clock, writes>>, \A k \in Key : Seen(record'[k]) = Seen(record[k])
  PROVE  UNCHANGED Promise!vars
BY DEF Promise!vars, Seen

LEMMA ClaimForgets ==
  ASSUME IInv, NEW r \in Request, Claim(r)
  PROVE  Promise!Next \/ UNCHANGED Promise!vars
<1> DEFINE key == request[r].key
<1>1. key \in Key /\ request[r].now \in Int /\ request[r].now <= clock /\ clock \in Int
  BY TimeAssumption DEF IInv, TypeOK, RequestsAreRead, Claim, At
<1>2. /\ record'[key].status = "in_progress"
      /\ \A k \in Key \ {key} : record'[k] = record[k]
      /\ UNCHANGED <<clock, writes>>
  BY <1>1 DEF Claim, IInv, TypeOK
<1>3. CASE record[key].status # "done"
  BY <1>1, <1>2, <1>3, Unseen DEF Seen
\* The outcome of an expired record goes with it.
<1>4. CASE record[key].status = "done"
  <2>1. record[key] # NoRecord /\ record[key].response \in Outcome
        /\ record[key].expiresAt <= request[r].now /\ record[key].expiresAt \in Int
    BY <1>1, <1>4, TimeAssumption
       DEF Claim, Ours, Expired, Abandoned, NoRecord, IInv, RecordsAreWhole, RequestsAreRead
  <2>2. PICK k \in Key : k = key
    BY <1>1
  <2>3. Promise!Forget(k)
    BY <1>1, <1>2, <1>4, <2>1, <2>2 DEF Promise!Forget, Promise!NoAnswer
  <2> QED
    BY <2>3 DEF Promise!Next
<1> QED
  BY <1>3, <1>4

LEMMA CommitDecides ==
  ASSUME IInv, NEW r \in Request, NEW o \in Outcome, Commit(r, o)
  PROVE  Promise!Next
<1> DEFINE key == request[r].key
           until == record[key].expiresAt
<1>1. key \in Key /\ record[key].status = "in_progress" /\ record[key] # NoRecord
  BY DEF IInv, TypeOK, RequestsAreRead, Commit, At, Holds, NoRecord
<1>2. until \in TTL .. TTL + MaxClock
  BY <1>1, TimeAssumption DEF IInv, TypeOK, RequestsAreRead
<1>3. /\ record'[key].status = "done" /\ record'[key].response = o
      /\ record'[key].expiresAt = until
      /\ \A k \in Key \ {key} : record'[k] = record[k]
  <2>1. record[key] \in Records
    BY <1>1 DEF IInv, TypeOK
  <2>2. /\ record'[key] = [record[key] EXCEPT !.status = "done", !.response = o,
                                              !.updatedAt = request[r].now]
        /\ \A k \in Key \ {key} : record'[k] = record[k]
    BY <1>1 DEF Commit, IInv, TypeOK
  <2> QED
    BY <2>1, <2>2 DEF Records
<1>4. PICK k \in Key, end \in TTL .. TTL + MaxClock : k = key /\ end = until
  BY <1>1, <1>2
<1>5. Promise!Decide(k, o, end)
  BY <1>1, <1>3, <1>4 DEF Promise!Decide, Promise!NoAnswer, Commit
<1> QED
  BY <1>5 DEF Promise!Next

LEMMA PruningSweeps ==
  ASSUME IInv, pruneIdempotencyRecords
  PROVE  Promise!Next
<1> DEFINE K == {k \in Key : Expired(record[k], clock) /\ record[k].status = "done"}
<1>1. \A k \in Key : record'[k] = IF Expired(record[k], clock) THEN NoRecord ELSE record[k]
  BY DEF pruneIdempotencyRecords
<1>2. \A k \in K : record[k].response \in Outcome /\ record[k].expiresAt <= clock
  BY DEF Expired, IInv, RecordsAreWhole
<1>3. PICK S \in SUBSET Key : S = K
  OBVIOUS
<1>4. Promise!Sweep(S)
  BY <1>1, <1>2, <1>3 DEF Promise!Sweep, Promise!NoAnswer, pruneIdempotencyRecords, NoRecord
<1> QED
  BY <1>4 DEF Promise!Next

LEMMA ReleaseIsUnseen ==
  ASSUME NEW r \in Request, Release(r)
  PROVE  UNCHANGED Promise!vars
BY Unseen DEF Release, Releasable, Seen, NoRecord

\* A key makes at most one write in its window, and its first outcome stands
\* until the window is over: the record implements the register of WriteOnce
\* for any number of requests, takeovers and crashes (idempotency.ts:12 to 16).
THEOREM TheRecordKeepsThePromise == Spec => KeepsThePromise
<1>1. Init => Promise!Init
  BY DEF Init, Promise!Init, Promise!NoAnswer, NoRecord
<1>2. IInv /\ [Next]_vars => [Promise!Next]_(Promise!vars)
  <2> SUFFICES ASSUME IInv, [Next]_vars PROVE Promise!Next \/ UNCHANGED Promise!vars
    OBVIOUS
  <2>1. ASSUME NEW r \in Request,
               \/ \E k \in Key, h \in Hash : Arrive(r, k, h)
               \/ Beaten(r) \/ ReadExisting(r) \/ RollBack(r) \/ CommitUnknown(r) \/ Reply(r)
               \/ Crash(r)
        PROVE  UNCHANGED Promise!vars
    BY <2>1, Unseen DEF Arrive, Beaten, ReadExisting, RollBack, CommitUnknown, Reply, Crash
  <2>2. Tick => Promise!Next
    BY DEF Tick, Promise!Next, Promise!Tick
  <2>3. UNCHANGED vars => UNCHANGED Promise!vars
    BY Unseen DEF vars
  <2> QED
    BY <2>1, <2>2, <2>3, ClaimForgets, CommitDecides, PruningSweeps, ReleaseIsUnseen DEF Next
<1> QED
  BY <1>1, <1>2, IInvIsInvariant, PTL DEF Spec, KeepsThePromise
-----------------------------------------------------------------------------
(* The log of events and its deliveries.                                   *)

Open == {w \in Writer : writer[w].stage = "open"}

\* At most one transaction has a number and is not committed; the others have
\* none, and everything below is committed.
Numbering ==
  /\ \A w, v \in Writer : (NumberedBy(w) /\ NumberedBy(v)) => w = v
  /\ \A w \in Writer : NumberedBy(w) => writer[w].seq = last /\ last > 0
  /\ \A w \in Writer : writer[w].stage # "idle" => writer[w].type \in Type
  /\ \A n \in Number : n \in Committed <=> (n <= last /\ \A w \in Writer : NumberedBy(w) => n < last)
  /\ last + Cardinality(Open) <= MaxEvents

\* No cursor an endpoint had is ahead of the log.
Behind(r) == /\ r.cursor = 0 \/ r.cursor \in r.had
             /\ \A c \in r.had : c = 0 \/ c \in Committed

CursorsBehind == \A e \in Endpoint : Behind(endpoint[e])

\* What a sweep has in hand: committed events it looked at since, or a delivery
\* of an event with a body.
InHand(x) ==
  /\ x.stage = "fanning" => x.ep \in Endpoint /\ x.upto \in Committed /\ x.upto <= x.view
  /\ x.stage \in {"claimed", "sending"} =>
       x.ep \in Endpoint /\ x.event \in Number /\ x.attempts > 0 /\ snapshot[x.event] # 0

SweepsInHand == \A s \in Sweep : InHand(sweep[s])

RowsHaveBodies ==
  \A e \in Endpoint, n \in Number :
    IF delivery[e][n].status = "none" THEN delivery[e][n] = NoDelivery ELSE snapshot[n] # 0

ReadersLookAfter ==
  \A r \in Reader :
    reader[r].stage = "reading" => reader[r].event \in Number /\ reader[r].event <= reader[r].view

BodiesStand ==
  \A n \in Number :
    /\ snapshot[n] # 0 => n <= snapshot[n]
    /\ \A body \in heard[n] : body.view = snapshot[n] /\ body.view # 0

HookInv ==
  /\ HooksTypeOK /\ Numbering /\ CursorsBehind /\ SweepsInHand
  /\ RowsHaveBodies /\ ReadersLookAfter /\ BodiesStand /\ NothingSkipped

-----------------------------------------------------------------------------
(* The shape of the data.                                                  *)

LogTypes == /\ last \in 0 .. MaxEvents
            /\ log \in [Number -> Type \cup {NoEvent}]
            /\ writer \in [Writer -> WriterT]
BodyTypes == /\ snapshot \in [Number -> 0 .. MaxEvents]
             /\ heard \in [Number -> SUBSET EventBody]
EndTypes == /\ endpoint \in [Endpoint -> EndpointT]
            /\ delivery \in [Endpoint -> [Number -> RowT]]
ActorTypes == /\ sweep \in [Sweep -> SweepT]
              /\ reader \in [Reader -> ReaderT]

LEMMA TypesAre ==
  HooksTypeOK <=> LogTypes /\ BodyTypes /\ EndTypes /\ ActorTypes /\ mishaps \in 0 .. MaxMishaps
BY DEF HooksTypeOK, LogTypes, BodyTypes, EndTypes, ActorTypes

LEMMA TypesNext ==
  ASSUME LogTypes', BodyTypes', EndTypes', ActorTypes', (mishaps \in 0 .. MaxMishaps)'
  PROVE  HooksTypeOK'
BY DEF HooksTypeOK, LogTypes, BodyTypes, EndTypes, ActorTypes

LEMMA MishapsType ==
  ASSUME HooksTypeOK, Upset \/ mishaps' = mishaps
  PROVE  mishaps' \in 0 .. MaxMishaps
BY HooksAssumption DEF HooksTypeOK, Upset

LEMMA OpenIsFinite == IsFiniteSet(Open) /\ Cardinality(Open) \in Nat
<1>1. Open \subseteq Writer
  BY DEF Open
<1>2. IsFiniteSet(Open)
  BY <1>1, HooksAssumption, FS_Subset
<1> QED
  BY <1>2, FS_CardinalityType

LEMMA EmptyRow == /\ NoDelivery \in RowT /\ NoDelivery.status = "none"
                  /\ Queued \in RowT /\ Queued.status = "pending"
                  /\ Requeued \in RowT /\ Requeued.status = "pending"
<1>1. NoDelivery \in RowT /\ NoDelivery.status = "none"
  BY HooksAssumption DEF NoDelivery, RowT
<1>2. Queued \in RowT /\ Queued.status = "pending"
  BY <1>1 DEF Queued, RowT
<1>3. Requeued \in RowT /\ Requeued.status = "pending"
  BY <1>2 DEF Requeued, RowT
<1> QED
  BY <1>1, <1>2, <1>3

\* An event that has to have a delivery for an endpoint in this state.
Owed(r, k) ==
  \/ r.start < k /\ \E c \in r.had : k <= c
  \/ r.since < k /\ k <= r.cursor

LEMMA SkippedIsOwed ==
  NothingSkipped <=> \A e \in Endpoint, n \in Number :
                       (Wanted(e, n) /\ Owed(endpoint[e], n)) => delivery[e][n] # NoDelivery
BY DEF NothingSkipped, Owed

LEMMA SkippedIsOwedNext ==
  ASSUME \A e \in Endpoint, n \in Number :
           (Wanted(e, n)' /\ Owed(endpoint'[e], n)) => delivery'[e][n] # NoDelivery
  PROVE  NothingSkipped'
BY DEF NothingSkipped, Owed

LEMMA RestingType == Resting \in SweepT /\ Resting.stage = "idle"
BY HooksAssumption DEF Resting, SweepT

-----------------------------------------------------------------------------
(* The log.                                                                *)

\* The committed events are 1 .. View.
LEMMA LogIsAPrefix ==
  ASSUME LogTypes, Numbering
  PROVE  View \in 0 .. MaxEvents /\ Committed = 1 .. View
<1> DEFINE top == IF \E w \in Writer : NumberedBy(w) THEN last - 1 ELSE last
<1>1. last \in 0 .. MaxEvents
  BY DEF LogTypes
<1>2. top \in 0 .. MaxEvents
  BY <1>1, HooksAssumption DEF Numbering
<1>3. \A n \in Number : n \in Committed <=> n <= top
  BY <1>1 DEF Numbering, Number
<1> HIDE DEF top
<1>4. Committed = 1 .. top
  BY <1>2, <1>3, HooksAssumption DEF Committed, Number
<1>5. Cardinality(1 .. top) = top
  BY <1>2, FS_Interval, HooksAssumption
<1> QED
  BY <1>2, <1>4, <1>5 DEF View

\* Nobody but a writer touches the log.
LEMMA LogStands ==
  ASSUME Numbering, LogTypes, UNCHANGED <<last, log, writer>>
  PROVE  /\ Numbering' /\ LogTypes' /\ Committed' = Committed /\ View' = View
         /\ \A e \in Endpoint, n \in Number : Wanted(e, n)' = Wanted(e, n)
<1>1. Committed' = Committed /\ Open' = Open /\ \A w \in Writer : NumberedBy(w)' = NumberedBy(w)
  BY DEF Committed, Open, NumberedBy
<1>2. View' = View
  BY <1>1 DEF View
<1>3. LogTypes'
  BY DEF LogTypes
<1>4. Numbering'
  BY <1>1 DEF Numbering
<1> QED
  BY <1>1, <1>2, <1>3, <1>4 DEF Wanted

\* One writer's row of the table of writers is replaced.
LEMMA WriterReplaced ==
  ASSUME LogTypes, NEW w \in Writer, NEW rec \in WriterT, writer' = [writer EXCEPT ![w] = rec]
  PROVE  /\ writer' \in [Writer -> WriterT] /\ writer'[w] = rec
         /\ \A v \in Writer \ {w} : writer'[v] = writer[v]
BY DEF LogTypes

LEMMA InsertKeeps ==
  ASSUME LogTypes, Numbering, NEW w \in Writer, NEW t \in Type, Insert(w, t)
  PROVE  LogTypes' /\ Numbering' /\ Committed' = Committed /\ log' = log
<1> DEFINE rec == [stage |-> "open", type |-> t, seq |-> 0]
<1>1. rec \in WriterT /\ rec.stage = "open" /\ rec.type = t
  BY HooksAssumption DEF WriterT
<1>2. writer' = [writer EXCEPT ![w] = rec] /\ writer[w].stage = "idle"
      /\ last' = last /\ log' = log /\ last + Cardinality(Open) < MaxEvents
  BY DEF Insert, Open
<1> HIDE DEF rec
<1>3. /\ writer' \in [Writer -> WriterT] /\ writer'[w] = rec
      /\ \A v \in Writer \ {w} : writer'[v] = writer[v]
  BY <1>1, <1>2, WriterReplaced
<1>4. LogTypes' /\ Committed' = Committed
  BY <1>2, <1>3 DEF LogTypes, Committed
<1>5. \A v \in Writer : NumberedBy(v)' = NumberedBy(v)
  BY <1>1, <1>2, <1>3 DEF NumberedBy
<1>6. Open' = Open \cup {w} /\ w \notin Open
  BY <1>1, <1>2, <1>3 DEF Open
<1>7. Cardinality(Open') = Cardinality(Open) + 1
  BY <1>6, OpenIsFinite, FS_AddElement
<1>8. last' + Cardinality(Open') <= MaxEvents
  BY <1>2, <1>7, OpenIsFinite, HooksAssumption DEF LogTypes
<1>9. \A v \in Writer : writer'[v].stage # "idle" => writer'[v].type \in Type
  BY <1>1, <1>3 DEF Numbering
<1>10. \A v \in Writer : NumberedBy(v)' => writer'[v].seq = last' /\ last' > 0
  BY <1>1, <1>2, <1>3, <1>5 DEF Numbering, NumberedBy
<1>11. Numbering'
  <2>1. \A v, u \in Writer : (NumberedBy(v)' /\ NumberedBy(u)') => v = u
    BY <1>5 DEF Numbering
  <2>2. \A n \in Number : n \in Committed' <=>
          (n <= last' /\ \A v \in Writer : NumberedBy(v)' => n < last')
    BY <1>2, <1>4, <1>5 DEF Numbering
  <2> QED
    BY <1>8, <1>9, <1>10, <2>1, <2>2 DEF Numbering
<1> QED
  BY <1>2, <1>4, <1>11

LEMMA AssignKeeps ==
  ASSUME LogTypes, Numbering, NEW w \in Writer, AssignSeq(w)
  PROVE  LogTypes' /\ Numbering' /\ Committed' = Committed /\ log' = log
<1> DEFINE rec == [writer[w] EXCEPT !.stage = "numbered", !.seq = last + 1]
<1>1. /\ last \in Nat /\ last' = last + 1 /\ log' = log
      /\ writer[w].stage = "open" /\ \A v \in Writer : ~NumberedBy(v)
      /\ writer' = [writer EXCEPT ![w].stage = "numbered", ![w].seq = last + 1]
  BY DEF AssignSeq, MayNumber, LogTypes
<1>2. writer' = [writer EXCEPT ![w] = rec]
  BY <1>1 DEF LogTypes
<1>3. w \in Open
  BY <1>1 DEF Open
<1>4. Cardinality(Open \ {w}) = Cardinality(Open) - 1 /\ Cardinality(Open) > 0
  <2>1. Cardinality(Open \ {w}) = Cardinality(Open) - 1 /\ IsFiniteSet(Open \ {w})
    BY <1>3, OpenIsFinite, FS_RemoveElement
  <2> QED
    BY <2>1, OpenIsFinite, FS_CardinalityType
<1>5. last + 1 \in 1 .. MaxEvents
  BY <1>1, <1>4, OpenIsFinite, HooksAssumption DEF Numbering
<1>6. rec \in WriterT /\ rec.stage = "numbered" /\ rec.seq = last + 1 /\ rec.type = writer[w].type
  <2>1. writer[w] \in WriterT /\ last + 1 \in 0 .. MaxEvents
    BY <1>5, HooksAssumption DEF LogTypes
  <2> QED
    BY <2>1 DEF WriterT
<1> HIDE DEF rec
<1>7. /\ writer' \in [Writer -> WriterT] /\ writer'[w] = rec
      /\ \A v \in Writer \ {w} : writer'[v] = writer[v]
  BY <1>2, <1>6, WriterReplaced
<1>8. LogTypes' /\ Committed' = Committed
  BY <1>1, <1>5, <1>7 DEF LogTypes, Committed
<1>9. \A v \in Writer : NumberedBy(v)' <=> v = w
  BY <1>1, <1>6, <1>7 DEF NumberedBy
<1>10. Open' = Open \ {w}
  BY <1>6, <1>7 DEF Open
<1>11. last' + Cardinality(Open') <= MaxEvents
  BY <1>1, <1>4, <1>10, OpenIsFinite, HooksAssumption DEF Numbering
<1>12. \A v \in Writer : writer'[v].stage # "idle" => writer'[v].type \in Type
  BY <1>1, <1>6, <1>7 DEF Numbering
<1>13. \A v \in Writer : NumberedBy(v)' => writer'[v].seq = last' /\ last' > 0
  BY <1>1, <1>6, <1>7, <1>9
<1>14. \A n \in Number : n \in Committed' <=>
         (n <= last' /\ \A v \in Writer : NumberedBy(v)' => n < last')
  <2>1. \A n \in Number : n \in Committed <=> n <= last
    BY <1>1 DEF Numbering
  <2>2. \A n \in Number : n \in Int
    BY HooksAssumption DEF Number
  <2> QED
    BY <1>1, <1>8, <1>9, <2>1, <2>2
<1>15. Numbering'
  <2>1. \A v, u \in Writer : (NumberedBy(v)' /\ NumberedBy(u)') => v = u
    BY <1>9
  <2> QED
    BY <1>11, <1>12, <1>13, <1>14, <2>1 DEF Numbering
<1> QED
  BY <1>1, <1>8, <1>15

IdleWriter == [stage |-> "idle", type |-> NoEvent, seq |-> 0]

\* A commit publishes the last number and no other.
LEMMA CommitKeeps ==
  ASSUME LogTypes, Numbering, NEW w \in Writer, WriterCommits(w)
  PROVE  /\ LogTypes' /\ Numbering'
         /\ last \in Number /\ last \notin Committed /\ Committed' = Committed \cup {last}
         /\ \A n \in Number \ {last} : log'[n] = log[n]
<1>1. /\ NumberedBy(w) /\ writer[w].stage = "numbered" /\ writer[w].seq = last /\ last > 0
      /\ writer[w].type \in Type
      /\ log' = [log EXCEPT ![last] = writer[w].type]
      /\ writer' = [writer EXCEPT ![w] = IdleWriter] /\ last' = last
  BY DEF WriterCommits, Numbering, NumberedBy, IdleWriter
<1>2. last \in Number
  BY <1>1, HooksAssumption DEF LogTypes, Number
<1>3. IdleWriter \in WriterT /\ IdleWriter.stage = "idle"
  BY HooksAssumption DEF IdleWriter, WriterT
<1>4. /\ writer' \in [Writer -> WriterT] /\ writer'[w] = IdleWriter
      /\ \A v \in Writer \ {w} : writer'[v] = writer[v]
  BY <1>1, <1>3, WriterReplaced
<1>5. log' \in [Number -> Type \cup {NoEvent}] /\ log'[last] \in Type
      /\ \A n \in Number \ {last} : log'[n] = log[n]
  BY <1>1, <1>2 DEF LogTypes
<1>6. LogTypes'
  BY <1>1, <1>4, <1>5 DEF LogTypes
<1>7. Committed' = Committed \cup {last}
  BY <1>2, <1>5, TypeAssumption DEF Committed
<1>8. last \notin Committed
  BY <1>1, <1>2 DEF Numbering, Number
<1>9. \A v \in Writer : ~NumberedBy(v)'
  BY <1>1, <1>3, <1>4 DEF NumberedBy, Numbering
<1>10. Open' = Open
  BY <1>1, <1>3, <1>4 DEF Open
<1>11. \A v \in Writer : writer'[v].stage # "idle" => writer'[v].type \in Type
  BY <1>3, <1>4 DEF Numbering
<1>12. \A n \in Number : n \in Committed' <=>
         (n <= last' /\ \A v \in Writer : NumberedBy(v)' => n < last')
  <2>1. \A n \in Number : n \in Committed <=> n < last
    BY <1>1, <1>2 DEF Numbering, Number
  <2>2. \A n \in Number : n \in Int
    BY HooksAssumption DEF Number
  <2> QED
    BY <1>1, <1>2, <1>7, <1>9, <2>1, <2>2
<1>13. last' + Cardinality(Open') <= MaxEvents
  BY <1>1, <1>10 DEF Numbering
<1>14. Numbering'
  BY <1>9, <1>11, <1>12, <1>13 DEF Numbering
<1> QED
  BY <1>2, <1>5, <1>6, <1>7, <1>8, <1>14

\* A number nobody committed is given again.
LEMMA RollbackKeeps ==
  ASSUME LogTypes, Numbering, NEW w \in Writer, WriterFails(w)
  PROVE  LogTypes' /\ Numbering' /\ Committed' = Committed /\ log' = log
<1>1. /\ writer[w].stage # "idle" /\ log' = log
      /\ last' = IF NumberedBy(w) THEN last - 1 ELSE last
      /\ writer' = [writer EXCEPT ![w] = IdleWriter]
  BY DEF WriterFails, IdleWriter
<1>2. IdleWriter \in WriterT /\ IdleWriter.stage = "idle"
  BY HooksAssumption DEF IdleWriter, WriterT
<1>3. /\ writer' \in [Writer -> WriterT] /\ writer'[w] = IdleWriter
      /\ \A v \in Writer \ {w} : writer'[v] = writer[v]
  BY <1>1, <1>2, WriterReplaced
<1>4. last \in 0 .. MaxEvents /\ (NumberedBy(w) => last > 0)
  BY DEF LogTypes, Numbering
<1>5. last' \in 0 .. MaxEvents
  BY <1>1, <1>4, HooksAssumption
<1>6. LogTypes' /\ Committed' = Committed
  BY <1>1, <1>3, <1>5 DEF LogTypes, Committed
<1>7. \A v \in Writer : NumberedBy(v)' <=> (NumberedBy(v) /\ v # w)
  BY <1>2, <1>3 DEF NumberedBy
<1>8. Open' = Open \ {w}
  BY <1>2, <1>3 DEF Open
<1>9. Cardinality(Open') \in Nat /\ Cardinality(Open') <= Cardinality(Open)
  <2>1. Open' \subseteq Open /\ IsFiniteSet(Open)
    BY <1>8, OpenIsFinite
  <2>2. IsFiniteSet(Open') /\ Cardinality(Open') <= Cardinality(Open)
    BY <2>1, FS_Subset
  <2> QED
    BY <2>2, FS_CardinalityType
<1>10. last' + Cardinality(Open') <= MaxEvents
  BY <1>1, <1>4, <1>9, OpenIsFinite, HooksAssumption DEF Numbering
<1>11. \A v \in Writer : writer'[v].stage # "idle" => writer'[v].type \in Type
  BY <1>2, <1>3 DEF Numbering
<1>12. \A n \in Number : n \in Int
  BY HooksAssumption DEF Number
<1>13. CASE NumberedBy(w)
  <2>1. \A v \in Writer : ~NumberedBy(v)'
    BY <1>7, <1>13 DEF Numbering
  <2>2. \A n \in Number : n \in Committed' <=> n <= last'
    BY <1>1, <1>4, <1>6, <1>12, <1>13 DEF Numbering
  <2>3. Numbering'
    BY <1>10, <1>11, <2>1, <2>2 DEF Numbering
  <2> QED
    BY <1>1, <1>6, <2>3
<1>14. CASE ~NumberedBy(w)
  <2>1. \A v \in Writer : NumberedBy(v)' = NumberedBy(v)
    BY <1>7, <1>14 DEF NumberedBy
  <2>2. last' = last
    BY <1>1, <1>14
  <2>3. \A v \in Writer : NumberedBy(v)' => writer'[v].seq = last' /\ last' > 0
    BY <1>3, <1>7, <2>2 DEF Numbering
  <2>4. \A n \in Number : n \in Committed' <=>
          (n <= last' /\ \A v \in Writer : NumberedBy(v)' => n < last')
    BY <1>6, <2>1, <2>2 DEF Numbering
  <2>5. \A v, u \in Writer : (NumberedBy(v)' /\ NumberedBy(u)') => v = u
    BY <2>1 DEF Numbering
  <2>6. Numbering'
    BY <1>10, <1>11, <2>3, <2>4, <2>5 DEF Numbering
  <2> QED
    BY <1>1, <1>6, <2>6
<1> QED
  BY <1>13, <1>14

-----------------------------------------------------------------------------
(* What a step that leaves a part of the state alone leaves true of it.    *)

\* Bodies on record stay.
BodiesKept == \A n \in Number : snapshot[n] # 0 => snapshot'[n] = snapshot[n]

LEMMA InHandStands ==
  ASSUME NEW x, InHand(x), Committed \subseteq Committed', BodiesKept
  PROVE  InHand(x)'
BY DEF InHand, BodiesKept

LEMMA SweepsStand ==
  ASSUME SweepsInHand, sweep' = sweep, Committed \subseteq Committed', BodiesKept
  PROVE  SweepsInHand'
<1>1. ASSUME NEW s \in Sweep
      PROVE  InHand(sweep[s])'
  BY InHandStands DEF SweepsInHand, InHand, BodiesKept
<1> QED
  BY <1>1 DEF SweepsInHand

\* One sweep goes on with rec in hand.
LEMMA SweepReplaced ==
  ASSUME ActorTypes, SweepsInHand, NEW s \in Sweep, NEW rec \in SweepT, InHand(rec)',
         sweep' = [sweep EXCEPT ![s] = rec], reader' = reader,
         Committed \subseteq Committed', BodiesKept
  PROVE  ActorTypes' /\ SweepsInHand'
<1>1. /\ sweep' \in [Sweep -> SweepT] /\ sweep'[s] = rec
      /\ \A z \in Sweep \ {s} : sweep'[z] = sweep[z]
  BY DEF ActorTypes
<1>2. ActorTypes'
  BY <1>1 DEF ActorTypes
<1>3. ASSUME NEW z \in Sweep
      PROVE  InHand(sweep[z])'
  <2>1. CASE z = s
    BY <1>1, <2>1 DEF InHand
  <2>2. CASE z # s
    BY <1>1, <2>2 DEF SweepsInHand, InHand, BodiesKept
  <2> QED
    BY <2>1, <2>2
<1> QED
  BY <1>2, <1>3 DEF SweepsInHand

LEMMA RowsStand ==
  ASSUME RowsHaveBodies, delivery' = delivery, BodiesKept
  PROVE  RowsHaveBodies'
BY DEF RowsHaveBodies, BodiesKept

LEMMA NothingSkippedStands ==
  ASSUME NothingSkipped, delivery' = delivery, endpoint' = endpoint,
         \A e \in Endpoint, n \in Number : Wanted(e, n)' = Wanted(e, n)
  PROVE  NothingSkipped'
BY DEF NothingSkipped

\* A step of a sweep that only changes what it has in hand.
LEMMA SweepGoesOn ==
  ASSUME HookInv, NEW s \in Sweep, NEW rec \in SweepT, InHand(rec),
         sweep' = [sweep EXCEPT ![s] = rec],
         UNCHANGED <<last, log, writer, snapshot, endpoint, delivery, reader, heard>>,
         Upset \/ mishaps' = mishaps
  PROVE  HookInv'
<1>1. LogTypes /\ BodyTypes /\ EndTypes /\ ActorTypes
  BY TypesAre DEF HookInv
<1>2. /\ Numbering' /\ LogTypes' /\ Committed' = Committed
      /\ \A e \in Endpoint, n \in Number : Wanted(e, n)' = Wanted(e, n)
  BY <1>1, LogStands DEF HookInv
<1>3. InHand(rec)' /\ BodiesKept
  BY <1>2 DEF InHand, BodiesKept
<1>4. ActorTypes' /\ SweepsInHand'
  BY <1>1, <1>2, <1>3, SweepReplaced DEF HookInv
<1>5. BodyTypes' /\ EndTypes'
  BY <1>1 DEF BodyTypes, EndTypes
<1>6. CursorsBehind' /\ ReadersLookAfter' /\ BodiesStand'
  BY <1>2 DEF HookInv, CursorsBehind, Behind, ReadersLookAfter, BodiesStand
<1>7. RowsHaveBodies' /\ NothingSkipped'
  BY <1>2, <1>3, RowsStand, NothingSkippedStands DEF HookInv
<1>8. HooksTypeOK'
  BY <1>2, <1>4, <1>5, MishapsType, TypesNext DEF HookInv
<1> QED
  BY <1>2, <1>4, <1>6, <1>7, <1>8 DEF HookInv

-----------------------------------------------------------------------------
(* Step by step: the writers and the readers.                              *)

LEMMA WriterStepKeeps ==
  ASSUME HookInv, NEW w \in Writer, WriterStep(w)
  PROVE  HookInv'
<1>1. LogTypes /\ BodyTypes /\ EndTypes /\ ActorTypes /\ Numbering
  BY TypesAre DEF HookInv
<1>2. UNCHANGED <<snapshot, endpoint, delivery, sweep, reader, heard>> /\ (Upset \/ mishaps' = mishaps)
  BY DEF WriterStep, Insert, AssignSeq, WriterCommits, WriterFails
<1>3. /\ LogTypes' /\ Numbering' /\ Committed \subseteq Committed'
      /\ \A n \in Committed : log'[n] = log[n]
  <2>1. CASE WriterCommits(w)
    BY <1>1, <2>1, CommitKeeps DEF Committed
  <2>2. CASE ~WriterCommits(w)
    <3>1. \/ \E t \in Type : Insert(w, t)
          \/ AssignSeq(w) \/ WriterFails(w)
      BY <2>2 DEF WriterStep
    <3> QED
      BY <1>1, <3>1, InsertKeeps, AssignKeeps, RollbackKeeps
  <2> QED
    BY <2>1, <2>2
<1>4. BodiesKept
  BY <1>2 DEF BodiesKept
<1>5. SweepsInHand' /\ RowsHaveBodies' /\ ReadersLookAfter' /\ BodiesStand'
  BY <1>2, <1>3, <1>4, SweepsStand, RowsStand DEF HookInv, ReadersLookAfter, BodiesStand
<1>6. CursorsBehind'
  BY <1>2, <1>3 DEF HookInv, CursorsBehind, Behind
<1>7. NothingSkipped'
  <2> SUFFICES ASSUME NEW e \in Endpoint, NEW n \in Number, Owed(endpoint[e], n), Wanted(e, n)'
               PROVE  delivery[e][n] # NoDelivery
    BY <1>2, SkippedIsOwedNext
  <2>1. n \in Committed
    <3>1. Committed = 1 .. View /\ View \in Int
      BY <1>1, LogIsAPrefix
    <3>2. n \in Int /\ n >= 1
      BY HooksAssumption DEF Number
    <3>3. \A c \in endpoint[e].had \cup {endpoint[e].cursor} : c = 0 \/ c \in Committed
      BY DEF HookInv, CursorsBehind, Behind
    <3>4. \E c \in endpoint[e].had \cup {endpoint[e].cursor} : n <= c
      BY DEF Owed
    <3> QED
      BY <3>1, <3>2, <3>3, <3>4
  <2>2. Wanted(e, n)
    BY <1>3, <2>1 DEF Wanted
  <2> QED
    BY <2>2, SkippedIsOwed DEF HookInv
<1>8. BodyTypes' /\ EndTypes' /\ ActorTypes'
  BY <1>1, <1>2 DEF BodyTypes, EndTypes, ActorTypes
<1>9. HooksTypeOK'
  BY <1>2, <1>3, <1>8, MishapsType, TypesNext DEF HookInv
<1> QED
  BY <1>3, <1>5, <1>6, <1>7, <1>9 DEF HookInv

LEMMA ListKeeps ==
  ASSUME HookInv, NEW r \in Reader, NEW n \in Number, ListEvents(r, n)
  PROVE  HookInv'
<1>1. LogTypes /\ BodyTypes /\ EndTypes /\ ActorTypes /\ Numbering
  BY TypesAre DEF HookInv
<1> DEFINE rec == [stage |-> "reading", event |-> n, view |-> View]
<1>2. /\ n \in Committed /\ reader' = [reader EXCEPT ![r] = rec]
      /\ Upset
      /\ UNCHANGED <<last, log, writer, snapshot, endpoint, delivery, sweep, heard>>
  BY DEF ListEvents
<1>3. Committed = 1 .. View /\ View \in 0 .. MaxEvents
  BY <1>1, LogIsAPrefix
<1>4. rec \in ReaderT /\ rec.event \in Number /\ rec.event <= rec.view
  BY <1>2, <1>3, HooksAssumption DEF ReaderT, Number
<1> HIDE DEF rec
<1>5. reader' \in [Reader -> ReaderT] /\ ReadersLookAfter'
  BY <1>1, <1>2, <1>4 DEF HookInv, ReadersLookAfter, ActorTypes
<1>6. /\ Numbering' /\ LogTypes' /\ Committed' = Committed
      /\ \A e \in Endpoint, k \in Number : Wanted(e, k)' = Wanted(e, k)
  BY <1>1, <1>2, LogStands
<1>7. BodiesKept
  BY <1>2 DEF BodiesKept
<1>8. SweepsInHand' /\ RowsHaveBodies' /\ NothingSkipped'
  BY <1>2, <1>6, <1>7, SweepsStand, RowsStand, NothingSkippedStands DEF HookInv
<1>9. CursorsBehind' /\ BodiesStand'
  BY <1>2, <1>6 DEF HookInv, CursorsBehind, Behind, BodiesStand
<1>10. BodyTypes' /\ EndTypes' /\ ActorTypes'
  BY <1>1, <1>2, <1>5 DEF BodyTypes, EndTypes, ActorTypes
<1>11. HooksTypeOK'
  BY <1>2, <1>6, <1>10, MishapsType, TypesNext DEF HookInv
<1> QED
  BY <1>5, <1>6, <1>8, <1>9, <1>11 DEF HookInv

\* A body captured for a number is on record, and from after the event.
LEMMA CapturedIsABody ==
  ASSUME BodyTypes, BodiesStand, NEW n \in Number, NEW view \in 0 .. MaxEvents, n <= view
  PROVE  /\ captured(n, view) \in 0 .. MaxEvents /\ captured(n, view) # 0 /\ n <= captured(n, view)
         /\ snapshot[n] # 0 => captured(n, view) = snapshot[n]
<1>1. n \in Int /\ n > 0 /\ view \in Int
  BY HooksAssumption DEF Number
<1>2. snapshot[n] \in 0 .. MaxEvents
  BY DEF BodyTypes
<1> QED
  BY <1>1, <1>2 DEF captured, BodiesStand

LEMMA SnapshotsKeeps ==
  ASSUME HookInv, NEW r \in Reader, SnapshotsFor(r)
  PROVE  HookInv'
<1>1. LogTypes /\ BodyTypes /\ EndTypes /\ ActorTypes /\ Numbering
  BY TypesAre DEF HookInv
<1> DEFINE n == reader[r].event
           view == reader[r].view
           b == captured(n, view)
           body == [view |-> b, contacts |-> "none", copy |-> "first"]
           rec == [stage |-> "idle", event |-> 0, view |-> 0]
<1>2. /\ reader[r].stage = "reading" /\ reader' = [reader EXCEPT ![r] = rec]
      /\ snapshot' = [snapshot EXCEPT ![n] = b]
      /\ heard' = [heard EXCEPT ![n] = @ \cup {[view |-> snapshot'[n], contacts |-> "none", copy |-> "first"]}]
      /\ UNCHANGED <<last, log, writer, endpoint, delivery, sweep, mishaps>>
  BY DEF SnapshotsFor
<1>3. n \in Number /\ n <= view /\ view \in 0 .. MaxEvents
  BY <1>1, <1>2 DEF HookInv, ReadersLookAfter, ActorTypes, ReaderT
<1>4. b \in 0 .. MaxEvents /\ b # 0 /\ n <= b /\ (snapshot[n] # 0 => b = snapshot[n])
  BY <1>1, <1>3, CapturedIsABody DEF HookInv
<1>5. rec \in ReaderT /\ rec.stage = "idle"
  BY HooksAssumption DEF ReaderT
<1>51. body \in EventBody /\ body.view = b
  BY <1>4 DEF EventBody
<1> HIDE DEF n, view, b, rec
<1>6. snapshot'[n] = b /\ \A k \in Number \ {n} : snapshot'[k] = snapshot[k]
  BY <1>1, <1>2, <1>3 DEF BodyTypes
<1>7. heard'[n] = heard[n] \cup {body} /\ \A k \in Number \ {n} : heard'[k] = heard[k]
  BY <1>1, <1>2, <1>3, <1>6 DEF BodyTypes
<1>8. BodyTypes' /\ BodiesKept
  <2>1. snapshot' \in [Number -> 0 .. MaxEvents]
    BY <1>1, <1>2, <1>4 DEF BodyTypes
  <2>2. heard' \in [Number -> SUBSET EventBody]
    BY <1>1, <1>2, <1>51, <1>6 DEF BodyTypes
  <2>3. BodiesKept
    BY <1>4, <1>6 DEF BodiesKept
  <2> QED
    BY <2>1, <2>2, <2>3 DEF BodyTypes
<1>9. BodiesStand'
  <2>1. ASSUME NEW k \in Number
        PROVE  /\ snapshot'[k] # 0 => k <= snapshot'[k]
               /\ \A x \in heard'[k] : x.view = snapshot'[k] /\ x.view # 0
    <3>1. CASE k = n
      BY <1>4, <1>51, <1>6, <1>7, <3>1 DEF HookInv, BodiesStand
    <3>2. CASE k # n
      BY <1>6, <1>7, <3>2 DEF HookInv, BodiesStand
    <3> QED
      BY <3>1, <3>2
  <2> QED
    BY <2>1 DEF BodiesStand
<1>10. ActorTypes' /\ ReadersLookAfter'
  BY <1>1, <1>2, <1>5 DEF HookInv, ReadersLookAfter, ActorTypes
<1>11. /\ Numbering' /\ LogTypes' /\ Committed' = Committed
       /\ \A e \in Endpoint, k \in Number : Wanted(e, k)' = Wanted(e, k)
  BY <1>1, <1>2, LogStands
<1>12. SweepsInHand' /\ RowsHaveBodies' /\ NothingSkipped'
  BY <1>2, <1>8, <1>11, SweepsStand, RowsStand, NothingSkippedStands DEF HookInv
<1>13. CursorsBehind' /\ EndTypes'
  BY <1>1, <1>2, <1>11 DEF HookInv, CursorsBehind, Behind, EndTypes
<1>14. HooksTypeOK'
  BY <1>2, <1>8, <1>10, <1>11, <1>13, MishapsType, TypesNext DEF HookInv
<1> QED
  BY <1>9, <1>10, <1>11, <1>12, <1>13, <1>14 DEF HookInv

-----------------------------------------------------------------------------
(* Step by step: a sweep that only changes what it has in hand.            *)

LEMMA SweepInHandSteps ==
  ASSUME HookInv, NEW s \in Sweep,
         sweepWebhooks(s) \/ FannedOut(s) \/ SweepEnds(s) \/ SweepDies(s)
  PROVE  HookInv'
<1>1. sweep \in [Sweep -> SweepT]
  BY TypesAre DEF HookInv, ActorTypes
<1>2. /\ UNCHANGED <<last, log, writer, snapshot, endpoint, delivery, reader, heard>>
      /\ Upset \/ mishaps' = mishaps
  BY DEF sweepWebhooks, FannedOut, SweepEnds, SweepDies
<1>3. \E rec \in SweepT : /\ sweep' = [sweep EXCEPT ![s] = rec]
                          /\ rec.stage \in {"idle", "fan", "claim"}
  <2>1. CASE sweepWebhooks(s)
    <3> DEFINE rec == [Resting EXCEPT !.stage = "fan", !.todo = Active]
    <3>1. rec \in SweepT /\ rec.stage = "fan"
      BY RestingType DEF SweepT, Active
    <3>2. sweep' = [sweep EXCEPT ![s] = rec]
      BY <2>1 DEF sweepWebhooks
    <3> QED
      BY <3>1, <3>2
  <2>2. CASE FannedOut(s)
    <3> DEFINE rec == [sweep[s] EXCEPT !.stage = "claim"]
    <3>1. rec \in SweepT /\ rec.stage = "claim"
      BY <1>1 DEF SweepT
    <3>2. sweep' = [sweep EXCEPT ![s] = rec]
      BY <1>1, <2>2 DEF FannedOut
    <3> QED
      BY <3>1, <3>2
  <2>3. CASE SweepEnds(s) \/ SweepDies(s)
    BY <2>3, RestingType DEF SweepEnds, SweepDies
  <2> QED
    BY <2>1, <2>2, <2>3
<1>4. PICK rec \in SweepT : /\ sweep' = [sweep EXCEPT ![s] = rec]
                            /\ rec.stage \in {"idle", "fan", "claim"}
  BY <1>3
<1>5. InHand(rec)
  BY <1>4 DEF InHand
<1> QED
  BY <1>2, <1>4, <1>5, SweepGoesOn

LEMMA FanOutKeeps ==
  ASSUME HookInv, NEW s \in Sweep, NEW e \in Endpoint, FanOut(s, e)
  PROVE  HookInv'
<1>1. sweep \in [Sweep -> SweepT] /\ LogTypes /\ Numbering
  BY TypesAre DEF HookInv, ActorTypes
<1>2. /\ UNCHANGED <<last, log, writer, snapshot, endpoint, delivery, reader, heard>>
      /\ mishaps' = mishaps
  BY DEF FanOut
<1>3. Committed = 1 .. View /\ View \in 0 .. MaxEvents
  BY <1>1, LogIsAPrefix
<1>4. CASE e \in Active /\ Unlocked(e) /\ \E n \in Committed : n > endpoint[e].cursor
  <2> DEFINE top == CHOOSE n \in Committed : \A m \in Committed : m <= n
             rec == [sweep[s] EXCEPT !.stage = "fanning", !.ep = e, !.view = View, !.upto = top]
  <2>1. top \in Committed
    <3>1. View \in Committed /\ \A m \in Committed : m <= View
      BY <1>3, <1>4
    <3> QED
      BY <3>1
  <2>2. sweep' = [sweep EXCEPT ![s].stage = "fanning", ![s].ep = e, ![s].view = View, ![s].upto = top]
    BY <1>4 DEF FanOut
  <2> HIDE DEF top
  <2>3. top \in 0 .. MaxEvents /\ top <= View
    BY <1>3, <2>1, HooksAssumption
  <2>4. sweep' = [sweep EXCEPT ![s] = rec]
    BY <1>1, <2>2
  <2>5. rec \in SweepT /\ rec.stage = "fanning" /\ rec.ep = e /\ rec.view = View /\ rec.upto = top
    <3>1. sweep[s] \in SweepT
      BY <1>1
    <3> QED
      BY <1>3, <2>3, <3>1 DEF SweepT
  <2> HIDE DEF rec
  <2>6. InHand(rec)
    BY <2>1, <2>3, <2>5 DEF InHand
  <2> QED
    BY <1>2, <2>4, <2>5, <2>6, SweepGoesOn
<1>5. CASE ~(e \in Active /\ Unlocked(e) /\ \E n \in Committed : n > endpoint[e].cursor)
  <2> DEFINE rec == [sweep[s] EXCEPT !.todo = @ \ {e}]
  <2>1. sweep' = [sweep EXCEPT ![s].todo = @ \ {e}] /\ sweep[s].stage = "fan"
    BY <1>5 DEF FanOut
  <2>2. sweep' = [sweep EXCEPT ![s] = rec]
    BY <1>1, <2>1
  <2>3. rec \in SweepT /\ rec.stage = "fan"
    <3>1. sweep[s] \in SweepT
      BY <1>1
    <3> QED
      BY <2>1, <3>1 DEF SweepT
  <2> HIDE DEF rec
  <2>4. InHand(rec)
    BY <2>3 DEF InHand
  <2> QED
    BY <1>2, <2>2, <2>3, <2>4, SweepGoesOn
<1> QED
  BY <1>4, <1>5

-----------------------------------------------------------------------------
(* What changes a row of deliveries or an endpoint.                        *)

NoRowLost ==
  \A e \in Endpoint, n \in Number :
    delivery[e][n] # NoDelivery => delivery'[e][n] # NoDelivery

SameCursor(r, q) ==
  q.cursor = r.cursor /\ q.start = r.start /\ q.since = r.since /\ q.had = r.had

CursorsStand == \A e \in Endpoint : SameCursor(endpoint[e], endpoint'[e])

LEMMA StillNothingSkipped ==
  ASSUME NothingSkipped, NoRowLost, CursorsStand,
         \A e \in Endpoint, n \in Number : Wanted(e, n)' = Wanted(e, n)
  PROVE  NothingSkipped'
<1>1. ASSUME NEW e \in Endpoint, NEW n \in Number, Wanted(e, n)', Owed(endpoint'[e], n)
      PROVE  delivery'[e][n] # NoDelivery
  <2>1. Owed(endpoint[e], n)
    BY <1>1 DEF CursorsStand, SameCursor, Owed
  <2> QED
    BY <1>1, <2>1, SkippedIsOwed DEF NoRowLost
<1> QED
  BY <1>1, SkippedIsOwedNext

LEMMA RowReplaced ==
  ASSUME EndTypes, RowsHaveBodies, BodiesKept,
         NEW e \in Endpoint, NEW n \in Number, NEW row \in RowT, row.status # "none",
         snapshot[n] # 0, delivery' = [delivery EXCEPT ![e][n] = row]
  PROVE  delivery' \in [Endpoint -> [Number -> RowT]] /\ RowsHaveBodies' /\ NoRowLost
<1>1. /\ delivery' \in [Endpoint -> [Number -> RowT]] /\ delivery'[e][n] = row
      /\ \A x \in Endpoint, k \in Number : (x # e \/ k # n) => delivery'[x][k] = delivery[x][k]
  BY DEF EndTypes
<1>2. row # NoDelivery
  BY EmptyRow
<1>3. NoRowLost
  BY <1>1, <1>2 DEF NoRowLost
<1>4. ASSUME NEW x \in Endpoint, NEW k \in Number
      PROVE  IF delivery'[x][k].status = "none" THEN delivery'[x][k] = NoDelivery
                                                ELSE snapshot'[k] # 0
  <2>1. CASE x = e /\ k = n
    BY <1>1, <2>1 DEF BodiesKept
  <2>2. CASE ~(x = e /\ k = n)
    BY <1>1, <2>2 DEF RowsHaveBodies, BodiesKept
  <2> QED
    BY <2>1, <2>2
<1> QED
  BY <1>1, <1>3, <1>4 DEF RowsHaveBodies

LEMMA EndpointPatched ==
  ASSUME EndTypes, CursorsBehind, Committed' = Committed,
         NEW e \in Endpoint, NEW p \in EndpointT,
         SameCursor(endpoint[e], p),
         endpoint' = [endpoint EXCEPT ![e] = p]
  PROVE  endpoint' \in [Endpoint -> EndpointT] /\ CursorsBehind' /\ CursorsStand
<1>1. /\ endpoint' \in [Endpoint -> EndpointT] /\ endpoint'[e] = p
      /\ \A x \in Endpoint \ {e} : endpoint'[x] = endpoint[x]
  BY DEF EndTypes
<1>2. CursorsStand
  BY <1>1 DEF CursorsStand, SameCursor
<1> QED
  BY <1>1, <1>2 DEF CursorsBehind, CursorsStand, Behind, SameCursor

LEMMA ClaimKeeps ==
  ASSUME HookInv, NEW s \in Sweep, NEW e \in Endpoint, NEW n \in Number, ClaimDelivery(s, e, n)
  PROVE  HookInv'
<1>1. LogTypes /\ BodyTypes /\ EndTypes /\ ActorTypes /\ Numbering
  BY TypesAre DEF HookInv
<1> DEFINE a == delivery[e][n].attempts + 1
           r == delivery[e][n].copy
           row == [delivery[e][n] EXCEPT !.status = "sending", !.attempts = a, !.wait = 0, !.age = 0]
           rec == [sweep[s] EXCEPT !.stage = "claimed", !.ep = e, !.event = n, !.attempts = a,
                                   !.copy = r]
<1>2. /\ delivery' = [delivery EXCEPT ![e][n] = row]
      /\ sweep' = [sweep EXCEPT ![s].stage = "claimed", ![s].ep = e, ![s].event = n,
                                ![s].attempts = a, ![s].copy = r]
      /\ DeliveryDue(delivery[e][n])
      /\ UNCHANGED <<last, log, writer, snapshot, endpoint, reader, heard, mishaps>>
  <2>2. delivery' = [delivery EXCEPT ![e][n].status = "sending", ![e][n].attempts = @ + 1,
                                     ![e][n].wait = 0, ![e][n].age = 0]
    BY DEF ClaimDelivery
  <2>3. delivery' = [delivery EXCEPT ![e][n] = row]
    BY <1>1, <2>2 DEF EndTypes
  <2> QED
    BY <2>3 DEF ClaimDelivery, DueFor
<1>3. a \in Nat /\ a > 0 /\ r \in {"first", "replay"} /\ delivery[e][n].status # "none"
  BY <1>1, <1>2 DEF EndTypes, RowT, DeliveryDue
<1>4. snapshot[n] # 0
  BY <1>3 DEF HookInv, RowsHaveBodies
<1> HIDE DEF a
<1>5. row \in RowT /\ row.status # "none"
  <2>1. delivery[e][n] \in RowT /\ 0 \in 0 .. StaleSending + 1
    BY <1>1, HooksAssumption DEF EndTypes
  <2> QED
    BY <1>3, <2>1 DEF RowT
<1> HIDE DEF r
<1>6. sweep' = [sweep EXCEPT ![s] = rec]
  BY <1>1, <1>2 DEF ActorTypes
<1>7. /\ rec \in SweepT /\ rec.stage = "claimed" /\ rec.ep = e /\ rec.event = n /\ rec.attempts = a
  <2>1. sweep[s] \in SweepT /\ n \in 0 .. MaxEvents
    BY <1>1, HooksAssumption DEF ActorTypes, Number
  <2> QED
    BY <1>3, <2>1 DEF SweepT
<1> HIDE DEF row, rec
<1>8. /\ Numbering' /\ LogTypes' /\ Committed' = Committed
      /\ \A x \in Endpoint, k \in Number : Wanted(x, k)' = Wanted(x, k)
  BY <1>1, <1>2, LogStands
<1>9. BodiesKept /\ CursorsStand
  BY <1>2 DEF BodiesKept, CursorsStand, SameCursor
<1>10. PICK x \in SweepT : x = rec
  BY <1>7
<1>11. ActorTypes' /\ SweepsInHand'
  <2>1. sweep' = [sweep EXCEPT ![s] = x]
    BY <1>6, <1>10
  <2>2. InHand(x)'
    BY <1>2, <1>3, <1>4, <1>7, <1>10 DEF InHand
  <2> QED
    BY <1>1, <1>2, <1>8, <1>9, <2>1, <2>2, SweepReplaced DEF HookInv
<1>12. delivery' \in [Endpoint -> [Number -> RowT]] /\ RowsHaveBodies' /\ NoRowLost
  BY <1>1, <1>2, <1>4, <1>5, <1>9, RowReplaced DEF HookInv
<1>13. NothingSkipped'
  BY <1>8, <1>9, <1>12, StillNothingSkipped DEF HookInv
<1>14. CursorsBehind' /\ ReadersLookAfter' /\ BodiesStand'
  BY <1>2, <1>8 DEF HookInv, CursorsBehind, Behind, ReadersLookAfter, BodiesStand
<1>15. BodyTypes' /\ EndTypes'
  BY <1>1, <1>2, <1>12 DEF BodyTypes, EndTypes
<1>16. HooksTypeOK'
  BY <1>2, <1>8, <1>11, <1>15, MishapsType, TypesNext DEF HookInv
<1> QED
  BY <1>8, <1>11, <1>12, <1>13, <1>14, <1>16 DEF HookInv

LEMMA DeliverKeeps ==
  ASSUME HookInv, NEW s \in Sweep, Deliver(s)
  PROVE  HookInv'
<1>1. LogTypes /\ BodyTypes /\ EndTypes /\ ActorTypes /\ Numbering
  BY TypesAre DEF HookInv
<1> DEFINE n == sweep[s].event
           f == endpoint[sweep[s].ep].failures
           body == deliveryBody(s)
           rec == [sweep[s] EXCEPT !.stage = "sending", !.failures = f]
<1>2. /\ sweep[s].stage = "claimed"
      /\ heard' = [heard EXCEPT ![n] = @ \cup {body}]
      /\ sweep' = [sweep EXCEPT ![s].stage = "sending", ![s].failures = f]
      /\ UNCHANGED <<last, log, writer, snapshot, endpoint, delivery, reader, mishaps>>
  BY DEF Deliver
<1>3. sweep[s].ep \in Endpoint /\ n \in Number /\ sweep[s].attempts > 0 /\ snapshot[n] # 0
  BY <1>2 DEF HookInv, SweepsInHand, InHand
<1>4. f \in Nat
  BY <1>1, <1>3 DEF EndTypes, EndpointT
<1>5. sweep' = [sweep EXCEPT ![s] = rec]
  BY <1>1, <1>2 DEF ActorTypes
<1>6. /\ rec \in SweepT /\ rec.stage = "sending" /\ rec.ep = sweep[s].ep /\ rec.event = n
      /\ rec.attempts = sweep[s].attempts
  <2>1. sweep[s] \in SweepT
    BY <1>1 DEF ActorTypes
  <2> HIDE DEF f
  <2> QED
    BY <1>4, <2>1 DEF SweepT
<1>61. body \in EventBody /\ body.view = snapshot[n]
  <2>1. snapshot[n] \in 0 .. MaxEvents /\ sweep[s].copy \in {"first", "replay"}
    BY <1>1, <1>3 DEF BodyTypes, ActorTypes, SweepT
  <2> QED
    BY <2>1 DEF deliveryBody, EventBody
<1> HIDE DEF n, f, rec, body
<1>7. /\ Numbering' /\ LogTypes' /\ Committed' = Committed
      /\ \A x \in Endpoint, k \in Number : Wanted(x, k)' = Wanted(x, k)
  BY <1>1, <1>2, LogStands
<1>8. BodiesKept
  BY <1>2 DEF BodiesKept
<1>9. PICK x \in SweepT : x = rec
  BY <1>6
<1>10. ActorTypes' /\ SweepsInHand'
  <2>1. sweep' = [sweep EXCEPT ![s] = x]
    BY <1>5, <1>9
  <2>2. InHand(x)'
    BY <1>2, <1>3, <1>6, <1>9 DEF InHand
  <2> QED
    BY <1>1, <1>2, <1>7, <1>8, <2>1, <2>2, SweepReplaced DEF HookInv
<1>11. heard'[n] = heard[n] \cup {body} /\ \A k \in Number \ {n} : heard'[k] = heard[k]
  BY <1>1, <1>2, <1>3 DEF BodyTypes
<1>12. BodyTypes' /\ BodiesStand'
  <2>1. heard' \in [Number -> SUBSET EventBody]
    BY <1>1, <1>2, <1>3, <1>61 DEF BodyTypes
  <2>2. ASSUME NEW k \in Number
        PROVE  /\ snapshot'[k] # 0 => k <= snapshot'[k]
               /\ \A out \in heard'[k] : out.view = snapshot'[k] /\ out.view # 0
    <3>1. CASE k = n
      BY <1>2, <1>3, <1>61, <1>11, <3>1 DEF HookInv, BodiesStand
    <3>2. CASE k # n
      BY <1>2, <1>11, <3>2 DEF HookInv, BodiesStand
    <3> QED
      BY <3>1, <3>2
  <2> QED
    BY <1>1, <1>2, <2>1, <2>2 DEF BodyTypes, BodiesStand
<1>13. RowsHaveBodies' /\ NothingSkipped'
  BY <1>2, <1>7, <1>8, RowsStand, NothingSkippedStands DEF HookInv
<1>14. CursorsBehind' /\ ReadersLookAfter' /\ EndTypes'
  BY <1>1, <1>2, <1>7 DEF HookInv, CursorsBehind, Behind, ReadersLookAfter, EndTypes
<1>15. HooksTypeOK'
  BY <1>2, <1>7, <1>10, <1>12, <1>14, MishapsType, TypesNext DEF HookInv
<1> QED
  BY <1>7, <1>10, <1>12, <1>13, <1>14, <1>15 DEF HookInv

\* The answer is in: one row and one endpoint are patched and the sweep goes on.
LEMMA AnswerKeeps ==
  ASSUME HookInv, NEW s \in Sweep, NEW e \in Endpoint, NEW n \in Number,
         NEW row \in RowT, row.status # "none", snapshot[n] # 0,
         NEW p \in EndpointT, SameCursor(endpoint[e], p),
         NEW rec \in SweepT, rec.stage = "claim",
         delivery' = [delivery EXCEPT ![e][n] = row],
         endpoint' = [endpoint EXCEPT ![e] = p],
         sweep' = [sweep EXCEPT ![s] = rec],
         UNCHANGED <<last, log, writer, snapshot, reader, heard, mishaps>>
  PROVE  HookInv'
<1>1. LogTypes /\ BodyTypes /\ EndTypes /\ ActorTypes /\ Numbering
  BY TypesAre DEF HookInv
<1>2. /\ Numbering' /\ LogTypes' /\ Committed' = Committed
      /\ \A x \in Endpoint, k \in Number : Wanted(x, k)' = Wanted(x, k)
  BY <1>1, LogStands
<1>3. BodiesKept /\ InHand(rec)'
  BY DEF BodiesKept, InHand
<1>4. ActorTypes' /\ SweepsInHand'
  BY <1>1, <1>2, <1>3, SweepReplaced DEF HookInv
<1>5. delivery' \in [Endpoint -> [Number -> RowT]] /\ RowsHaveBodies' /\ NoRowLost
  BY <1>1, <1>3, RowReplaced DEF HookInv
<1>6. endpoint' \in [Endpoint -> EndpointT] /\ CursorsBehind' /\ CursorsStand
  BY <1>1, <1>2, EndpointPatched DEF HookInv
<1>7. NothingSkipped'
  BY <1>2, <1>5, <1>6, StillNothingSkipped DEF HookInv
<1>8. ReadersLookAfter' /\ BodiesStand' /\ BodyTypes' /\ EndTypes'
  BY <1>1, <1>5, <1>6 DEF HookInv, ReadersLookAfter, BodiesStand, BodyTypes, EndTypes
<1>9. HooksTypeOK'
  BY <1>2, <1>4, <1>8, MishapsType, TypesNext DEF HookInv
<1> QED
  BY <1>2, <1>4, <1>5, <1>6, <1>7, <1>8, <1>9 DEF HookInv

LEMMA SucceededKeeps ==
  ASSUME HookInv, NEW s \in Sweep, Succeeded(s)
  PROVE  HookInv'
<1>1. EndTypes /\ ActorTypes
  BY TypesAre DEF HookInv
<1> DEFINE e == sweep[s].ep
           n == sweep[s].event
           row == [delivery[e][n] EXCEPT !.status = "succeeded", !.wait = 0, !.age = 0]
           p == [endpoint[e] EXCEPT !.failures = 0]
           rec == [Resting EXCEPT !.stage = "claim", !.skip = sweep[s].skip]
<1>2. /\ sweep[s].stage = "sending"
      /\ delivery' = [delivery EXCEPT ![e][n].status = "succeeded", ![e][n].wait = 0, ![e][n].age = 0]
      /\ endpoint' = [endpoint EXCEPT ![e].failures = 0]
      /\ sweep' = [sweep EXCEPT ![s] = rec]
      /\ UNCHANGED <<last, log, writer, snapshot, reader, heard, mishaps>>
  BY DEF Succeeded
<1>3. e \in Endpoint /\ n \in Number /\ snapshot[n] # 0
  BY <1>2 DEF HookInv, SweepsInHand, InHand
<1>4. delivery[e][n] \in RowT /\ endpoint[e] \in EndpointT /\ sweep[s].skip \in SUBSET Endpoint
  BY <1>1, <1>3 DEF EndTypes, ActorTypes, SweepT
<1> HIDE DEF e, n
<1>5. row \in RowT /\ row.status # "none"
  <2> DEFINE old == delivery[e][n]
  <2>1. 0 \in 0 .. StaleSending + 1 /\ old \in RowT
    BY <1>4, HooksAssumption
  <2> HIDE DEF old
  <2>2. [old EXCEPT !.status = "succeeded", !.wait = 0, !.age = 0] \in RowT
    BY <2>1 DEF RowT
  <2>3. [old EXCEPT !.status = "succeeded", !.wait = 0, !.age = 0].status = "succeeded"
    BY <2>1 DEF RowT
  <2> QED
    BY <2>2, <2>3 DEF old
<1>6. p \in EndpointT /\ SameCursor(endpoint[e], p)
  BY <1>4 DEF EndpointT, SameCursor
<1>7. rec \in SweepT /\ rec.stage = "claim"
  BY <1>4, RestingType DEF SweepT
<1>8. delivery' = [delivery EXCEPT ![e][n] = row]
  BY <1>1, <1>2, <1>3 DEF EndTypes
<1>9. endpoint' = [endpoint EXCEPT ![e] = p]
  BY <1>1, <1>2, <1>3 DEF EndTypes
<1>10. sweep' = [sweep EXCEPT ![s] = rec] /\ UNCHANGED <<last, log, writer, snapshot, reader, heard, mishaps>>
  BY <1>2
<1> HIDE DEF row, p, rec
<1> QED
  BY <1>3, <1>5, <1>6, <1>7, <1>8, <1>9, <1>10, AnswerKeeps

LEMMA FailedKeeps ==
  ASSUME HookInv, NEW s \in Sweep, NEW gone \in BOOLEAN, Failed(s, gone)
  PROVE  HookInv'
<1>1. EndTypes /\ ActorTypes
  BY TypesAre DEF HookInv
<1> DEFINE e == sweep[s].ep
           n == sweep[s].event
           a == sweep[s].attempts
           f == sweep[s].failures
           row == [delivery[e][n] EXCEPT !.status = afterFailure(a).status,
                                         !.wait = afterFailure(a).wait, !.age = 0]
           p == endpointPatch(e, f + 1, gone)
           rec == [Resting EXCEPT !.stage = "claim", !.skip = sweep[s].skip \cup {e}]
<1>2. /\ sweep[s].stage = "sending"
      /\ delivery' = [delivery EXCEPT ![e][n] = row]
      /\ endpoint' = [endpoint EXCEPT ![e] = p]
      /\ sweep' = [sweep EXCEPT ![s] = rec]
      /\ UNCHANGED <<last, log, writer, snapshot, reader, heard, mishaps>>
  BY <1>1 DEF Failed, EndTypes
<1>3. e \in Endpoint /\ n \in Number /\ snapshot[n] # 0 /\ a > 0
  BY <1>2 DEF HookInv, SweepsInHand, InHand
<1>4. /\ delivery[e][n] \in RowT /\ endpoint[e] \in EndpointT
      /\ sweep[s].skip \in SUBSET Endpoint /\ a \in Nat /\ f \in Nat
  BY <1>1, <1>3 DEF EndTypes, ActorTypes, SweepT
<1>5. row \in RowT /\ row.status # "none"
  <2>1. afterFailure(a).wait \in Nat /\ afterFailure(a).status \in {"dead", "failed"}
    <3> HIDE DEF a
    <3>1. CASE a >= HookAttempts
      BY <1>4, <3>1, HooksAssumption DEF afterFailure
    <3>2. CASE ~(a >= HookAttempts)
      <4>1. HookBackoff[a] \in Nat
        BY <1>3, <1>4, <3>2, HooksAssumption
      <4> QED
        BY <1>4, <3>2, <4>1, HooksAssumption DEF afterFailure
    <3> QED
      BY <3>1, <3>2
  <2>2. 0 \in 0 .. StaleSending + 1
    BY HooksAssumption
  <2> QED
    BY <1>4, <2>1, <2>2 DEF RowT
<1>6. p \in EndpointT /\ SameCursor(endpoint[e], p)
  <2> HIDE DEF e, f
  <2>1. f + 1 \in Nat
    BY <1>4
  <2> QED
    BY <1>4, <2>1 DEF endpointPatch, EndpointT, SameCursor
<1>7. rec \in SweepT /\ rec.stage = "claim"
  <2> HIDE DEF e
  <2> QED
    BY <1>3, <1>4, RestingType DEF SweepT
<1> HIDE DEF e, n, row, p, rec
<1> QED
  BY <1>2, <1>3, <1>5, <1>6, <1>7, AnswerKeeps

\* The cursor moves to the last event the sweep looked at, and what it passes
\* over has a row.
LEMMA FanOutCommitsKeeps ==
  ASSUME HookInv, NEW s \in Sweep, FanOutCommits(s)
  PROVE  HookInv'
<1>1. LogTypes /\ BodyTypes /\ EndTypes /\ ActorTypes /\ Numbering
  BY TypesAre DEF HookInv
<1> DEFINE e == sweep[s].ep
           upto == sweep[s].upto
           view == sweep[s].view
           batch == {n \in Number : endpoint[e].cursor < n /\ n <= upto /\ Wanted(e, n)}
           rec == [Resting EXCEPT !.stage = "fan", !.todo = sweep[s].todo \ {e}]
           row(n) == IF n \in batch THEN newRow(delivery[e][n]) ELSE delivery[e][n]
<1>2. /\ sweep[s].stage = "fanning"
      /\ snapshot' = [n \in Number |-> IF n \in batch THEN captured(n, view) ELSE snapshot[n]]
      /\ delivery' = [delivery EXCEPT ![e] = [n \in Number |-> row(n)]]
      /\ endpoint' = [endpoint EXCEPT ![e].cursor = upto, ![e].had = @ \cup {upto}]
      /\ sweep' = [sweep EXCEPT ![s] = rec]
      /\ UNCHANGED <<last, log, writer, reader, heard, mishaps>>
  BY DEF FanOutCommits
<1>3. e \in Endpoint /\ upto \in Committed /\ upto <= view
  BY <1>2 DEF HookInv, SweepsInHand, InHand
<1>4. view \in 0 .. MaxEvents /\ upto \in 0 .. MaxEvents /\ sweep[s].todo \in SUBSET Endpoint
  BY <1>1 DEF ActorTypes, SweepT
<1>5. \A n \in batch : n \in Number /\ n <= view
  BY <1>3, <1>4, HooksAssumption DEF Number
<1>6. rec \in SweepT /\ rec.stage = "fan"
  <2> HIDE DEF e
  <2> QED
    BY <1>4, RestingType DEF SweepT
<1>7. \A n \in Number : delivery[e][n] \in RowT
  BY <1>1, <1>3 DEF EndTypes
<1>8. \A n \in Number : row(n) \in RowT /\ (n \in batch => row(n).status # "none")
                        /\ (n \notin batch => row(n) = delivery[e][n])
  <2>1. \A n \in Number : delivery[e][n].status = "none" => delivery[e][n] = NoDelivery
    BY <1>3 DEF HookInv, RowsHaveBodies
  <2> QED
    BY <1>7, <2>1, EmptyRow DEF newRow
<1> HIDE DEF e, upto, view, batch, rec, row
<1>9. /\ Numbering' /\ LogTypes' /\ Committed' = Committed
      /\ \A x \in Endpoint, k \in Number : Wanted(x, k)' = Wanted(x, k)
  BY <1>1, <1>2, LogStands
<1>10. /\ BodiesKept /\ snapshot' \in [Number -> 0 .. MaxEvents]
       /\ \A n \in batch : snapshot'[n] # 0
       /\ \A n \in Number : /\ snapshot'[n] # 0 => n <= snapshot'[n]
                            /\ n \notin batch => snapshot'[n] = snapshot[n]
  <2>1. \A n \in batch : /\ captured(n, view) \in 0 .. MaxEvents /\ captured(n, view) # 0
                         /\ n <= captured(n, view)
                         /\ snapshot[n] # 0 => captured(n, view) = snapshot[n]
    BY <1>1, <1>4, <1>5, CapturedIsABody DEF HookInv
  <2>2. \A n \in Number : /\ n \in batch => snapshot'[n] = captured(n, view)
                          /\ n \notin batch => snapshot'[n] = snapshot[n]
    BY <1>2
  <2>3. BodiesKept
    BY <2>1, <2>2 DEF BodiesKept
  <2>4. snapshot' \in [Number -> 0 .. MaxEvents]
    BY <1>1, <1>2, <2>1 DEF BodyTypes
  <2> QED
    BY <1>5, <2>1, <2>2, <2>3, <2>4 DEF HookInv, BodiesStand
<1>11. /\ endpoint' \in [Endpoint -> EndpointT]
       /\ endpoint'[e].cursor = upto /\ endpoint'[e].since = endpoint[e].since
       /\ endpoint'[e].start = endpoint[e].start /\ endpoint'[e].had = endpoint[e].had \cup {upto}
       /\ \A x \in Endpoint \ {e} : endpoint'[x] = endpoint[x]
  <2> DEFINE h == endpoint[e].had \cup {upto}
             p == [endpoint[e] EXCEPT !.cursor = upto, !.had = h]
  <2>1. endpoint[e] \in EndpointT
    BY <1>1, <1>3 DEF EndTypes
  <2>11. h \in SUBSET (0 .. MaxEvents)
    BY <1>4, <2>1 DEF EndpointT
  <2>2. /\ p \in EndpointT /\ p.cursor = upto /\ p.since = endpoint[e].since
        /\ p.start = endpoint[e].start /\ p.had = h
    <3> HIDE DEF h
    <3> QED
      BY <1>4, <2>1, <2>11 DEF EndpointT
  <2>3. endpoint' = [endpoint EXCEPT ![e] = p]
    BY <1>1, <1>2, <1>3 DEF EndTypes
  <2> HIDE DEF p
  <2> QED
    BY <1>1, <1>3, <2>2, <2>3 DEF EndTypes
<1>12. /\ delivery' \in [Endpoint -> [Number -> RowT]]
       /\ \A n \in Number : delivery'[e][n] = row(n)
       /\ \A x \in Endpoint \ {e} : delivery'[x] = delivery[x]
  <2> DEFINE rows == [n \in Number |-> row(n)]
  <2>1. rows \in [Number -> RowT] /\ \A n \in Number : rows[n] = row(n)
    BY <1>8
  <2>2. delivery' = [delivery EXCEPT ![e] = rows]
    BY <1>2
  <2> HIDE DEF rows
  <2> QED
    BY <1>1, <1>3, <2>1, <2>2 DEF EndTypes
<1>13. PICK z \in SweepT : z = rec
  BY <1>6
<1>14. ActorTypes' /\ SweepsInHand'
  <2>1. sweep' = [sweep EXCEPT ![s] = z] /\ reader' = reader
    BY <1>2, <1>13
  <2>2. InHand(z)'
    BY <1>6, <1>13 DEF InHand
  <2> QED
    BY <1>1, <1>9, <1>10, <2>1, <2>2, SweepReplaced DEF HookInv
<1>15. CursorsBehind'
  <2>1. ASSUME NEW x \in Endpoint
        PROVE  Behind(endpoint[x])'
    <3>1. CASE x = e
      BY <1>3, <1>9, <1>11, <3>1 DEF HookInv, CursorsBehind, Behind
    <3>2. CASE x # e
      BY <1>9, <1>11, <3>2 DEF HookInv, CursorsBehind, Behind
    <3> QED
      BY <3>1, <3>2
  <2> QED
    BY <2>1 DEF CursorsBehind
<1>16. RowsHaveBodies'
  <2>1. ASSUME NEW x \in Endpoint, NEW n \in Number
        PROVE  IF delivery'[x][n].status = "none" THEN delivery'[x][n] = NoDelivery
                                                  ELSE snapshot'[n] # 0
    <3>1. CASE x = e /\ n \in batch
      BY <1>8, <1>10, <1>12, <3>1
    <3>2. CASE ~(x = e /\ n \in batch)
      <4>1. delivery'[x][n] = delivery[x][n]
        BY <1>8, <1>12, <3>2
      <4> QED
        BY <1>10, <4>1 DEF HookInv, RowsHaveBodies, BodiesKept
    <3> QED
      BY <3>1, <3>2
  <2> QED
    BY <2>1 DEF RowsHaveBodies
<1>17. NothingSkipped'
  <2>1. ASSUME NEW x \in Endpoint, NEW n \in Number, Wanted(x, n)', Owed(endpoint'[x], n)
        PROVE  delivery'[x][n] # NoDelivery
    <3>0. Wanted(x, n)
      BY <1>9, <2>1
    <3>1. CASE x # e
      BY <1>11, <1>12, <2>1, <3>0, <3>1, SkippedIsOwed DEF HookInv
    <3>2. CASE x = e /\ n \in batch
      BY <1>8, <1>12, <3>2, EmptyRow
    <3>3. CASE x = e /\ n \notin batch
      <4>1. Owed(endpoint[e], n)
        <5>1. /\ n \in Int /\ n > 0 /\ endpoint[e].cursor \in Int /\ upto \in Int
              /\ endpoint[e].cursor = 0 \/ endpoint[e].cursor \in endpoint[e].had
          BY <1>1, <1>3, <1>4, HooksAssumption DEF Number, EndTypes, EndpointT, HookInv, CursorsBehind, Behind
        <5>2. n <= upto => n <= endpoint[e].cursor
          BY <3>0, <3>3, <5>1 DEF batch
        <5>3. CASE n <= upto
          <6>1. n <= endpoint[e].cursor /\ endpoint[e].cursor \in endpoint[e].had
            BY <5>1, <5>2, <5>3
          <6> QED
            BY <1>11, <2>1, <3>3, <6>1 DEF Owed
        <5>4. CASE ~(n <= upto)
          BY <1>11, <2>1, <3>3, <5>4 DEF Owed
        <5> QED
          BY <5>3, <5>4
      <4>2. delivery[e][n] # NoDelivery
        BY <1>3, <3>0, <3>3, <4>1, SkippedIsOwed DEF HookInv
      <4> QED
        BY <1>8, <1>12, <3>3, <4>2
    <3> QED
      BY <3>1, <3>2, <3>3
  <2> QED
    BY <2>1, SkippedIsOwedNext
<1>18. BodiesStand'
  <2>1. ASSUME NEW n \in Number, NEW body \in heard'[n]
        PROVE  body.view = snapshot'[n] /\ body.view # 0
    BY <1>2, <1>10, <2>1 DEF HookInv, BodiesStand, BodiesKept
  <2> QED
    BY <1>10, <2>1 DEF BodiesStand
<1>19. ReadersLookAfter' /\ BodyTypes' /\ EndTypes'
  BY <1>1, <1>2, <1>10, <1>11, <1>12 DEF HookInv, ReadersLookAfter, BodyTypes, EndTypes
<1>20. HooksTypeOK'
  BY <1>2, <1>9, <1>14, <1>19, MishapsType, TypesNext DEF HookInv
<1> QED
  BY <1>9, <1>14, <1>15, <1>16, <1>17, <1>18, <1>19, <1>20 DEF HookInv

-----------------------------------------------------------------------------
(* Step by step: the owner, and time.                                      *)

\* Rows and endpoints change, nothing else does.
LEMMA OwnerChanges ==
  ASSUME HookInv, UNCHANGED <<last, log, writer, snapshot, sweep, reader, heard>>,
         Upset \/ mishaps' = mishaps,
         EndTypes', CursorsBehind', RowsHaveBodies', NothingSkipped'
  PROVE  HookInv'
<1>1. LogTypes /\ BodyTypes /\ ActorTypes /\ Numbering
  BY TypesAre DEF HookInv
<1>2. Numbering' /\ LogTypes' /\ Committed' = Committed
  BY <1>1, LogStands
<1>3. BodiesKept
  BY DEF BodiesKept
<1>4. SweepsInHand' /\ ReadersLookAfter' /\ BodiesStand'
  BY <1>2, <1>3, SweepsStand DEF HookInv, ReadersLookAfter, BodiesStand
<1>5. BodyTypes' /\ ActorTypes'
  BY <1>1 DEF BodyTypes, ActorTypes
<1>6. HooksTypeOK'
  BY <1>2, <1>5, MishapsType, TypesNext DEF HookInv
<1> QED
  BY <1>2, <1>4, <1>6 DEF HookInv

\* The endpoint's window of events that must have a row does not widen.
LEMMA CursorMoved ==
  ASSUME EndTypes, CursorsBehind, NothingSkipped, NoRowLost, Committed' = Committed,
         \A x \in Endpoint, k \in Number : Wanted(x, k)' = Wanted(x, k),
         NEW e \in Endpoint, NEW p \in EndpointT, Behind(p),
         \A k \in Number : Owed(p, k) => Owed(endpoint[e], k),
         endpoint' = [endpoint EXCEPT ![e] = p]
  PROVE  endpoint' \in [Endpoint -> EndpointT] /\ CursorsBehind' /\ NothingSkipped'
<1>1. /\ endpoint' \in [Endpoint -> EndpointT] /\ endpoint'[e] = p
      /\ \A x \in Endpoint \ {e} : endpoint'[x] = endpoint[x]
  BY DEF EndTypes
<1>2. CursorsBehind'
  BY <1>1 DEF CursorsBehind, Behind
<1>3. ASSUME NEW x \in Endpoint, NEW k \in Number, Wanted(x, k)', Owed(endpoint'[x], k)
      PROVE  delivery'[x][k] # NoDelivery
  <2>1. Owed(endpoint[x], k)
    BY <1>1, <1>3
  <2> QED
    BY <1>3, <2>1, SkippedIsOwed DEF NoRowLost
<1>4. NothingSkipped'
  BY <1>3, SkippedIsOwedNext
<1> QED
  BY <1>1, <1>2, <1>4

\* The owner creates an endpoint, or switches one on or off.
LEMMA EndpointStepKeeps ==
  ASSUME HookInv, NEW e \in Endpoint,
         \/ ReadSeq(e) \/ createWebhookEndpoint(e)
         \/ \E to \in {"active", "disabled"} : setWebhookEndpointStatus(e, to)
  PROVE  HookInv'
<1>1. LogTypes /\ EndTypes /\ Numbering
  BY TypesAre DEF HookInv
<1>2. /\ UNCHANGED <<last, log, writer, snapshot, delivery, sweep, reader, heard>>
      /\ Upset \/ mishaps' = mishaps
  BY DEF ReadSeq, createWebhookEndpoint, setWebhookEndpointStatus
<1>3. View \in 0 .. MaxEvents /\ Committed = 1 .. View
  BY <1>1, LogIsAPrefix
<1>4. endpoint[e] \in EndpointT
  BY <1>1 DEF EndTypes
<1>5. Behind(endpoint[e])
  BY DEF HookInv, CursorsBehind
<1>6. \E p \in EndpointT :
        /\ Behind(p)
        /\ \A k \in Number : Owed(p, k) => Owed(endpoint[e], k)
        /\ endpoint' = [endpoint EXCEPT ![e] = p]
  <2>1. CASE ReadSeq(e)
    <3> DEFINE p == [endpoint[e] EXCEPT !.status = "creating", !.cursor = View, !.start = View,
                                        !.since = View, !.had = {View}]
    <3>1. /\ p \in EndpointT /\ p.cursor = View /\ p.start = View /\ p.since = View
          /\ p.had = {View}
      BY <1>3, <1>4 DEF EndpointT
    <3>2. endpoint' = [endpoint EXCEPT ![e] = p]
      BY <1>1, <2>1 DEF ReadSeq, EndTypes
    <3> HIDE DEF p
    <3>3. Behind(p)
      BY <1>3, <3>1 DEF Behind
    <3>4. \A k \in Number : ~Owed(p, k)
      BY <1>3, <3>1, HooksAssumption DEF Number, Owed
    <3> QED
      BY <3>1, <3>2, <3>3, <3>4
  <2>2. CASE createWebhookEndpoint(e)
    <3> DEFINE p == [endpoint[e] EXCEPT !.status = "active"]
    <3>1. p \in EndpointT /\ SameCursor(endpoint[e], p)
      BY <1>4 DEF EndpointT, SameCursor
    <3>2. endpoint' = [endpoint EXCEPT ![e] = p]
      BY <1>1, <2>2 DEF createWebhookEndpoint, EndTypes
    <3> HIDE DEF p
    <3> QED
      BY <1>5, <3>1, <3>2 DEF Behind, Owed, SameCursor
  <2>3. CASE \E to \in {"active", "disabled"} : setWebhookEndpointStatus(e, to)
    <3>0. PICK to \in {"active", "disabled"} : setWebhookEndpointStatus(e, to)
      BY <2>3
    <3> DEFINE f == IF to = "active" THEN 0 ELSE endpoint[e].failures
               p == [endpoint[e] EXCEPT !.status = to, !.failures = f]
    <3>1. f \in Nat
      BY <1>4 DEF EndpointT
    <3>2. endpoint' = [endpoint EXCEPT ![e] = p]
      BY <1>1, <3>0 DEF setWebhookEndpointStatus, EndTypes
    <3> HIDE DEF f
    <3>3. p \in EndpointT /\ SameCursor(endpoint[e], p)
      BY <1>4, <3>1 DEF EndpointT, SameCursor
    <3> HIDE DEF p
    <3> QED
      BY <1>5, <3>2, <3>3 DEF Behind, Owed, SameCursor
  <2> QED
    BY <2>1, <2>2, <2>3
<1>7. PICK p \in EndpointT :
        /\ Behind(p)
        /\ \A k \in Number : Owed(p, k) => Owed(endpoint[e], k)
        /\ endpoint' = [endpoint EXCEPT ![e] = p]
  BY <1>6
<1>8. /\ Committed' = Committed
      /\ \A x \in Endpoint, k \in Number : Wanted(x, k)' = Wanted(x, k)
  BY <1>1, <1>2, LogStands
<1>9. NoRowLost /\ BodiesKept
  BY <1>2 DEF NoRowLost, BodiesKept
<1>10. endpoint' \in [Endpoint -> EndpointT] /\ CursorsBehind' /\ NothingSkipped'
  BY <1>1, <1>7, <1>8, <1>9, CursorMoved DEF HookInv
<1>11. RowsHaveBodies' /\ EndTypes'
  BY <1>1, <1>2, <1>9, <1>10, RowsStand DEF HookInv, EndTypes
<1> QED
  BY <1>2, <1>10, <1>11, OwnerChanges

LEMMA ReplayKeeps ==
  ASSUME HookInv, NEW e \in Endpoint, NEW n \in Number, replayDelivery(e, n)
  PROVE  HookInv'
<1>1. LogTypes /\ EndTypes /\ Numbering
  BY TypesAre DEF HookInv
<1>2. /\ delivery' = [delivery EXCEPT ![e][n] = Requeued] /\ delivery[e][n] # NoDelivery
      /\ UNCHANGED <<last, log, writer, snapshot, endpoint, sweep, reader, heard>> /\ Upset
  BY DEF replayDelivery, Replayable
<1>3. snapshot[n] # 0 /\ BodiesKept /\ CursorsStand
  BY <1>2 DEF HookInv, RowsHaveBodies, BodiesKept, CursorsStand, SameCursor
<1>4. delivery' \in [Endpoint -> [Number -> RowT]] /\ RowsHaveBodies' /\ NoRowLost
  <2>1. Requeued \in RowT /\ Requeued.status # "none"
    BY EmptyRow
  <2> QED
    BY <1>1, <1>2, <1>3, <2>1, RowReplaced DEF HookInv
<1>5. /\ Committed' = Committed
      /\ \A x \in Endpoint, k \in Number : Wanted(x, k)' = Wanted(x, k)
  BY <1>1, <1>2, LogStands
<1>6. NothingSkipped' /\ CursorsBehind' /\ EndTypes'
  BY <1>1, <1>2, <1>3, <1>4, <1>5, StillNothingSkipped DEF HookInv, CursorsBehind, Behind, EndTypes
<1> QED
  BY <1>2, <1>4, <1>6, OwnerChanges

LEMMA ReplayFromKeeps ==
  ASSUME HookInv, NEW e \in Endpoint, NEW from \in Number, NEW c \in endpoint[e].had,
         replayFromSeq(e, from, c)
  PROVE  HookInv'
<1>1. LogTypes /\ EndTypes /\ Numbering
  BY TypesAre DEF HookInv
<1> DEFINE row(n) == IF n >= from /\ Replayable(delivery[e][n]) THEN Requeued ELSE delivery[e][n]
           rows == [n \in Number |-> row(n)]
<1>2. /\ delivery' = [delivery EXCEPT ![e] = rows]
      /\ UNCHANGED <<last, log, writer, snapshot, sweep, reader, heard>> /\ Upset
  BY DEF replayFromSeq
<1>3. \A n \in Number : /\ row(n) \in RowT
                        /\ row(n) = NoDelivery <=> delivery[e][n] = NoDelivery
                        /\ row(n).status = "none" <=> delivery[e][n].status = "none"
  <2>1. ASSUME NEW n \in Number
        PROVE  /\ delivery[e][n] \in RowT
               /\ delivery[e][n].status = "none" <=> delivery[e][n] = NoDelivery
    BY <1>1, EmptyRow DEF EndTypes, HookInv, RowsHaveBodies
  <2>2. ASSUME NEW n \in Number
        PROVE  (row(n) = Requeued /\ delivery[e][n] # NoDelivery) \/ row(n) = delivery[e][n]
    BY DEF Replayable
  <2> HIDE DEF row
  <2>3. Requeued \in RowT /\ Requeued.status # "none" /\ Requeued # NoDelivery
    BY EmptyRow
  <2>4. ASSUME NEW n \in Number
        PROVE  /\ row(n) \in RowT
               /\ row(n) = NoDelivery <=> delivery[e][n] = NoDelivery
               /\ row(n).status = "none" <=> delivery[e][n].status = "none"
    <3>1. CASE row(n) = delivery[e][n]
      BY <2>1, <3>1
    <3>2. CASE row(n) = Requeued /\ delivery[e][n] # NoDelivery
      BY <2>1, <2>3, <3>2
    <3> QED
      BY <2>2, <3>1, <3>2
  <2> QED
    BY <2>4
<1> HIDE DEF row
<1>4. rows \in [Number -> RowT] /\ \A n \in Number : rows[n] = row(n)
  BY <1>3
<1> HIDE DEF rows
<1>5. /\ delivery' \in [Endpoint -> [Number -> RowT]]
      /\ \A n \in Number : delivery'[e][n] = row(n)
      /\ \A x \in Endpoint \ {e} : delivery'[x] = delivery[x]
  BY <1>1, <1>2, <1>4 DEF EndTypes
<1>6. NoRowLost
  BY <1>3, <1>5 DEF NoRowLost
<1>7. RowsHaveBodies'
  <2>1. ASSUME NEW x \in Endpoint, NEW n \in Number
        PROVE  IF delivery'[x][n].status = "none" THEN delivery'[x][n] = NoDelivery
                                                  ELSE snapshot'[n] # 0
    <3>1. CASE x = e
      BY <1>2, <1>3, <1>5, <3>1 DEF HookInv, RowsHaveBodies
    <3>2. CASE x # e
      BY <1>2, <1>5, <3>2 DEF HookInv, RowsHaveBodies
    <3> QED
      BY <3>1, <3>2
  <2> QED
    BY <2>1 DEF RowsHaveBodies
<1>8. /\ Committed' = Committed
      /\ \A x \in Endpoint, k \in Number : Wanted(x, k)' = Wanted(x, k)
  BY <1>1, <1>2, LogStands
<1>9. endpoint' \in [Endpoint -> EndpointT] /\ CursorsBehind' /\ NothingSkipped'
  <2>1. CASE c >= from
    <3> DEFINE s == sureSince(e, from - 1)
               h == endpoint[e].had \cup {from - 1}
               p == [endpoint[e] EXCEPT !.cursor = from - 1, !.had = h, !.since = s]
    <3>1. endpoint' = [endpoint EXCEPT ![e] = p]
      BY <1>1, <2>1 DEF replayFromSeq, EndTypes
    <3>2. endpoint[e] \in EndpointT
      BY <1>1 DEF EndTypes
    <3>3. /\ endpoint[e].cursor \in 0 .. MaxEvents /\ endpoint[e].since \in 0 .. MaxEvents
          /\ endpoint[e].start \in 0 .. MaxEvents /\ endpoint[e].had \subseteq 0 .. MaxEvents
          /\ from \in 1 .. MaxEvents /\ from <= c /\ c \in 0 .. MaxEvents
      BY <2>1, <3>2, HooksAssumption DEF EndpointT, Number
    <3>4. from - 1 \in 0 .. MaxEvents /\ s \in 0 .. MaxEvents /\ h \in SUBSET (0 .. MaxEvents)
      BY <3>3, HooksAssumption DEF sureSince
    <3>5. \A k \in Number : (s < k /\ k <= from - 1) => Owed(endpoint[e], k)
      BY <3>3, HooksAssumption DEF Number, sureSince, Owed
    <3>6. from - 1 = 0 \/ from - 1 \in Committed
      <4>1. Committed = 1 .. View /\ View \in Int
        BY <1>1, LogIsAPrefix
      <4>2. c \in Committed
        BY <3>3, HooksAssumption DEF HookInv, CursorsBehind, Behind
      <4> QED
        BY <3>3, <4>1, <4>2, HooksAssumption
    <3>61. \A k \in Number : (endpoint[e].start < k /\ \E d \in h : k <= d) => Owed(endpoint[e], k)
      BY <3>3, HooksAssumption DEF Number, Owed
    <3>7. /\ p \in EndpointT /\ p.cursor = from - 1 /\ p.since = s
          /\ p.start = endpoint[e].start /\ p.had = h
      <4> HIDE DEF s, h
      <4> QED
        BY <3>2, <3>4 DEF EndpointT
    <3>71. Behind(p)
      <4>1. \A d \in endpoint[e].had : d = 0 \/ d \in Committed
        BY DEF HookInv, CursorsBehind, Behind
      <4> QED
        BY <3>6, <3>7, <4>1 DEF Behind
    <3> HIDE DEF s, h, p
    <3>8. \A k \in Number : Owed(p, k) => Owed(endpoint[e], k)
      BY <3>5, <3>61, <3>7 DEF Owed
    <3> QED
      BY <1>1, <1>6, <1>8, <3>1, <3>7, <3>71, <3>8, CursorMoved DEF HookInv
  <2>2. CASE ~(c >= from)
    <3>1. endpoint' = endpoint
      BY <2>2 DEF replayFromSeq
    <3>2. CursorsStand
      BY <3>1 DEF CursorsStand, SameCursor
    <3>3. endpoint' \in [Endpoint -> EndpointT] /\ CursorsBehind'
      BY <1>1, <1>8, <3>1 DEF HookInv, CursorsBehind, Behind, EndTypes
    <3> QED
      BY <1>6, <1>8, <3>2, <3>3, StillNothingSkipped DEF HookInv
  <2> QED
    BY <2>1, <2>2
<1>10. EndTypes'
  BY <1>5, <1>9 DEF EndTypes
<1> QED
  BY <1>2, <1>7, <1>9, <1>10, OwnerChanges

LEMMA EmptyUpdate ==
  ASSUME NEW r \in RowT, NEW w, NEW a, w = r.wait, a = r.age
  PROVE  [r EXCEPT !.wait = w, !.age = a] = r
BY DEF RowT

\* No delivery does not age.
LEMMA NoRowAges ==
  ASSUME NEW r, r = NoDelivery
  PROVE  Older(r) = r
<1>1. r.wait = 0 /\ r.age = 0 /\ r.status # "sending"
  BY DEF NoDelivery
<1>2. Older(r) = [r EXCEPT !.wait = 0, !.age = 0]
  BY <1>1 DEF Older
<1>3. [r EXCEPT !.wait = 0, !.age = 0] = r
  BY <1>1, EmptyRow, EmptyUpdate
<1> QED
  BY <1>2, <1>3

\* A row grows older and stays a row.
LEMMA OlderRow ==
  ASSUME NEW r \in RowT
  PROVE  /\ Older(r) \in RowT /\ Older(r).status = r.status
         /\ r = NoDelivery => Older(r) = NoDelivery
<1> DEFINE w == IF r.wait > 0 THEN r.wait - 1 ELSE 0
           a == IF r.status = "sending" /\ r.age <= StaleSending THEN r.age + 1 ELSE r.age
<1>1. w \in Nat /\ a \in 0 .. StaleSending + 1
  BY HooksAssumption DEF RowT
<1>2. Older(r) = [r EXCEPT !.wait = w, !.age = a]
  BY DEF Older
<1> HIDE DEF w, a
<1>3. [r EXCEPT !.wait = w, !.age = a] \in RowT /\ [r EXCEPT !.wait = w, !.age = a].status = r.status
  BY <1>1 DEF RowT
<1>4. r = NoDelivery => Older(r) = NoDelivery
  BY NoRowAges
<1> QED
  BY <1>2, <1>3, <1>4

LEMMA HooksTickKeeps ==
  ASSUME HookInv, HooksTick
  PROVE  HookInv'
<1>1. LogTypes /\ EndTypes /\ Numbering
  BY TypesAre DEF HookInv
<1>2. /\ delivery' = [e \in Endpoint |-> [n \in Number |-> Older(delivery[e][n])]]
      /\ UNCHANGED <<last, log, writer, snapshot, endpoint, sweep, reader, heard, mishaps>>
  BY DEF HooksTick
<1>3. \A e \in Endpoint, n \in Number : delivery'[e][n] = Older(delivery[e][n])
  BY <1>2
<1>4. \A e \in Endpoint, n \in Number : delivery[e][n] \in RowT
  BY <1>1 DEF EndTypes
<1>5. \A e \in Endpoint, n \in Number :
        /\ Older(delivery[e][n]) \in RowT
        /\ delivery'[e][n].status = delivery[e][n].status
        /\ delivery[e][n] = NoDelivery => delivery'[e][n] = NoDelivery
  BY <1>3, <1>4, OlderRow
<1>6. EndTypes'
  <2>1. delivery' \in [Endpoint -> [Number -> RowT]]
    BY <1>2, <1>5
  <2> QED
    BY <1>1, <1>2, <2>1 DEF EndTypes
<1>7. RowsHaveBodies'
  BY <1>2, <1>5 DEF HookInv, RowsHaveBodies
<1>8. NoRowLost /\ CursorsStand
  <2>1. \A e \in Endpoint, n \in Number : delivery[e][n].status = "none" => delivery[e][n] = NoDelivery
    BY DEF HookInv, RowsHaveBodies
  <2>2. NoRowLost
    BY <1>5, <2>1, EmptyRow DEF NoRowLost
  <2> QED
    BY <1>2, <2>2 DEF CursorsStand, SameCursor
<1>9. /\ Committed' = Committed
      /\ \A x \in Endpoint, k \in Number : Wanted(x, k)' = Wanted(x, k)
  BY <1>1, <1>2, LogStands
<1>10. NothingSkipped' /\ CursorsBehind'
  BY <1>2, <1>8, <1>9, StillNothingSkipped DEF HookInv, CursorsBehind, Behind
<1> QED
  BY <1>2, <1>6, <1>7, <1>10, OwnerChanges

-----------------------------------------------------------------------------
LEMMA HookInvInit == HooksInit => HookInv
<1> SUFFICES ASSUME HooksInit
             PROVE  HookInv
  OBVIOUS
<1>1. MaxEvents \in Nat /\ MaxMishaps \in Nat /\ Number \subseteq Nat \ {0}
  BY HooksAssumption DEF Number
<1>2. [stage |-> "idle", type |-> NoEvent, seq |-> 0] \in WriterT
  BY <1>1 DEF WriterT
<1>3. [status |-> "absent", failures |-> 0, cursor |-> 0, start |-> 0, since |-> 0, had |-> {}]
        \in EndpointT
  BY <1>1 DEF EndpointT
<1>4. [stage |-> "idle", event |-> 0, view |-> 0] \in ReaderT
  BY <1>1 DEF ReaderT
<1>5. LogTypes /\ BodyTypes /\ mishaps \in 0 .. MaxMishaps
  BY <1>1, <1>2 DEF HooksInit, LogTypes, BodyTypes
<1>6. EndTypes
  BY <1>3, EmptyRow DEF HooksInit, EndTypes
<1>7. ActorTypes
  BY <1>4, RestingType DEF HooksInit, ActorTypes
<1>8. HooksTypeOK
  BY <1>5, <1>6, <1>7, TypesAre
<1>9. Committed = {} /\ Open = {} /\ \A w \in Writer : ~NumberedBy(w)
  BY DEF HooksInit, Committed, Open, NumberedBy
<1>10. Numbering
  <2>1. last = 0 /\ Cardinality(Open) = 0
    BY <1>9, FS_EmptySet DEF HooksInit
  <2>2. \A w \in Writer : writer[w].stage = "idle"
    BY DEF HooksInit
  <2>3. \A n \in Number : ~(n <= 0)
    BY <1>1
  <2>4. \A n \in Number : n \in Committed <=> (n <= last /\ \A w \in Writer : NumberedBy(w) => n < last)
    BY <1>9, <2>1, <2>3
  <2>5. last + Cardinality(Open) <= MaxEvents
    BY <1>1, <2>1
  <2> QED
    BY <1>9, <2>2, <2>4, <2>5 DEF Numbering
<1>11. CursorsBehind /\ ReadersLookAfter /\ RowsHaveBodies
  BY EmptyRow DEF HooksInit, CursorsBehind, Behind, ReadersLookAfter, RowsHaveBodies
<1>12. SweepsInHand
  BY RestingType DEF HooksInit, SweepsInHand, InHand
<1>13. BodiesStand
  BY DEF HooksInit, BodiesStand
<1>14. NothingSkipped
  BY <1>9 DEF NothingSkipped, Wanted
<1> QED
  BY <1>8, <1>10, <1>11, <1>12, <1>13, <1>14 DEF HookInv

LEMMA HookInvNext == HookInv /\ [HooksNext]_hookVars => HookInv'
<1> SUFFICES ASSUME HookInv, [HooksNext]_hookVars
             PROVE  HookInv'
  OBVIOUS
<1>1. CASE \E w \in Writer : WriterStep(w)
  BY <1>1, WriterStepKeeps
<1>2. CASE \E r \in Reader : SnapshotsFor(r) \/ \E n \in Number : ListEvents(r, n)
  <2>1. PICK r \in Reader : SnapshotsFor(r) \/ \E n \in Number : ListEvents(r, n)
    BY <1>2
  <2> QED
    BY <2>1, SnapshotsKeeps, ListKeeps
<1>3. CASE \E s \in Sweep : sweepWebhooks(s) \/ SweepStep(s) \/ SweepDies(s)
  <2>1. PICK s \in Sweep : sweepWebhooks(s) \/ SweepStep(s) \/ SweepDies(s)
    BY <1>3
  <2>2. CASE sweepWebhooks(s) \/ FannedOut(s) \/ SweepEnds(s) \/ SweepDies(s)
    BY <2>2, SweepInHandSteps
  <2>3. CASE \E e \in Endpoint : FanOut(s, e)
    BY <2>3, FanOutKeeps
  <2>4. CASE \E e \in Endpoint, n \in Number : ClaimDelivery(s, e, n)
    BY <2>4, ClaimKeeps
  <2>5. CASE FanOutCommits(s) \/ Deliver(s) \/ Succeeded(s)
    BY <2>5, FanOutCommitsKeeps, DeliverKeeps, SucceededKeeps
  <2>6. CASE \E gone \in BOOLEAN : Failed(s, gone)
    BY <2>6, FailedKeeps
  <2> QED
    BY <2>1, <2>2, <2>3, <2>4, <2>5, <2>6 DEF SweepStep
<1>4. CASE OwnerStep
  <2>1. PICK e \in Endpoint :
          \/ ReadSeq(e) \/ createWebhookEndpoint(e)
          \/ \E to \in {"active", "disabled"} : setWebhookEndpointStatus(e, to)
          \/ \E n \in Number : replayDelivery(e, n)
          \/ \E from \in Number, c \in endpoint[e].had : replayFromSeq(e, from, c)
    BY <1>4 DEF OwnerStep
  <2> QED
    BY <2>1, EndpointStepKeeps, ReplayKeeps, ReplayFromKeeps
<1>5. CASE HooksTick
  BY <1>5, HooksTickKeeps
<1>6. CASE UNCHANGED hookVars
  <2>1. /\ UNCHANGED <<last, log, writer, snapshot, endpoint, delivery, sweep, reader, heard>>
        /\ mishaps' = mishaps
    BY <1>6 DEF hookVars
  <2>2. LogTypes /\ EndTypes /\ Numbering
    BY TypesAre DEF HookInv
  <2>3. /\ Committed' = Committed
        /\ \A e \in Endpoint, n \in Number : Wanted(e, n)' = Wanted(e, n)
    BY <2>1, <2>2, LogStands
  <2>4. BodiesKept
    BY <2>1 DEF BodiesKept
  <2>5. EndTypes' /\ CursorsBehind' /\ RowsHaveBodies' /\ NothingSkipped'
    BY <2>1, <2>2, <2>3, <2>4, RowsStand, NothingSkippedStands DEF HookInv, EndTypes, CursorsBehind, Behind
  <2> QED
    BY <2>1, <2>5, OwnerChanges
<1> QED
  BY <1>1, <1>2, <1>3, <1>4, <1>5, <1>6 DEF HooksNext

\* The inductive invariant of the log, the sweeps and their receivers.
THEOREM HookInvIsInvariant == HooksSpec => []HookInv
BY HookInvInit, HookInvNext, PTL DEF HooksSpec

\* Every part of the webhooks' state keeps its type.
THEOREM HooksTyped == HooksSpec => []HooksTypeOK
<1>1. HookInv => HooksTypeOK
  BY DEF HookInv
<1> QED
  BY <1>1, HookInvIsInvariant, PTL

\* However writers' commits, sweeps, dead sweeps, new endpoints and replays
\* interleave, a cursor passes over no event its endpoint asked for without a
\* delivery (webhooks.ts:9).
THEOREM NoEventSkipped == HooksSpec => []NothingSkipped
<1>1. HookInv => NothingSkipped
  BY DEF HookInv
<1> QED
  BY <1>1, HookInvIsInvariant, PTL

\* Every body of an event, from a webhook or the log, first or replayed, tells of
\* the appointment at one moment, after the event (events.ts:97).
THEOREM OneBodyForAll == HooksSpec => []OneBodyPerEvent
<1>1. HookInv => OneBodyPerEvent
  BY DEF HookInv, BodiesStand, OneBodyPerEvent
<1> QED
  BY <1>1, HookInvIsInvariant, PTL
-----------------------------------------------------------------------------
\* A booking on the website.

Running == {"limit", "find", "create", "key", "write", "rescue", "others"}

\* A row and a request are records: the rows are never taken out, and a row of
\* the website carries the key of what it was written from.
KeyIsOfRow(v) ==
  v.key # <<>> => v.key.provider = v.provider /\ v.key.visit = v.visit /\ v.key.at = v.at
BookIsRows ==
  /\ Len(book) \in Nat /\ book = [k \in 1 .. Len(book) |-> book[k]]
  /\ \A k \in 1 .. Len(book) : IsARow(book[k]) /\ KeyIsOfRow(book[k])

IsRequest(q) ==
  q = [stage |-> q.stage, visit |-> q.visit, row |-> q.row, day |-> q.day, any |-> q.any, client |-> q.client]
PostIsRequests ==
  /\ post = [i \in Post |-> post[i]]
  /\ \A i \in Post : post[i].stage \in Running => IsRequest(post[i])

\* There is a row booked online of that stylist, those services, that time.
Booked(row, visit) ==
  \E k \in DOMAIN book :
    /\ book[k].key # <<>> /\ book[k].provider = row.provider
    /\ book[k].visit = visit /\ book[k].at = row.at

\* The request a page waits for is of what the page shows, and its success is
\* of a row that is there.
WaitsForItsOwn ==
  sent # 0 =>
    /\ sent \in Post /\ post[sent].stage \in Running \cup {"answered"}
    /\ post[sent].stage \in Running => post[sent].row = time /\ post[sent].visit = chosen
    /\ post[sent].stage = "answered" /\ post[sent].answer.kind = "confirmed" => Booked(time, chosen)

ConfirmedIsDone == result = "confirmed" => step = "done" /\ sent = 0 /\ Booked(time, chosen)

VisitInv == BookIsRows /\ PostIsRequests /\ WaitsForItsOwn /\ ConfirmedIsDone

\* No row is taken out, and none changes hands.
RowsKept ==
  /\ DOMAIN book \subseteq DOMAIN book'
  /\ \A k \in DOMAIN book :
       /\ book'[k].key = book[k].key /\ book'[k].provider = book[k].provider
       /\ book'[k].visit = book[k].visit /\ book'[k].at = book[k].at

BookedNext(row, visit) ==
  \E k \in DOMAIN book' :
    /\ book'[k].key # <<>> /\ book'[k].provider = row.provider
    /\ book'[k].visit = visit /\ book'[k].at = row.at

LEMMA BookedStands ==
  ASSUME RowsKept, NEW row, NEW visit, Booked(row, visit)
  PROVE  BookedNext(row, visit)
  BY DEF RowsKept, Booked, BookedNext

LEMMA BookStands ==
  ASSUME BookIsRows, UNCHANGED book
  PROVE  BookIsRows' /\ RowsKept
  BY DEF BookIsRows, RowsKept

LEMMA RowWritten ==
  ASSUME BookIsRows, NEW v, IsARow(v), KeyIsOfRow(v), book' = Append(book, v)
  PROVE  /\ BookIsRows' /\ RowsKept
         /\ Len(book) + 1 \in DOMAIN book' /\ book'[Len(book) + 1] = v
<1> DEFINE n == Len(book)
           Every == {book[k] : k \in 1 .. n} \cup {v}
<1>1. n \in Nat /\ book = [k \in 1 .. n |-> book[k]]
  BY DEF BookIsRows
<1>2. book \in Seq(Every) /\ v \in Every /\ DOMAIN book = 1 .. n
  <2>1. book \in [1 .. n -> Every] /\ DOMAIN book = 1 .. n
    BY <1>1
  <2> QED BY <1>1, <2>1
<1>3. /\ book' \in Seq(Every) /\ Len(book') = n + 1
      /\ \A k \in 1 .. n : book'[k] = book[k]
      /\ book'[n + 1] = v
  BY <1>2, AppendProperties
<1>4. book' = [k \in 1 .. n + 1 |-> book'[k]] /\ DOMAIN book' = 1 .. n + 1
  <2> HIDE DEF Every, n
  <2>1. book' \in [1 .. Len(book') -> Every]
    BY <1>3, LenProperties
  <2>2. book' \in [1 .. n + 1 -> Every]
    BY <1>3, <2>1
  <2> QED BY <2>2
<1>5. \A k \in 1 .. n + 1 : k \in 1 .. n \/ k = n + 1
  BY <1>1
<1>6. ASSUME NEW k \in 1 .. n + 1 PROVE IsARow(book'[k]) /\ KeyIsOfRow(book'[k])
  <2>1. CASE k \in 1 .. n
    <3>1. IsARow(book[k]) /\ KeyIsOfRow(book[k])
      BY <2>1 DEF BookIsRows
    <3> QED BY <3>1, <2>1, <1>3
  <2>2. CASE k = n + 1
    BY <2>2, <1>3
  <2> QED BY <1>5, <2>1, <2>2
<1>7. BookIsRows'
  <2>1. n + 1 \in Nat
    BY <1>1
  <2> QED BY <2>1, <1>3, <1>4, <1>6 DEF BookIsRows
<1>8. 1 .. n \subseteq 1 .. n + 1 /\ n + 1 \in 1 .. n + 1
  BY <1>1
<1> QED BY <1>2, <1>3, <1>4, <1>7, <1>8 DEF RowsKept

LEMMA WrittenIsARow ==
  ASSUME NEW v, NEW p, NEW vis, NEW t, NEW e, NEW c, NEW ch, NEW o, NEW st, NEW key,
         v = [provider |-> p, visit |-> vis, at |-> t, endAt |-> e, client |-> c, chair |-> ch,
              isOverride |-> o, status |-> st, key |-> key]
  PROVE  /\ IsARow(v) /\ v.key = key
         /\ v.provider = p /\ v.visit = vis /\ v.at = t
  BY DEF IsARow

LEMMA KeysDiffer ==
  ASSUME NEW p, NEW v, NEW t, NEW c
  PROVE  [provider |-> p, visit |-> v, at |-> t, client |-> c] # <<>>
<1> DEFINE key == [provider |-> p, visit |-> v, at |-> t, client |-> c]
<1>1. "at" \in DOMAIN key
  OBVIOUS
<1>2. DOMAIN <<>> = {}
  OBVIOUS
<1> QED BY <1>1, <1>2

\* A statement of the server on the request i: it stays a request for the same
\* visit, or is answered, or nobody waits for it.
LEMMA ServerKeeps ==
  ASSUME VisitInv, NEW i \in Post, post[i].stage \in Running, NEW q, post' = [post EXCEPT ![i] = q],
         BookIsRows', RowsKept, UNCHANGED <<flowVars, sent, result>>,
         \/ /\ q.stage \in Running /\ IsRequest(q)
            /\ q.row = post[i].row /\ q.visit = post[i].visit
         \/ /\ q.stage = "answered" /\ sent = i
            /\ q.answer.kind = "confirmed" => BookedNext(post[i].row, post[i].visit)
         \/ q.stage = "gone" /\ sent # i
  PROVE  VisitInv'
<1> USE DEF VisitInv
<1>0. UNCHANGED <<step, time, chosen, sent, result>>
  BY DEF flowVars
<1>1. post = [x \in Post |-> post[x]]
  BY DEF PostIsRequests
<1>2. /\ post' = [x \in Post |-> post'[x]] /\ post'[i] = q
      /\ \A x \in Post \ {i} : post'[x] = post[x]
  BY <1>1
<1>3. PostIsRequests'
  BY <1>2 DEF PostIsRequests, Running
<1>4. BookedNext(time, chosen) = Booked(time, chosen)'
  BY <1>0 DEF BookedNext, Booked
<1>5. Booked(time, chosen) => Booked(time, chosen)'
  BY <1>4, BookedStands
<1>6. ConfirmedIsDone'
  BY <1>0, <1>5 DEF ConfirmedIsDone
<1>7. WaitsForItsOwn'
  <2>1. CASE sent = 0
    BY <2>1, <1>0 DEF WaitsForItsOwn
  <2>2. CASE sent # 0 /\ sent # i
    <3>1. sent \in Post \ {i} /\ post'[sent] = post[sent]
      BY <2>2, <1>2 DEF WaitsForItsOwn
    <3> QED BY <2>2, <3>1, <1>0, <1>5 DEF WaitsForItsOwn
  <2>3. CASE sent # 0 /\ sent = i
    <3>1. post[i].row = time /\ post[i].visit = chosen
      BY <2>3 DEF WaitsForItsOwn
    <3>2. \/ q.stage \in Running /\ q.row = time /\ q.visit = chosen
          \/ /\ q.stage = "answered"
             /\ q.answer.kind = "confirmed" => Booked(time, chosen)'
      BY <2>3, <3>1, <1>4
    <3>3. post'[sent'] = q /\ sent' \in Post
      BY <2>3, <1>0, <1>2
    <3> QED BY <3>2, <3>3, <1>0 DEF WaitsForItsOwn, Running
  <2> QED BY <2>1, <2>2, <2>3
<1> QED BY <1>3, <1>6, <1>7

LEMMA RequestGoesOn ==
  ASSUME VisitInv, NEW i \in Post, post[i].stage \in Running, NEW stage \in Running, Goes(i, stage),
         UNCHANGED <<flowVars, sent, result, book>>
  PROVE  VisitInv'
<1> DEFINE q == [post[i] EXCEPT !.stage = stage]
<1>1. IsRequest(post[i])
  BY DEF VisitInv, PostIsRequests
<1>2. q.stage = stage /\ IsRequest(q) /\ q.row = post[i].row /\ q.visit = post[i].visit
  BY <1>1 DEF IsRequest
<1>3. post' = [post EXCEPT ![i] = q]
  BY DEF Goes
<1>4. BookIsRows' /\ RowsKept
  BY BookStands DEF VisitInv
<1> HIDE DEF q
<1> QED BY <1>2, <1>3, <1>4, ServerKeeps

LEMMA AnswersKeep ==
  ASSUME VisitInv, NEW i \in Post, post[i].stage \in Running, NEW answer, Answers(i, answer),
         BookIsRows', RowsKept, UNCHANGED <<flowVars, sent, result>>,
         answer.kind = "confirmed" => BookedNext(post[i].row, post[i].visit)
  PROVE  VisitInv'
<1>1. CASE sent = i
  <2> DEFINE q == [stage |-> "answered", answer |-> answer]
  <2>1. post' = [post EXCEPT ![i] = q] /\ q.stage = "answered" /\ q.answer = answer
    BY <1>1 DEF Answers
  <2> HIDE DEF q
  <2> QED BY <1>1, <2>1, ServerKeeps
<1>2. CASE sent # i
  <2>1. post' = [post EXCEPT ![i] = Gone] /\ Gone.stage = "gone"
    BY <1>2 DEF Answers, Gone
  <2> QED BY <1>2, <2>1, ServerKeeps
<1> QED BY <1>1, <1>2

LEMMA KeyedIsBooked ==
  ASSUME BookIsRows, NEW i, NEW c, Keyed(idempotencyKey(i, c)) # {}
  PROVE  Booked(post[i].row, post[i].visit)
<1> DEFINE key == idempotencyKey(i, c)
<1>1. PICK k \in DOMAIN book : book[k].key = key
  BY DEF Keyed
<1>2. /\ key # <<>> /\ key.provider = post[i].row.provider
      /\ key.visit = post[i].visit /\ key.at = post[i].row.at
  BY KeysDiffer DEF idempotencyKey
<1>3. k \in 1 .. Len(book)
  BY <1>1 DEF BookIsRows
<1>4. KeyIsOfRow(book[k])
  BY <1>3 DEF BookIsRows
<1> HIDE DEF key
<1> QED BY <1>1, <1>2, <1>4 DEF KeyIsOfRow, Booked

LEMMA ScreenKeeps ==
  ASSUME VisitInv, NEW s, On(s), s # "done", result' \in {result, "none"}
  PROVE  VisitInv'
<1>1. sent = 0 /\ sent' = 0 /\ result' # "confirmed" /\ UNCHANGED <<post, book>>
  BY DEF On, Pending, serverVars, VisitInv, ConfirmedIsDone
<1>2. BookIsRows' /\ PostIsRequests'
  BY <1>1 DEF VisitInv, BookIsRows, PostIsRequests
<1>3. WaitsForItsOwn' /\ ConfirmedIsDone'
  BY <1>1 DEF WaitsForItsOwn, ConfirmedIsDone
<1> QED BY <1>2, <1>3 DEF VisitInv

LEMMA ScreensKeep ==
  ASSUME VisitInv,
         \/ \E s \in Service : toggle(s)
         \/ continue
         \/ \E p \in Provider \cup {Anyone} : choose(p)
         \/ \E d \in Day : chooseDay(d)
         \/ \E row \in times : pickTime(row)
         \/ back
  PROVE  VisitInv'
<1>1. \E s \in {"service", "who", "day", "time", "details"} : On(s)
  BY DEF toggle, continue, choose, chooseDay, pickTime, back, Before
<1>2. result' \in {result, "none"}
  BY DEF toggle, continue, choose, chooseDay, pickTime, back
<1> QED BY <1>1, <1>2, ScreenKeeps

LEMMA ReloadKeeps ==
  ASSUME VisitInv, reload
  PROVE  VisitInv'
<1>1. sent' = 0 /\ result' = "none" /\ UNCHANGED book
  BY DEF reload
<1>2. post' = [i \in Post |-> IF post[i].stage = "answered" THEN Gone ELSE post[i]]
  BY DEF reload
<1>3. PostIsRequests'
  <2>1. post' = [i \in Post |-> post'[i]]
    BY <1>2
  <2>2. ASSUME NEW i \in Post, post'[i].stage \in Running PROVE IsRequest(post'[i])
    <3>1. Gone.stage \notin Running
      BY DEF Gone, Running
    <3>2. post'[i] = post[i]
      BY <1>2, <2>2, <3>1
    <3> QED BY <2>2, <3>2 DEF VisitInv, PostIsRequests
  <2> QED BY <2>1, <2>2 DEF PostIsRequests
<1>4. BookIsRows' /\ WaitsForItsOwn' /\ ConfirmedIsDone'
  BY <1>1, BookStands DEF VisitInv, WaitsForItsOwn, ConfirmedIsDone
<1> QED BY <1>3, <1>4 DEF VisitInv

LEMMA SubmitKeeps ==
  ASSUME VisitInv, OnlineConstants, NEW i \in Post, submit(i)
  PROVE  VisitInv'
<1> DEFINE q == [stage |-> "limit", visit |-> chosen, row |-> time, day |-> day,
                 any |-> provider = Anyone, client |-> 0]
<1>1. /\ sent = 0 /\ step = "details" /\ sent' = i /\ post' = [post EXCEPT ![i] = q]
      /\ UNCHANGED <<step, time, chosen, result, book>>
  BY DEF submit, Pending, flowVars
<1>2. q.stage = "limit" /\ q.visit = chosen /\ q.row = time /\ IsRequest(q)
  BY DEF IsRequest
<1> HIDE DEF q
<1>3. /\ post' = [x \in Post |-> post'[x]] /\ post'[i] = q
      /\ \A x \in Post \ {i} : post'[x] = post[x]
  BY <1>1 DEF VisitInv, PostIsRequests
<1>4. PostIsRequests'
  BY <1>2, <1>3 DEF VisitInv, PostIsRequests
<1>5. WaitsForItsOwn'
  BY <1>1, <1>2, <1>3 DEF WaitsForItsOwn, Running
<1>6. ConfirmedIsDone' /\ BookIsRows'
  BY <1>1, BookStands DEF VisitInv, ConfirmedIsDone
<1> QED BY <1>4, <1>5, <1>6 DEF VisitInv

LEMMA LandedKeeps ==
  ASSUME VisitInv, landed
  PROVE  VisitInv'
<1>1. /\ sent # 0 /\ sent \in Post /\ post[sent].stage = "answered" /\ sent' = 0
      /\ UNCHANGED <<chosen, book>> /\ post' = [post EXCEPT ![sent] = Gone]
  BY DEF landed, Pending, VisitInv, WaitsForItsOwn
<1>2. post[sent].answer.kind = "confirmed" => Booked(time, chosen)
  BY <1>1 DEF VisitInv, WaitsForItsOwn
<1>3. result' = "confirmed" => post[sent].answer.kind = "confirmed"
  BY DEF landed
<1>4. post[sent].answer.kind = "confirmed" => step' = "done" /\ time' = time
  BY DEF landed
<1>5. PostIsRequests'
  <2>1. /\ post' = [x \in Post |-> post'[x]] /\ post'[sent].stage = "gone"
        /\ \A x \in Post \ {sent} : post'[x] = post[x]
    BY <1>1 DEF VisitInv, PostIsRequests, Gone
  <2> QED BY <1>1, <2>1 DEF VisitInv, PostIsRequests, Running
<1>6. ConfirmedIsDone'
  <2>1. SUFFICES ASSUME result' = "confirmed" PROVE step' = "done" /\ Booked(time, chosen)'
    BY <1>1 DEF ConfirmedIsDone
  <2>2. step' = "done" /\ time' = time /\ Booked(time, chosen)
    BY <2>1, <1>2, <1>3, <1>4
  <2> QED BY <2>2, <1>1 DEF Booked
<1>7. WaitsForItsOwn' /\ BookIsRows'
  BY <1>1, BookStands DEF VisitInv, WaitsForItsOwn
<1> QED BY <1>5, <1>6, <1>7 DEF VisitInv

\* The desk's writes and her cancellation leave every row where it was.
LEMMA RowsKeptKeeps ==
  ASSUME VisitInv, BookIsRows', RowsKept, UNCHANGED <<step, chosen, time, sent, result, post>>
  PROVE  VisitInv'
<1>1. Booked(time, chosen) => Booked(time, chosen)'
  BY BookedStands DEF BookedNext, Booked
<1>2. PostIsRequests'
  BY DEF VisitInv, PostIsRequests
<1>3. WaitsForItsOwn' /\ ConfirmedIsDone'
  BY <1>1 DEF VisitInv, WaitsForItsOwn, ConfirmedIsDone
<1> QED BY <1>2, <1>3 DEF VisitInv

LEMMA DeskBooksKeeps ==
  ASSUME VisitInv, deskBooks
  PROVE  VisitInv'
<1>1. PICK p, s, t : book' = written(book, p, <<s>>, t, NoClient, FALSE, <<>>)
  BY DEF deskBooks
<1>2. UNCHANGED <<step, chosen, time, sent, result, post>>
  BY DEF deskBooks, flowVars
<1>3. PICK v : IsARow(v) /\ v.key = <<>> /\ book' = Append(book, v)
  BY <1>1, WrittenIsARow DEF written
<1>4. KeyIsOfRow(v)
  BY <1>3 DEF KeyIsOfRow
<1>5. BookIsRows' /\ RowsKept
  BY <1>3, <1>4, RowWritten DEF VisitInv
<1> QED BY <1>2, <1>5, RowsKeptKeeps

LEMMA CancelKeeps ==
  ASSUME VisitInv, cancel
  PROVE  VisitInv'
<1>1. PICK k \in DOMAIN book : book' = [book EXCEPT ![k].status = "cancelled"]
  BY DEF cancel
<1>2. UNCHANGED <<step, chosen, time, sent, result, post>>
  BY DEF cancel, flowVars
<1> DEFINE n == Len(book)
           v == [book[k] EXCEPT !.status = "cancelled"]
<1>3. n \in Nat /\ book = [x \in 1 .. n |-> book[x]] /\ k \in 1 .. n /\ IsARow(book[k]) /\ KeyIsOfRow(book[k])
  BY DEF VisitInv, BookIsRows
<1>4. /\ IsARow(v) /\ KeyIsOfRow(v) /\ v.key = book[k].key
      /\ v.provider = book[k].provider /\ v.visit = book[k].visit /\ v.at = book[k].at
  BY <1>3 DEF IsARow, KeyIsOfRow
<1>5. book' = [book EXCEPT ![k] = v]
  BY <1>1
<1> HIDE DEF v
<1>6. /\ book' = [x \in 1 .. n |-> book'[x]] /\ book'[k] = v
      /\ \A x \in (1 .. n) \ {k} : book'[x] = book[x]
  BY <1>3, <1>5
<1>7. Len(book') = n
  <2> DEFINE Every == {book[x] : x \in 1 .. n} \cup {v}
  <2>1. book' \in [1 .. n -> Every]
    BY <1>3, <1>6
  <2>2. book' \in Seq(Every)
    BY <2>1, <1>3
  <2> HIDE DEF Every
  <2>3. DOMAIN book' = 1 .. Len(book') /\ Len(book') \in Nat /\ DOMAIN book' = 1 .. n
    BY <2>1, <2>2, LenProperties
  <2> HIDE DEF n
  <2> QED BY <2>3, <1>3
<1>8. BookIsRows'
  BY <1>3, <1>4, <1>6, <1>7 DEF VisitInv, BookIsRows
<1>9. RowsKept
  BY <1>3, <1>4, <1>6 DEF RowsKept
<1> QED BY <1>2, <1>8, <1>9, RowsKeptKeeps

\* The statements of confirmAppointment.
LEMMA RequestKept ==
  ASSUME VisitInv, NEW i \in Post, post[i].stage \in Running, NEW c, NEW stage \in Running,
         post' = [post EXCEPT ![i].client = c, ![i].stage = stage],
         UNCHANGED <<flowVars, sent, result, book>>
  PROVE  VisitInv'
<1> DEFINE q == [post[i] EXCEPT !.client = c, !.stage = stage]
<1>1. IsRequest(post[i]) /\ post = [x \in Post |-> post[x]]
  BY DEF VisitInv, PostIsRequests
<1>2. q.stage = stage /\ IsRequest(q) /\ q.row = post[i].row /\ q.visit = post[i].visit
  <2> DEFINE o == post[i]
  <2>1. q = [stage |-> stage, visit |-> o.visit, row |-> o.row, day |-> o.day, any |-> o.any, client |-> c]
    <3>1. o = [stage |-> o.stage, visit |-> o.visit, row |-> o.row, day |-> o.day, any |-> o.any, client |-> o.client]
      BY <1>1 DEF IsRequest
    <3>2. q = [o EXCEPT !.client = c, !.stage = stage]
      OBVIOUS
    <3> HIDE DEF q, o
    <3> QED BY <3>1, <3>2
  <2> HIDE DEF q
  <2> QED BY <2>1 DEF IsRequest
<1>3. post' = [post EXCEPT ![i] = q]
  BY <1>1
<1>4. BookIsRows' /\ RowsKept
  BY BookStands DEF VisitInv
<1> HIDE DEF q
<1> QED BY <1>2, <1>3, <1>4, ServerKeeps

LEMMA FindsKeep ==
  ASSUME VisitInv, NEW i \in Post, find(i) \/ create(i)
  PROVE  VisitInv'
<1>1. post[i].stage \in Running /\ UNCHANGED <<flowVars, sent, result, book>>
  BY DEF find, create, AtStage, Running
<1>2. PICK c, stage : stage \in {"create", "key"} /\ post' = [post EXCEPT ![i].client = c, ![i].stage = stage]
  BY DEF find, create
<1>3. stage \in Running
  BY <1>2 DEF Running
<1> QED BY <1>1, <1>2, <1>3, RequestKept

\* An answer that does not say "confirmed".
LEMMA OtherAnswersKeep ==
  ASSUME VisitInv, NEW i \in Post, post[i].stage \in Running, NEW answer, Answers(i, answer),
         answer.kind # "confirmed", UNCHANGED <<flowVars, sent, result, book>>
  PROVE  VisitInv'
<1>1. BookIsRows' /\ RowsKept
  BY BookStands DEF VisitInv
<1> QED BY <1>1, AnswersKeep

\* A retry's answer: the row of its key.
LEMMA RetryKeeps ==
  ASSUME VisitInv, NEW i \in Post, post[i].stage \in Running, NEW c,
         Keyed(idempotencyKey(i, c)) # {}, Answers(i, [kind |-> "confirmed"]),
         UNCHANGED <<flowVars, sent, result, book>>
  PROVE  VisitInv'
<1> DEFINE answer == [kind |-> "confirmed"]
<1>1. BookIsRows' /\ RowsKept
  BY BookStands DEF VisitInv
<1>2. BookedNext(post[i].row, post[i].visit)
  BY <1>1, KeyedIsBooked, BookedStands DEF VisitInv
<1>3. Answers(i, answer)
  OBVIOUS
<1> HIDE DEF answer
<1> QED BY <1>1, <1>2, <1>3, AnswersKeep

LEMMA LimitKeeps ==
  ASSUME VisitInv, NEW i \in Post, limit(i)
  PROVE  VisitInv'
<1>1. post[i].stage \in Running /\ UNCHANGED <<flowVars, sent, result, book>>
  BY DEF limit, AtStage, Running
<1>2. \/ Goes(i, "find")
      \/ \E c : Keyed(idempotencyKey(i, c)) # {} /\ Answers(i, [kind |-> "confirmed"])
      \/ \E answer : answer.kind # "confirmed" /\ Answers(i, answer)
  <2>1. \/ Goes(i, "find")
        \/ Keyed(idempotencyKey(i, findReturningClient)) # {} /\ Answers(i, [kind |-> "confirmed"])
        \/ Answers(i, [kind |-> "refused"])
    BY DEF limit
  <2>2. [kind |-> "refused"].kind # "confirmed"
    OBVIOUS
  <2> QED BY ONLY <2>1, <2>2
<1>3. "find" \in Running
  BY DEF Running
<1> QED BY <1>1, <1>2, <1>3, RequestGoesOn, RetryKeeps, OtherAnswersKeep

LEMMA LookupKeeps ==
  ASSUME VisitInv, NEW i \in Post, lookup(i)
  PROVE  VisitInv'
<1>1. post[i].stage \in Running /\ UNCHANGED <<flowVars, sent, result, book>>
  BY DEF lookup, AtStage, Running
<1>2. \/ Goes(i, "write")
      \/ \E c : Keyed(idempotencyKey(i, c)) # {} /\ Answers(i, [kind |-> "confirmed"])
  BY DEF lookup
<1>3. "write" \in Running
  BY DEF Running
<1> QED BY <1>1, <1>2, <1>3, RequestGoesOn, RetryKeeps

LEMMA RescuesKeep ==
  ASSUME VisitInv, NEW i \in Post, sameTimeWithSomebodyElse(i) \/ alternatives(i)
  PROVE  VisitInv'
<1>1. post[i].stage \in Running /\ UNCHANGED <<flowVars, sent, result, book>>
  BY DEF sameTimeWithSomebodyElse, alternatives, AtStage, Running
<1>2. Goes(i, "others") \/ \E answer : answer.kind # "confirmed" /\ Answers(i, answer)
  <2>1. CASE sameTimeWithSomebodyElse(i)
    <3>1. \/ Goes(i, "others")
          \/ \E row : Answers(i, [kind |-> "instead", row |-> [at |-> row.at, provider |-> row.provider]])
      BY <2>1 DEF sameTimeWithSomebodyElse
    <3>2. \A row : [kind |-> "instead", row |-> row].kind # "confirmed"
      OBVIOUS
    <3> QED BY ONLY <3>1, <3>2
  <2>2. CASE alternatives(i)
    <3>1. \E rows : Answers(i, [kind |-> "taken", rows |-> rows])
      BY <2>2 DEF alternatives
    <3>2. \A rows : [kind |-> "taken", rows |-> rows].kind # "confirmed"
      OBVIOUS
    <3> QED BY ONLY <3>1, <3>2
  <2> QED BY <2>1, <2>2
<1>3. "others" \in Running
  BY DEF Running
<1> QED BY <1>1, <1>2, <1>3, RequestGoesOn, OtherAnswersKeep

LEMMA BookAppointmentKeeps ==
  ASSUME VisitInv, NEW i \in Post, bookAppointment(i)
  PROVE  VisitInv'
<1> DEFINE r == post[i]
           key == idempotencyKey(i, r.client)
           new == [kind |-> "confirmed"]
<1>1. post[i].stage \in Running /\ UNCHANGED <<flowVars, sent, result>>
  BY DEF bookAppointment, AtStage, Running
<1>2. \/ /\ book' = written(book, r.row.provider, r.visit, r.row.at, r.client, FALSE, key)
         /\ Answers(i, new)
      \/ UNCHANGED book /\ \E answer : answer.kind # "confirmed" /\ Answers(i, answer)
      \/ UNCHANGED book /\ (Goes(i, "rescue") \/ Goes(i, "others"))
  <2>1. [kind |-> "error"].kind # "confirmed"
    OBVIOUS
  <2> QED BY <2>1 DEF bookAppointment
<1>3. CASE /\ book' = written(book, r.row.provider, r.visit, r.row.at, r.client, FALSE, key)
           /\ Answers(i, new)
  <2>1. PICK v : /\ IsARow(v) /\ v.key = key /\ book' = Append(book, v)
                 /\ v.provider = r.row.provider /\ v.visit = r.visit /\ v.at = r.row.at
    <3> HIDE DEF key, r
    <3> QED BY <1>3, WrittenIsARow DEF written
  <2>2. /\ key # <<>> /\ key.provider = r.row.provider
        /\ key.visit = r.visit /\ key.at = r.row.at
    BY KeysDiffer DEF idempotencyKey
  <2> HIDE DEF key, r, new
  <2>3. KeyIsOfRow(v)
    BY <2>1, <2>2 DEF KeyIsOfRow
  <2>4. BookIsRows' /\ RowsKept /\ \E k \in DOMAIN book' : book'[k] = v
    BY <2>1, <2>3, RowWritten DEF VisitInv
  <2>5. BookedNext(r.row, r.visit)
    BY <2>1, <2>2, <2>4 DEF BookedNext
  <2>6. BookedNext(post[i].row, post[i].visit)
    BY <2>5 DEF r
  <2> QED BY <1>1, <1>3, <2>4, <2>6, AnswersKeep
<1>4. CASE UNCHANGED book /\ \E answer : answer.kind # "confirmed" /\ Answers(i, answer)
  BY <1>1, <1>4, OtherAnswersKeep
<1>5. CASE UNCHANGED book /\ (Goes(i, "rescue") \/ Goes(i, "others"))
  <2>1. "rescue" \in Running /\ "others" \in Running
    BY DEF Running
  <2> QED BY <1>1, <1>5, <2>1, RequestGoesOn
<1> QED BY <1>2, <1>3, <1>4, <1>5

LEMMA OnlineKeeps ==
  ASSUME VisitInv, OnlineConstants, [OnlineNext]_onlineVars
  PROVE  VisitInv'
<1>1. CASE UNCHANGED onlineVars
  <2>1. BookIsRows' /\ RowsKept
    BY <1>1, BookStands DEF onlineVars, VisitInv
  <2> QED BY <1>1, <2>1, RowsKeptKeeps DEF onlineVars
<1>2. CASE OnlineNext
  BY <1>2, ScreensKeep, ReloadKeeps, LandedKeeps, SubmitKeeps, LimitKeeps, FindsKeep, LookupKeeps,
     BookAppointmentKeeps, RescuesKeep, CancelKeeps, DeskBooksKeeps DEF OnlineNext
<1> QED BY <1>1, <1>2

LEMMA VisitHolds ==
  ASSUME OnlineConstants
  PROVE  OnlineSpec => []VisitInv
<1>1. OnlineInit => VisitInv
  <2> SUFFICES ASSUME OnlineInit PROVE VisitInv
    OBVIOUS
  <2>1. book = <<>> /\ post = [i \in Post |-> Unsent] /\ sent = 0 /\ result = "none"
    BY DEF OnlineInit
  <2>2. Len(book) = 0 /\ book = [k \in 1 .. 0 |-> book[k]]
    BY <2>1
  <2>3. BookIsRows
    BY <2>2 DEF BookIsRows
  <2>4. PostIsRequests
    BY <2>1 DEF PostIsRequests, Unsent, Running
  <2> QED BY <2>1, <2>3, <2>4 DEF VisitInv, WaitsForItsOwn, ConfirmedIsDone
<1>2. VisitInv /\ [OnlineNext]_onlineVars => VisitInv'
  BY OnlineKeeps
<1> QED
  BY <1>1, <1>2, PTL DEF OnlineSpec

\* The website's done screen, for any stylists, lengths, allowances, order of
\* reloads and number of requests: what it names was written by a request for
\* exactly that (confirmAppointment, A-054, SEC-03).
THEOREM ConfirmedIsInTheBook ==
  ASSUME OnlineConstants
  PROVE  OnlineSpec => []ConfirmedIsWhatSheSaw
<1>1. VisitInv => ConfirmedIsWhatSheSaw
  BY DEF VisitInv, ConfirmedIsDone, Booked, ConfirmedIsWhatSheSaw, PublicRows
<1> QED
  BY <1>1, VisitHolds, PTL

-----------------------------------------------------------------------------
(* The website's search for somebody else.                                 *)

\* What the flow shows, what a request asks and what its answer offers are
\* instants, a visit is a list of services, and the book is in time.
FlowInTime ==
  /\ chosen \in Seq(Service) /\ day \in Int /\ openDays \subseteq Int
  /\ (\A row \in times : row.at \in Int) /\ time.at \in Int
RequestInTime(q) ==
  /\ q.stage \in Running => q.visit \in Seq(Service) /\ q.row.at \in Int /\ q.day \in Int
  /\ q.stage = "answered" =>
       /\ q.answer.kind = "taken" => \A row \in q.answer.rows : row.at \in Int
       /\ q.answer.kind = "instead" => q.answer.row.at \in Int
RequestsInTime == \A i \in Post : RequestInTime(post[i])
OnlineInTime == FlowInTime /\ RequestsInTime /\ BookInTime(book)

LEMMA TimesOnInTime ==
  ASSUME OnlineConstants, NEW v, NEW p, NEW d \in Int, NEW h
  PROVE  \A row \in timesOn(v, p, d, h) : row.at \in Int
<1>1. OffersConstants
  BY DEF OnlineConstants
<1> QED BY <1>1, OffersInTime DEF timesOn

\* A screen's step leaves the requests and the book alone.
LEMMA FlowMoves ==
  ASSUME OnlineInTime, FlowInTime', UNCHANGED <<post, book>>
  PROVE  OnlineInTime'
BY DEF OnlineInTime, RequestsInTime, RequestInTime

LEMMA FlowsInTime ==
  ASSUME OnlineConstants, OnlineInTime,
         \/ \E s \in Service : toggle(s)
         \/ continue
         \/ \E p \in Provider \cup {Anyone} : choose(p)
         \/ \E d \in Day : chooseDay(d)
         \/ \E row \in times : pickTime(row)
         \/ back
  PROVE  OnlineInTime'
<1>0. FlowInTime /\ NothingPicked.at = -1
  BY DEF OnlineInTime, NothingPicked
<1>1. UNCHANGED <<post, book>>
  BY DEF toggle, continue, choose, chooseDay, pickTime, back, On, serverVars
<1>2. ASSUME NEW s \in Service, toggle(s) PROVE FlowInTime'
  <2>1. /\ chosen' = toggled(chosen, s) /\ day' = 0 /\ time'.at = -1
        /\ UNCHANGED <<openDays, times>>
    BY <1>0, <1>2 DEF toggle
  <2>2. chosen' \in Seq(Service)
    BY <1>0, <2>1, ToggledIsAVisit DEF FlowInTime
  <2> QED BY <1>0, <2>1, <2>2 DEF FlowInTime
<1>3. ASSUME continue PROVE FlowInTime'
  BY <1>0, <1>3 DEF continue, FlowInTime
<1>4. ASSUME NEW p, choose(p) PROVE FlowInTime'
  <2>1. /\ day' = 0 /\ UNCHANGED <<chosen, times, time>>
        /\ openDays' \subseteq Day
    BY <1>4 DEF choose, anyProviderDays, daysWithAvailability
  <2>2. openDays' \subseteq Int
    BY <2>1 DEF Day
  <2> QED BY <1>0, <2>1, <2>2 DEF FlowInTime
<1>5. ASSUME NEW d \in Day, chooseDay(d) PROVE FlowInTime'
  <2>1. /\ d \in Int /\ day' = d /\ times' = timesOn(chosen, provider, d, NoClient)
        /\ UNCHANGED <<chosen, openDays, time>>
    BY <1>5 DEF chooseDay, Day
  <2>2. \A row \in times' : row.at \in Int
    BY <2>1, TimesOnInTime
  <2> QED BY <1>0, <2>1, <2>2 DEF FlowInTime
<1>6. ASSUME NEW row \in times, pickTime(row) PROVE FlowInTime'
  <2>1. time'.at = row.at /\ UNCHANGED <<chosen, day, openDays, times>>
    BY <1>6 DEF pickTime
  <2> QED BY <1>0, <2>1 DEF FlowInTime
<1>7. ASSUME back PROVE FlowInTime'
  <2>1. /\ UNCHANGED chosen /\ time'.at = -1 /\ day' \in {day, 0}
        /\ openDays' \in {openDays, {}} /\ times' \in {times, {}}
    BY <1>0, <1>7 DEF back
  <2> QED BY <1>0, <2>1 DEF FlowInTime
<1> QED BY <1>1, <1>2, <1>3, <1>4, <1>5, <1>6, <1>7, FlowMoves

\* One request changes.
LEMMA RequestMoves ==
  ASSUME OnlineInTime, PostIsRequests, NEW i \in Post, NEW q, RequestInTime(q),
         post' = [post EXCEPT ![i] = q], BookInTime(book'), FlowInTime'
  PROVE  OnlineInTime'
<1>1. ASSUME NEW x \in Post PROVE RequestInTime(post'[x])
  <2>1. post'[x] = IF x = i THEN q ELSE post[x]
    BY DEF PostIsRequests
  <2> QED BY <2>1 DEF OnlineInTime, RequestsInTime
<1> QED BY <1>1 DEF OnlineInTime, RequestsInTime, RequestInTime

LEMMA GoneInTime == RequestInTime(Gone) /\ RequestInTime(Unsent)
BY DEF RequestInTime, Gone, Unsent, Running

LEMMA AnswersInTime ==
  ASSUME OnlineInTime, PostIsRequests, NEW i \in Post, NEW answer, Answers(i, answer),
         RequestInTime([stage |-> "answered", answer |-> answer]), BookInTime(book'), FlowInTime'
  PROVE  OnlineInTime'
<1>1. PICK q : RequestInTime(q) /\ post' = [post EXCEPT ![i] = q]
  BY GoneInTime DEF Answers
<1> QED BY <1>1, RequestMoves

\* An answer without a time.
LEMMA PlainAnswer ==
  ASSUME NEW kind, kind \notin {"taken", "instead"}
  PROVE  RequestInTime([stage |-> "answered", answer |-> [kind |-> kind]])
BY DEF RequestInTime, Running

\* A request goes on to its next statement.
LEMMA StagesInTime ==
  ASSUME OnlineInTime, PostIsRequests, NEW i \in Post, post[i].stage \in Running, NEW c, NEW stage \in Running,
         \/ Goes(i, stage)
         \/ post' = [post EXCEPT ![i].client = c, ![i].stage = stage],
         UNCHANGED <<flowVars, book>>
  PROVE  OnlineInTime'
<1> DEFINE o == post[i]
           q == [o EXCEPT !.stage = stage]
           r == [o EXCEPT !.client = c, !.stage = stage]
<1>1. /\ o = [stage |-> o.stage, visit |-> o.visit, row |-> o.row, day |-> o.day, any |-> o.any, client |-> o.client]
      /\ o.visit \in Seq(Service) /\ o.row.at \in Int /\ o.day \in Int
      /\ post = [x \in Post |-> post[x]]
  BY DEF PostIsRequests, IsRequest, OnlineInTime, RequestsInTime, RequestInTime
<1>2. post' = [post EXCEPT ![i] = q] \/ post' = [post EXCEPT ![i] = r]
  BY <1>1 DEF Goes
<1>3. /\ q.stage = stage /\ q.visit = o.visit /\ q.row = o.row /\ q.day = o.day
      /\ r.stage = stage /\ r.visit = o.visit /\ r.row = o.row /\ r.day = o.day
  <2> HIDE DEF o
  <2> QED BY <1>1
<1> HIDE DEF q, r
<1>4. RequestInTime(q) /\ RequestInTime(r)
  <2>1. stage # "answered"
    BY DEF Running
  <2> QED BY <1>1, <1>3, <2>1 DEF RequestInTime
<1>5. FlowInTime' /\ BookInTime(book')
  BY DEF OnlineInTime, FlowInTime, flowVars
<1> QED BY <1>2, <1>4, <1>5, RequestMoves

LEMMA PagesInTime ==
  ASSUME OnlineInTime, PostIsRequests, WaitsForItsOwn, reload \/ landed \/ \E i \in Post : submit(i)
  PROVE  OnlineInTime'
<1>0. FlowInTime /\ BookInTime(book') /\ NothingPicked.at = -1
  BY DEF OnlineInTime, NothingPicked, reload, landed, submit
<1>1. CASE reload
  <2>1. /\ chosen' = <<>> /\ day' = 0 /\ openDays' = {} /\ times' = {} /\ time'.at = -1
    BY <1>0, <1>1 DEF reload, Fresh
  <2>2. <<>> \in Seq(Service)
    OBVIOUS
  <2>3. FlowInTime'
    BY <2>1, <2>2 DEF FlowInTime
  <2>4. ASSUME NEW i \in Post PROVE RequestInTime(post'[i])
    <3>1. post'[i] = Gone \/ post'[i] = post[i]
      BY <1>1 DEF reload
    <3> QED BY <3>1, GoneInTime DEF OnlineInTime, RequestsInTime
  <2> QED BY <1>0, <2>3, <2>4 DEF OnlineInTime, RequestsInTime, RequestInTime
<1>2. CASE landed
  <2> DEFINE answer == post[sent].answer
  <2>1. /\ sent \in Post /\ post[sent].stage = "answered" /\ post' = [post EXCEPT ![sent] = Gone]
        /\ UNCHANGED <<chosen, day, openDays>>
    BY <1>2 DEF landed, Pending, WaitsForItsOwn
  <2>2. /\ answer.kind = "taken" => \A row \in answer.rows : row.at \in Int
        /\ answer.kind = "instead" => answer.row.at \in Int
    BY <2>1 DEF OnlineInTime, RequestsInTime, RequestInTime
  <2>3. /\ (time' = answer.row /\ answer.kind = "instead") \/ time' = NothingPicked \/ time' = time
        /\ (times' = answer.rows /\ answer.kind = "taken") \/ times' = times
    <3>1. /\ time' = CASE answer.kind = "instead" -> answer.row
                        [] answer.kind = "taken" -> NothingPicked [] OTHER -> time
          /\ times' = IF answer.kind = "taken" THEN answer.rows ELSE times
      BY <1>2 DEF landed
    <3> HIDE DEF answer
    <3> QED BY <3>1
  <2> HIDE DEF answer
  <2>4. FlowInTime'
    BY <1>0, <2>1, <2>2, <2>3 DEF FlowInTime
  <2> QED BY <1>0, <2>1, <2>4, GoneInTime, RequestMoves
<1>3. ASSUME NEW i \in Post, submit(i) PROVE OnlineInTime'
  <2> DEFINE q == [stage |-> "limit", visit |-> chosen, row |-> time, day |-> day,
                   any |-> provider = Anyone, client |-> 0]
  <2>1. post' = [post EXCEPT ![i] = q] /\ UNCHANGED flowVars
    BY <1>3 DEF submit
  <2>2. q.stage # "answered" /\ q.visit = chosen /\ q.row = time /\ q.day = day
    OBVIOUS
  <2> HIDE DEF q
  <2>3. RequestInTime(q) /\ FlowInTime'
    BY <1>0, <2>1, <2>2 DEF RequestInTime, FlowInTime, flowVars
  <2> QED BY <1>0, <2>1, <2>3, RequestMoves
<1> QED BY <1>1, <1>2, <1>3

\* The statements of confirmAppointment.
LEMMA StatementsInTime ==
  ASSUME OnlineConstants, OnlineInTime, PostIsRequests, NEW i \in Post,
         \/ limit(i) \/ find(i) \/ create(i) \/ lookup(i)
         \/ sameTimeWithSomebodyElse(i) \/ alternatives(i)
  PROVE  OnlineInTime'
<1>1. post[i].stage \in Running /\ UNCHANGED <<flowVars, book>>
  BY DEF limit, find, create, lookup, sameTimeWithSomebodyElse, alternatives, AtStage, Running
<1>2. FlowInTime' /\ BookInTime(book') /\ post[i].row.at \in Int /\ post[i].day \in Int /\ OffersConstants
  BY <1>1 DEF OnlineInTime, FlowInTime, flowVars, RequestsInTime, RequestInTime, OnlineConstants
<1>3. ASSUME NEW stage \in {"find", "create", "key", "write", "others"}, NEW c,
             Goes(i, stage) \/ post' = [post EXCEPT ![i].client = c, ![i].stage = stage]
      PROVE  OnlineInTime'
  <2>1. stage \in Running
    BY DEF Running
  <2> QED BY <1>1, <1>3, <2>1, StagesInTime
<1>4. ASSUME NEW kind \in {"confirmed", "refused"}, Answers(i, [kind |-> kind]) PROVE OnlineInTime'
  <2>1. RequestInTime([stage |-> "answered", answer |-> [kind |-> kind]])
    BY PlainAnswer
  <2> QED BY <1>2, <1>4, <2>1, AnswersInTime
<1>5. CASE limit(i) \/ find(i) \/ create(i) \/ lookup(i)
  <2>1. \/ \E c : \E stage \in {"find", "create", "key", "write", "others"} :
             Goes(i, stage) \/ post' = [post EXCEPT ![i].client = c, ![i].stage = stage]
        \/ \E kind \in {"confirmed", "refused"} : Answers(i, [kind |-> kind])
    BY <1>5 DEF limit, find, create, lookup
  <2> QED BY <2>1, <1>3, <1>4
<1>6. CASE sameTimeWithSomebodyElse(i)
  <2>1. CASE Goes(i, "others")
    BY <2>1, <1>3
  <2>2. ASSUME NEW row \in somebodyElse(i),
               Answers(i, [kind |-> "instead", row |-> [at |-> row.at, provider |-> row.provider]])
        PROVE  OnlineInTime'
    <3>1. row.at = post[i].row.at
      BY DEF somebodyElse, anyProviderAt
    <3> DEFINE answer == [kind |-> "instead", row |-> [at |-> row.at, provider |-> row.provider]]
    <3>2. answer.kind = "instead" /\ answer.row.at = row.at
      OBVIOUS
    <3>3. Answers(i, answer)
      BY <2>2
    <3> HIDE DEF answer
    <3>4. RequestInTime([stage |-> "answered", answer |-> answer])
      BY <1>2, <3>1, <3>2 DEF RequestInTime, Running
    <3> QED BY <1>2, <3>3, <3>4, AnswersInTime
  <2> QED BY <1>6, <2>1, <2>2 DEF sameTimeWithSomebodyElse
<1>7. CASE alternatives(i)
  <2> DEFINE rows == timesOn(post[i].visit, IF post[i].any THEN Anyone ELSE post[i].row.provider,
                             post[i].day, post[i].client)
             answer == [kind |-> "taken", rows |-> rows]
  <2>1. \A row \in rows : row.at \in Int
    BY <1>2, TimesOnInTime
  <2>2. Answers(i, answer)
    BY <1>7 DEF alternatives
  <2> HIDE DEF rows
  <2>3. answer.kind = "taken" /\ answer.rows = rows
    OBVIOUS
  <2> HIDE DEF answer
  <2>4. RequestInTime([stage |-> "answered", answer |-> answer])
    BY <2>1, <2>3 DEF RequestInTime, Running
  <2> QED BY <1>2, <2>2, <2>4, AnswersInTime
<1> QED BY <1>5, <1>6, <1>7

LEMMA BookAppointmentInTime ==
  ASSUME OnlineConstants, OnlineInTime, PostIsRequests, NEW i \in Post, bookAppointment(i)
  PROVE  OnlineInTime'
<1> DEFINE r == post[i]
           key == idempotencyKey(i, r.client)
           why == whyRefused(book, r.row.provider, r.visit, r.row.at, r.client)
<1>1. post[i].stage \in Running /\ UNCHANGED flowVars
  BY DEF bookAppointment, AtStage, Running
<1>2. /\ FlowInTime' /\ BookInTime(book) /\ OffersConstants
      /\ r.row.at \in Int /\ r.visit \in Seq(Service)
  BY <1>1 DEF OnlineInTime, FlowInTime, flowVars, RequestsInTime, RequestInTime, OnlineConstants
<1>3. \/ /\ why = "none" /\ Answers(i, [kind |-> "confirmed"])
         /\ book' = written(book, r.row.provider, r.visit, r.row.at, r.client, FALSE, key)
      \/ UNCHANGED book /\ (Answers(i, [kind |-> "error"]) \/ Goes(i, "rescue") \/ Goes(i, "others"))
  BY DEF bookAppointment
<1>4. CASE /\ why = "none" /\ Answers(i, [kind |-> "confirmed"])
           /\ book' = written(book, r.row.provider, r.visit, r.row.at, r.client, FALSE, key)
  <2>1. r.row.provider \in providersForVisit(r.visit)
    BY <1>4, FreeIsOffered, ColumnRows DEF Offered
  <2>2. BookInTime(book')
    <3> HIDE DEF key, r
    <3> QED BY <1>2, <1>4, <2>1, WrittenInTime
  <2>3. RequestInTime([stage |-> "answered", answer |-> [kind |-> "confirmed"]])
    BY PlainAnswer
  <2> QED BY <1>2, <1>4, <2>2, <2>3, AnswersInTime
<1>5. CASE UNCHANGED book /\ Answers(i, [kind |-> "error"])
  <2>1. RequestInTime([stage |-> "answered", answer |-> [kind |-> "error"]])
    BY PlainAnswer
  <2> QED BY <1>2, <1>5, <2>1, AnswersInTime
<1>6. CASE UNCHANGED book /\ (Goes(i, "rescue") \/ Goes(i, "others"))
  <2>1. "rescue" \in Running /\ "others" \in Running
    BY DEF Running
  <2> QED BY <1>1, <1>6, <2>1, StagesInTime
<1> QED BY <1>3, <1>4, <1>5, <1>6

\* What her cancellation and the desk write.
LEMMA UpsetsInTime ==
  ASSUME OnlineConstants, OnlineInTime, cancel \/ deskBooks
  PROVE  OnlineInTime'
<1>1. UNCHANGED <<flowVars, post>> /\ BookInTime(book) /\ OffersConstants
  BY DEF cancel, deskBooks, OnlineInTime, OnlineConstants
<1>2. BookInTime(book')
  <2>1. ASSUME NEW p \in Provider, NEW s \in Service, NEW d \in Day,
               NEW row \in Offered(computeDaySlots(book, p, <<s>>, d, NoClient)),
               book' = written(book, p, <<s>>, row.at, NoClient, FALSE, <<>>)
        PROVE  BookInTime(book')
    <3>1. p \in providersForVisit(<<s>>) /\ row.at \in Marks(d) /\ d \in Int
      BY ColumnRows DEF Offered, Day
    <3>2. row.at \in Int
      BY <1>1, <3>1, MarksAreInts
    <3>3. <<s>> \in Seq(Service)
      OBVIOUS
    <3> QED BY <1>1, <2>1, <3>1, <3>2, <3>3, WrittenInTime
  <2>2. ASSUME NEW k \in DOMAIN book, book' = [book EXCEPT ![k].status = "cancelled"]
        PROVE  BookInTime(book')
    BY <1>1, <2>2, CancelledInTime
  <2> QED BY <2>1, <2>2 DEF cancel, deskBooks
<1>3. FlowInTime' /\ RequestsInTime'
  BY <1>1 DEF OnlineInTime, FlowInTime, flowVars, RequestsInTime, RequestInTime
<1> QED BY <1>2, <1>3 DEF OnlineInTime

LEMMA OnlineInTimeStep ==
  ASSUME OnlineConstants, VisitInv, OnlineInTime, [OnlineNext]_onlineVars
  PROVE  OnlineInTime'
<1>1. PostIsRequests /\ WaitsForItsOwn
  BY DEF VisitInv
<1>2. CASE UNCHANGED onlineVars
  <2>1. FlowInTime' /\ UNCHANGED <<post, book>>
    BY <1>2 DEF onlineVars, OnlineInTime, FlowInTime
  <2> QED BY <2>1, FlowMoves
<1>3. CASE OnlineNext
  BY <1>1, <1>3, FlowsInTime, PagesInTime, StatementsInTime, BookAppointmentInTime, UpsetsInTime DEF OnlineNext
<1> QED BY <1>2, <1>3

\* Only its own search takes a request from the rescue to the other times.
LEMMA RescueStep ==
  ASSUME VisitInv, OnlineNext, NEW i \in Post, post[i].stage = "rescue", post'[i].stage = "others"
  PROVE  sameTimeWithSomebodyElse(i)
<1>1. post = [x \in Post |-> post[x]] /\ post'[i] # post[i]
  BY DEF VisitInv, PostIsRequests
<1>2. PICK j \in Post :
        \/ submit(j) \/ limit(j) \/ find(j) \/ create(j) \/ lookup(j) \/ bookAppointment(j)
        \/ sameTimeWithSomebodyElse(j) \/ alternatives(j)
  <2>1. ~( \/ \E s \in Service : toggle(s)
           \/ continue
           \/ \E p \in Provider \cup {Anyone} : choose(p)
           \/ \E d \in Day : chooseDay(d)
           \/ \E row \in times : pickTime(row)
           \/ back \/ cancel \/ deskBooks )
    BY <1>1 DEF toggle, continue, choose, chooseDay, pickTime, back, On, serverVars, cancel, deskBooks
  <2>2. ~ reload
    BY <1>1 DEF reload
  <2>3. ~ landed
    <3>1. ASSUME landed PROVE FALSE
      <4>1. post' = [post EXCEPT ![sent] = Gone] /\ post'[i] \in {Gone, post[i]}
        BY <1>1, <3>1 DEF landed
      <4> QED BY <1>1, <4>1 DEF Gone
    <3> QED BY <3>1
  <2> QED BY <2>1, <2>2, <2>3 DEF OnlineNext
<1>3. \E q : post' = [post EXCEPT ![j] = q]
  BY <1>1, <1>2 DEF submit, limit, find, create, lookup, bookAppointment, sameTimeWithSomebodyElse,
              alternatives, Goes, Answers
<1>4. j = i
  BY <1>1, <1>3
<1>5. ~submit(i)
  BY DEF submit, Unsent
<1>6. ~(limit(i) \/ find(i) \/ create(i) \/ lookup(i) \/ bookAppointment(i) \/ alternatives(i))
  BY DEF limit, find, create, lookup, bookAppointment, alternatives, AtStage
<1> QED BY <1>2, <1>4, <1>5, <1>6

\* The search after a lost race, for any stylists, services, days, allowances
\* and book: who said "anyone" is sent to other times only if nobody else could
\* have taken her at that one, or the stylist who had gone is back
\* (sameTimeWithSomebodyElse, A-071).
THEOREM NobodyElseWasFree ==
  ASSUME OnlineConstants
  PROVE  OnlineSpec => RescueMissesNobody
<1>1. OnlineInit => OnlineInTime
  <2> SUFFICES ASSUME OnlineInit PROVE OnlineInTime
    OBVIOUS
  <2>1. /\ chosen = <<>> /\ day = 0 /\ openDays = {} /\ times = {} /\ time = NothingPicked
        /\ post = [i \in Post |-> Unsent] /\ book = <<>>
    BY DEF OnlineInit
  <2>2. FlowInTime
    BY <2>1 DEF FlowInTime, NothingPicked
  <2>3. RequestsInTime
    BY <2>1, GoneInTime DEF RequestsInTime
  <2> QED BY <2>1, <2>2, <2>3, EmptyInTime DEF OnlineInTime
<1>2. VisitInv /\ OnlineInTime /\ [OnlineNext]_onlineVars => OnlineInTime'
  BY OnlineInTimeStep
<1>3. VisitInv /\ OnlineInTime /\ [OnlineNext]_onlineVars
        => [ \A i \in Post :
               post[i].stage = "rescue" /\ post'[i].stage = "others" =>
                 NobodyElse(book, post[i].visit, post[i].row, post[i].client) ]_onlineVars
  <2> SUFFICES ASSUME VisitInv, OnlineInTime, OnlineNext, NEW i \in Post,
                      post[i].stage = "rescue", post'[i].stage = "others"
               PROVE  NobodyElse(book, post[i].visit, post[i].row, post[i].client)
    BY DEF onlineVars
  <2>1. sameTimeWithSomebodyElse(i)
    BY RescueStep
  <2>2. {row \in somebodyElse(i) : row.provider # post[i].row.provider} = {}
    <3>1. ASSUME NEW answer, Answers(i, answer) PROVE FALSE
      <4>1. post'[i].stage \in {"answered", "gone"}
        BY <3>1 DEF Answers, Gone, VisitInv, PostIsRequests
      <4> QED BY <4>1
    <3> QED BY <2>1, <3>1 DEF sameTimeWithSomebodyElse
  <2>3. OffersConstants /\ BookInTime(book)
    BY DEF OnlineConstants, OnlineInTime
  <2> QED BY <2>2, <2>3, NobodyElseIsMissed DEF somebodyElse
<1> QED
  BY <1>1, <1>2, <1>3, VisitHolds, PTL DEF OnlineSpec, RescueMissesNobody
=============================================================================
