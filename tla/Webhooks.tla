------------------------------ MODULE Webhooks ------------------------------
(* Outbound webhooks and the event log they read: apps/web/lib/api/          *)
(* webhooks.ts, events.ts, webhook-endpoints.ts and the triggers of           *)
(* 20261021120000_event_seq. Writers commit events, which the commit numbers; *)
(* sweeps fan them out into one delivery for each endpoint and send those;    *)
(* receivers also read the log; the owner resumes, switches off and replays.  *)
EXTENDS Integers, FiniteSets

CONSTANTS
  Endpoint,
  Writer,        \* transactions that write an event
  Sweep,         \* calls of sweepWebhooks, inline and by the cron
  Reader,        \* calls of GET /v1/events
  Type,          \* published event types
  wants,         \* the types an endpoint asked for; all when empty
  Contacted,     \* the endpoints that asked for the client's contacts as well
  HookAttempts, HookBackoff, PauseAfter, StaleSending,
  MaxEvents,              \* bound
  MaxMishaps              \* bound: deaths, rollbacks, sweeps that overlap, and what comes
                          \* from outside (an owner's switch, a replay, a reading)

ASSUME HooksAssumption ==
  /\ IsFiniteSet(Writer)
  /\ wants \in [Endpoint -> SUBSET Type] /\ Contacted \subseteq Endpoint
  /\ HookAttempts \in Nat /\ \A i \in 1 .. HookAttempts - 1 : HookBackoff[i] \in Nat
  /\ StaleSending \in Nat /\ MaxEvents \in Nat /\ MaxMishaps \in Nat

VARIABLES
  last,          \* BusinessEventSeq.last
  log,           \* committed events, by number
  writer,
  snapshot,      \* EventSnapshot: the body of an event, once somebody captured it
  endpoint,      \* start: the cursor it was created with; had: every cursor it has had;
                 \* since: from where on no replay has made it pass anything over
  delivery,      \* WebhookDelivery, unique for an endpoint and an event
  sweep,
  reader,
  heard,         \* history: the bodies of each event that ever left
  mishaps        \* bound

hookVars == <<last, log, writer, snapshot, endpoint, delivery, sweep, reader, heard, mishaps>>

Number == 1 .. MaxEvents
NoEvent == "none"
ASSUME TypeAssumption == NoEvent \notin Type
Committed == {n \in Number : log[n] # NoEvent}

\* A body is told apart by how much of the log had happened when the
\* appointment was looked at.
View == Cardinality(Committed)

NoDelivery == [status |-> "none", attempts |-> 0, wait |-> 0, age |-> 0, copy |-> "first"]
Queued == [NoDelivery EXCEPT !.status = "pending"]
Requeued == [Queued EXCEPT !.copy = "replay"]
Resting == [stage |-> "idle", ep |-> "none", event |-> 0, view |-> 0, upto |-> 0, failures |-> 0,
            attempts |-> 0, copy |-> "first", skip |-> {}, todo |-> {}]

\* What leaves: the body on record, the client's contacts of the send for who
\* asked for them (no two sends need agree on those), the flag of a replay.
EventBody == [view : 0 .. MaxEvents, contacts : {"none", "live"}, copy : {"first", "replay"}]

WriterT == [stage : {"idle", "open", "numbered"}, type : Type \cup {NoEvent}, seq : 0 .. MaxEvents]
EndpointT == [status : {"absent", "creating", "active", "paused", "disabled"},
              failures : Nat, cursor : 0 .. MaxEvents, start : 0 .. MaxEvents,
              since : 0 .. MaxEvents, had : SUBSET (0 .. MaxEvents)]
RowT == [status : {"none", "pending", "sending", "succeeded", "failed", "dead"}, attempts : Nat,
         wait : Nat, age : 0 .. StaleSending + 1, copy : {"first", "replay"}]
SweepT == [stage : {"idle", "fan", "fanning", "claim", "claimed", "sending"},
           ep : Endpoint \cup {"none"}, event : 0 .. MaxEvents, view : 0 .. MaxEvents,
           upto : 0 .. MaxEvents, failures : Nat, attempts : Nat, copy : {"first", "replay"},
           skip : SUBSET Endpoint, todo : SUBSET Endpoint]
ReaderT == [stage : {"idle", "reading"}, event : 0 .. MaxEvents, view : 0 .. MaxEvents]

HooksTypeOK ==
  /\ last \in 0 .. MaxEvents
  /\ log \in [Number -> Type \cup {NoEvent}]
  /\ writer \in [Writer -> WriterT]
  /\ snapshot \in [Number -> 0 .. MaxEvents]
  /\ endpoint \in [Endpoint -> EndpointT]
  /\ delivery \in [Endpoint -> [Number -> RowT]]
  /\ sweep \in [Sweep -> SweepT]
  /\ reader \in [Reader -> ReaderT]
  /\ heard \in [Number -> SUBSET EventBody]
  /\ mishaps \in 0 .. MaxMishaps

HooksInit ==
  /\ last = 0
  /\ log = [n \in Number |-> NoEvent]
  /\ writer = [w \in Writer |-> [stage |-> "idle", type |-> NoEvent, seq |-> 0]]
  /\ snapshot = [n \in Number |-> 0]
  /\ endpoint = [e \in Endpoint |-> [status |-> "absent", failures |-> 0, cursor |-> 0,
                                     start |-> 0, since |-> 0, had |-> {}]]
  /\ delivery = [e \in Endpoint |-> [n \in Number |-> NoDelivery]]
  /\ sweep = [s \in Sweep |-> Resting]
  /\ reader = [r \in Reader |-> [stage |-> "idle", event |-> 0, view |-> 0]]
  /\ heard = [n \in Number |-> {}]
  /\ mishaps = 0

Upset == mishaps < MaxMishaps /\ mishaps' = mishaps + 1
-----------------------------------------------------------------------------
(* The log *)

NumberedBy(w) == writer[w].stage = "numbered"

\* A domain transaction inserts its event; the number is still missing.
Insert(w, t) ==
  /\ writer[w].stage = "idle"
  /\ last + Cardinality({v \in Writer : writer[v].stage = "open"}) < MaxEvents
  /\ writer' = [writer EXCEPT ![w] = [stage |-> "open", type |-> t, seq |-> 0]]
  /\ UNCHANGED <<last, log, snapshot, endpoint, delivery, sweep, reader, heard, mishaps>>

\* Mutant: the number is taken from a counter nobody holds until the commit.
MutMayNumber(w) == writer[w].stage = "open"
\* The counter's row is locked until its holder has committed.
MayNumber(w) == writer[w].stage = "open" /\ \A v \in Writer : ~NumberedBy(v)

\* The deferred trigger, first thing in the commit.
AssignSeq(w) ==
  /\ MayNumber(w)
  /\ last' = last + 1
  /\ writer' = [writer EXCEPT ![w].stage = "numbered", ![w].seq = last + 1]
  /\ UNCHANGED <<log, snapshot, endpoint, delivery, sweep, reader, heard, mishaps>>

WriterCommits(w) ==
  /\ NumberedBy(w)
  /\ log' = [log EXCEPT ![writer[w].seq] = writer[w].type]
  /\ writer' = [writer EXCEPT ![w] = [stage |-> "idle", type |-> NoEvent, seq |-> 0]]
  /\ UNCHANGED <<last, snapshot, endpoint, delivery, sweep, reader, heard, mishaps>>

\* Mutant: every rollback gives a number back.
MutWriterFails(w) ==
  /\ writer[w].stage # "idle"
  /\ Upset
  /\ last' = last - 1
  /\ writer' = [writer EXCEPT ![w] = [stage |-> "idle", type |-> NoEvent, seq |-> 0]]
  /\ UNCHANGED <<log, snapshot, endpoint, delivery, sweep, reader, heard>>

\* A writer rolls back, and the counter with it.
WriterFails(w) ==
  /\ writer[w].stage # "idle"
  /\ Upset
  /\ last' = IF NumberedBy(w) THEN last - 1 ELSE last
  /\ writer' = [writer EXCEPT ![w] = [stage |-> "idle", type |-> NoEvent, seq |-> 0]]
  /\ UNCHANGED <<log, snapshot, endpoint, delivery, sweep, reader, heard>>

\* Mutant: the latest reader's body replaces the one on record.
Mutcaptured(n, view) == view
\* ON CONFLICT DO NOTHING: the first reader's body stands.
captured(n, view) == IF snapshot[n] = 0 THEN view ELSE snapshot[n]

\* GET /v1/events: look at the appointment, then store the body or take the
\* one that got there first. Several events of one page are read likewise.
ListEvents(r, n) ==
  /\ reader[r].stage = "idle" /\ n \in Committed
  /\ Upset
  /\ reader' = [reader EXCEPT ![r] = [stage |-> "reading", event |-> n, view |-> View]]
  /\ UNCHANGED <<last, log, writer, snapshot, endpoint, delivery, sweep, heard>>

SnapshotsFor(r) ==
  LET n == reader[r].event IN
  /\ reader[r].stage = "reading"
  /\ snapshot' = [snapshot EXCEPT ![n] = captured(n, reader[r].view)]
  /\ heard' = [heard EXCEPT ![n] = @ \cup {[view |-> snapshot'[n], contacts |-> "none", copy |-> "first"]}]
  /\ reader' = [reader EXCEPT ![r] = [stage |-> "idle", event |-> 0, view |-> 0]]
  /\ UNCHANGED <<last, log, writer, endpoint, delivery, sweep, mishaps>>
-----------------------------------------------------------------------------
(* The sweep *)

Unlocked(e) == \A s \in Sweep : ~(sweep[s].stage = "fanning" /\ sweep[s].ep = e)
Active == {e \in Endpoint : endpoint[e].status = "active"}
Wanted(e, n) == n \in Committed /\ (wants[e] = {} \/ log[n] \in wants[e])

\* Called inline and by the cron, so one may begin while another is at work.
sweepWebhooks(s) ==
  /\ sweep[s].stage = "idle"
  /\ IF \A other \in Sweep : sweep[other].stage = "idle" THEN UNCHANGED mishaps ELSE Upset
  /\ sweep' = [sweep EXCEPT ![s] = [Resting EXCEPT !.stage = "fan", !.todo = Active]]
  /\ UNCHANGED <<last, log, writer, snapshot, endpoint, delivery, reader, heard>>

\* FOR UPDATE SKIP LOCKED, then the events past the cursor and what their
\* appointments look like now. Nothing new, nobody active: the next one.
FanOut(s, e) ==
  /\ sweep[s].stage = "fan" /\ e \in sweep[s].todo
  /\ IF e \in Active /\ Unlocked(e) /\ \E n \in Committed : n > endpoint[e].cursor
       THEN sweep' = [sweep EXCEPT ![s].stage = "fanning", ![s].ep = e, ![s].view = View,
                                   ![s].upto = CHOOSE n \in Committed : \A m \in Committed : m <= n]
       ELSE sweep' = [sweep EXCEPT ![s].todo = @ \ {e}]
  /\ UNCHANGED <<last, log, writer, snapshot, endpoint, delivery, reader, heard, mishaps>>

\* skipDuplicates on the unique (endpoint, event).
newRow(row) == IF row = NoDelivery THEN Queued ELSE row

\* The transaction's snapshots, deliveries and cursor, in one commit.
FanOutCommits(s) ==
  LET e == sweep[s].ep
      batch == {n \in Number : endpoint[e].cursor < n /\ n <= sweep[s].upto /\ Wanted(e, n)} IN
  /\ sweep[s].stage = "fanning"
  /\ snapshot' = [n \in Number |-> IF n \in batch THEN captured(n, sweep[s].view) ELSE snapshot[n]]
  /\ delivery' = [delivery EXCEPT ![e] =
       [n \in Number |-> IF n \in batch THEN newRow(@[n]) ELSE @[n]]]
  /\ endpoint' = [endpoint EXCEPT ![e].cursor = sweep[s].upto, ![e].had = @ \cup {sweep[s].upto}]
  /\ sweep' = [sweep EXCEPT ![s] = [Resting EXCEPT !.stage = "fan", !.todo = sweep[s].todo \ {e}]]
  /\ UNCHANGED <<last, log, writer, reader, heard, mishaps>>

FannedOut(s) ==
  /\ sweep[s].stage = "fan" /\ sweep[s].todo = {}
  /\ sweep' = [sweep EXCEPT ![s].stage = "claim"]
  /\ UNCHANGED <<last, log, writer, snapshot, endpoint, delivery, reader, heard, mishaps>>

\* Mutant: a claim is never taken over.
MutDeliveryDue(row) == row.status \in {"pending", "failed"} /\ row.wait = 0
DeliveryDue(row) ==
  \/ row.status \in {"pending", "failed"} /\ row.wait = 0
  \/ row.status = "sending" /\ row.age > StaleSending

DueFor(s) ==
  {x \in (Active \ sweep[s].skip) \X Number : DeliveryDue(delivery[x[1]][x[2]])}

\* One UPDATE of the due row with the lowest number.
ClaimDelivery(s, e, n) ==
  /\ sweep[s].stage = "claim"
  /\ <<e, n>> \in DueFor(s)
  /\ \A x \in DueFor(s) : n <= x[2]
  /\ delivery' = [delivery EXCEPT ![e][n].status = "sending", ![e][n].attempts = @ + 1,
                                  ![e][n].wait = 0, ![e][n].age = 0]
  /\ sweep' = [sweep EXCEPT ![s].stage = "claimed", ![s].ep = e, ![s].event = n,
                            ![s].attempts = delivery[e][n].attempts + 1,
                            ![s].copy = delivery[e][n].copy]
  /\ UNCHANGED <<last, log, writer, snapshot, endpoint, reader, heard, mishaps>>

\* Nothing due, or the sweep has sent its share.
SweepEnds(s) ==
  /\ sweep[s].stage = "claim" /\ DueFor(s) = {}
  /\ sweep' = [sweep EXCEPT ![s] = Resting]
  /\ UNCHANGED <<last, log, writer, snapshot, endpoint, delivery, reader, heard, mishaps>>

\* The body on record, the contacts of this moment for who asked for them, and the
\* flag as the claim found it.
deliveryBody(s) ==
  [view |-> snapshot[sweep[s].event], copy |-> sweep[s].copy,
   contacts |-> IF sweep[s].ep \in Contacted THEN "live" ELSE "none"]

\* deliver, up to the answer: the endpoint as it is now, and the body.
Deliver(s) ==
  /\ sweep[s].stage = "claimed"
  /\ heard' = [heard EXCEPT ![sweep[s].event] = @ \cup {deliveryBody(s)}]
  /\ sweep' = [sweep EXCEPT ![s].stage = "sending", ![s].failures = endpoint[sweep[s].ep].failures]
  /\ UNCHANGED <<last, log, writer, snapshot, endpoint, delivery, reader, mishaps>>

\* The two updates of a success, by id alone.
Succeeded(s) ==
  LET e == sweep[s].ep IN
  /\ sweep[s].stage = "sending" /\ Unlocked(e)
  /\ delivery' = [delivery EXCEPT ![e][sweep[s].event].status = "succeeded",
                                  ![e][sweep[s].event].wait = 0,
                                  ![e][sweep[s].event].age = 0]
  /\ endpoint' = [endpoint EXCEPT ![e].failures = 0]
  /\ sweep' = [sweep EXCEPT ![s] = [Resting EXCEPT !.stage = "claim", !.skip = sweep[s].skip]]
  /\ UNCHANGED <<last, log, writer, snapshot, reader, heard, mishaps>>

\* HookBackoff, and dead when the attempts are used up.
afterFailure(attempts) ==
  IF attempts >= HookAttempts
  THEN [status |-> "dead", wait |-> 0]
  ELSE [status |-> "failed", wait |-> HookBackoff[attempts]]

\* 410 disables the endpoint; enough failures, counted from the value read
\* before the send, pause it.
endpointPatch(e, failures, gone) ==
  IF gone THEN [endpoint[e] EXCEPT !.failures = failures, !.status = "disabled"]
  ELSE IF failures >= PauseAfter
       THEN [endpoint[e] EXCEPT !.failures = failures, !.status = "paused"]
       ELSE [endpoint[e] EXCEPT !.failures = failures]

\* No other attempt of this sweep at an endpoint that failed once.
Failed(s, gone) ==
  LET e == sweep[s].ep IN
  /\ sweep[s].stage = "sending" /\ Unlocked(e)
  /\ delivery' = [delivery EXCEPT ![e][sweep[s].event] = 
       [@ EXCEPT !.status = afterFailure(sweep[s].attempts).status,
                 !.wait = afterFailure(sweep[s].attempts).wait, !.age = 0]]
  /\ endpoint' = [endpoint EXCEPT ![e] = endpointPatch(e, sweep[s].failures + 1, gone)]
  /\ sweep' = [sweep EXCEPT ![s] =
       [Resting EXCEPT !.stage = "claim", !.skip = sweep[s].skip \cup {e}]]
  /\ UNCHANGED <<last, log, writer, snapshot, reader, heard, mishaps>>

\* A sweep is killed, or an error ends it; its open transaction rolls back.
SweepDies(s) ==
  /\ sweep[s].stage # "idle"
  /\ Upset
  /\ sweep' = [sweep EXCEPT ![s] = Resting]
  /\ UNCHANGED <<last, log, writer, snapshot, endpoint, delivery, reader, heard>>
-----------------------------------------------------------------------------
(* The owner *)

\* The number is read, the endpoint is created after it.
ReadSeq(e) ==
  /\ endpoint[e].status = "absent"
  /\ endpoint' = [endpoint EXCEPT ![e].status = "creating",
                  ![e].cursor = View, ![e].start = View, ![e].since = View, ![e].had = {View}]
  /\ UNCHANGED <<last, log, writer, snapshot, delivery, sweep, reader, heard, mishaps>>

createWebhookEndpoint(e) ==
  /\ endpoint[e].status = "creating"
  /\ endpoint' = [endpoint EXCEPT ![e].status = "active"]
  /\ UNCHANGED <<last, log, writer, snapshot, delivery, sweep, reader, heard, mishaps>>

Registered(e) == endpoint[e].status \notin {"absent", "creating"}

setWebhookEndpointStatus(e, to) ==
  /\ Registered(e) /\ Unlocked(e) /\ endpoint[e].status # to
  /\ Upset
  /\ endpoint' = [endpoint EXCEPT ![e].status = to,
                  ![e].failures = IF to = "active" THEN 0 ELSE @]
  /\ UNCHANGED <<last, log, writer, snapshot, delivery, sweep, reader, heard>>

Replayable(row) == row # NoDelivery /\ row.status # "sending"

replayDelivery(e, n) ==
  /\ Replayable(delivery[e][n])
  /\ Upset
  /\ delivery' = [delivery EXCEPT ![e][n] = Requeued]
  /\ UNCHANGED <<last, log, writer, snapshot, endpoint, sweep, reader, heard>>

\* The earliest number a replay leaves no gap from. Wound back, the cursor comes
\* by all that follows again; moved FORWARD, it passes over what another replay
\* asked for and no sweep has reached yet, which only the numbers past the
\* endpoint's start are safe from.
sureSince(e, to) ==
  LET sure == IF to <= endpoint[e].cursor THEN endpoint[e].since ELSE endpoint[e].start IN
  IF to < sure THEN to ELSE sure

\* The cursor was read before the transaction, at any time since the endpoint
\* was created; if it was past the number then, it is set to just before it.
replayFromSeq(e, from, cursorRead) ==
  /\ Registered(e) /\ (cursorRead >= from => Unlocked(e))
  /\ Upset
  /\ delivery' = [delivery EXCEPT ![e] =
       [n \in Number |-> IF n >= from /\ Replayable(@[n]) THEN Requeued ELSE @[n]]]
  /\ endpoint' = IF cursorRead >= from
                 THEN [endpoint EXCEPT ![e].cursor = from - 1, ![e].had = @ \cup {from - 1},
                                       ![e].since = sureSince(e, from - 1)]
                 ELSE endpoint
  /\ UNCHANGED <<last, log, writer, snapshot, sweep, reader, heard>>

\* Time passes: claims age, backoffs run out.
Older(row) ==
  [row EXCEPT !.wait = IF @ > 0 THEN @ - 1 ELSE 0,
              !.age = IF row.status = "sending" /\ @ <= StaleSending THEN @ + 1 ELSE @]
HooksTick ==
  /\ delivery' = [e \in Endpoint |-> [n \in Number |-> Older(delivery[e][n])]]
  /\ delivery' # delivery
  /\ UNCHANGED <<last, log, writer, snapshot, endpoint, sweep, reader, heard, mishaps>>

WriterStep(w) ==
  \/ \E t \in Type : Insert(w, t)
  \/ AssignSeq(w) \/ WriterCommits(w) \/ WriterFails(w)

SweepStep(s) ==
  \/ \E e \in Endpoint : FanOut(s, e)
  \/ FanOutCommits(s) \/ FannedOut(s)
  \/ \E e \in Endpoint, n \in Number : ClaimDelivery(s, e, n)
  \/ SweepEnds(s) \/ Deliver(s)
  \/ Succeeded(s) \/ \E gone \in BOOLEAN : Failed(s, gone)

OwnerStep ==
  \E e \in Endpoint :
    \/ ReadSeq(e) \/ createWebhookEndpoint(e)
    \/ \E to \in {"active", "disabled"} : setWebhookEndpointStatus(e, to)
    \/ \E n \in Number : replayDelivery(e, n)
    \/ \E from \in Number, cursorRead \in endpoint[e].had : replayFromSeq(e, from, cursorRead)

HooksNext ==
  \/ \E w \in Writer : WriterStep(w)
  \/ \E r \in Reader : SnapshotsFor(r) \/ \E n \in Number : ListEvents(r, n)
  \/ \E s \in Sweep : sweepWebhooks(s) \/ SweepStep(s) \/ SweepDies(s)
  \/ OwnerStep
  \/ HooksTick

HooksSpec == HooksInit /\ [][HooksNext]_hookVars

\* Sweeps keep being called and one that is not killed goes on, a transaction
\* that begins to commit ends, and time passes. Nothing is assumed of receivers.
HooksFairness ==
  /\ WF_hookVars(HooksTick)
  /\ \A w \in Writer : WF_hookVars(AssignSeq(w)) /\ WF_hookVars(WriterCommits(w))
  /\ \A s \in Sweep : WF_hookVars(sweepWebhooks(s)) /\ WF_hookVars(SweepStep(s))

HooksFairSpec == HooksSpec /\ HooksFairness
-----------------------------------------------------------------------------
\* Every event an endpoint asked for and a cursor of its has ever passed has a
\* delivery, whatever order the writers' transactions ended in and however
\* replays overlapped (webhooks.ts:9: "never skips a row that commits late"); and
\* so has the history a replay asked for, down to since, once the cursor is past
\* it again, unless a replay that had read an older cursor moved it forward over
\* that history (webhook-endpoints.ts:157: the read is not in the transaction).
NothingSkipped ==
  \A e \in Endpoint, n \in Number : Wanted(e, n) =>
    /\ (endpoint[e].start < n /\ \E c \in endpoint[e].had : n <= c) => delivery[e][n] # NoDelivery
    /\ (endpoint[e].since < n /\ n <= endpoint[e].cursor) => delivery[e][n] # NoDelivery

\* Whoever looked first, every body of an event tells of the appointment as it was
\* at one and the same moment, and not before the event (events.ts:97). Two bodies
\* differ only in the contacts of the send, for an endpoint that asked for them
\* (webhooks.ts:126), and in the flag of a replay, which no reader of the log sees.
OneBodyPerEvent ==
  \A n \in Number : \A body \in heard[n] :
    /\ n <= body.view /\ \A other \in heard[n] : other.view = body.view

\* An event an endpoint asked for is delivered to it or given up on, after a
\* sweep that died, lost answers and a replay too, if the endpoint is active
\* from some point on (webhooks.ts:16: a killed sweep would strand it). It
\* speaks of the numbers past since: what an overlapping replay passed over, of
\* the history before the endpoint's start, no sweep comes by again.
EveryDeliverySettles ==
  \A e \in Endpoint, n \in Number :
    <>[](e \in Active) =>
      []<>((endpoint[e].since < n /\ Wanted(e, n))
             => delivery[e][n].status \in {"succeeded", "dead"})
=============================================================================
