------------------------------ MODULE Proposals ------------------------------
(* What others than the desk do to the book: an assistant prepares a change, *)
(* a person reads its summary, and commit_proposal carries it out            *)
(* (apps/mcp/src/tools, packages/db/mcp/proposals.ts); another system reads  *)
(* an appointment with its version and writes with If-Match                  *)
(* (apps/web/lib/api/moves.ts).  Meanwhile the desk goes on tapping.         *)
(*                                                                           *)
(* A visit takes one mark, and its row counts its writes: two within one     *)
(* millisecond, which updatedAt cannot tell apart, are left out.  The engine *)
(* offers a mark nobody else's visit is at, and every stylist does every     *)
(* service.                                                                  *)
EXTENDS Statuses, Sequences

CONSTANTS
  Visit, Stylist, Person,     \* Person: the staff members who hold a token
  Commit,                      \* commit_proposal calls that may be under way
  Starts,                      \* the instants a visit may be put at
  NoVisit, Never,
  FirstVisit,                  \* the row in the book at the start
  Cutoff, TTL,                 \* the cancellation cutoff, PROPOSAL_TTL_MS
  MaxProposals, MaxDeskTaps, MaxReads, MaxNow

VisitRow == [status : AppointmentStatus, provider : Stylist, startAt : Starts, version : Nat]

ASSUME ProposalsAssumption ==
  /\ FirstVisit \in VisitRow /\ NoVisit \notin VisitRow
  /\ Starts \subseteq Int /\ Never \notin Int /\ TTL \in Nat

VARIABLES
  now,
  visit,      \* Visit -> [status, provider, startAt, version], or NoVisit
  proposal,   \* McpProposal, in the order they were prepared
  call,       \* Commit -> the commit under way
  api,        \* one request of another system, from its read to its write
  landed,     \* what the proposals wrote, in order: [id, was, is, saw]
  replaced,   \* what the API's writes with If-Match replaced: [saw, was, torn]
  deskTaps, reads

proposalVars == <<now, visit, proposal, call, api, landed, replaced, deskTaps, reads>>

Idle == [at |-> "idle"]
Stored == {v \in Visit : visit[v] # NoVisit}

ProposalsInit ==
  /\ now = 0
  /\ visit = [v \in Visit |-> IF v = CHOOSE w \in Visit : TRUE THEN FirstVisit ELSE NoVisit]
  /\ proposal = <<>> /\ call = [c \in Commit |-> Idle] /\ api = Idle
  /\ landed = <<>> /\ replaced = {} /\ deskTaps = 0 /\ reads = 0
-----------------------------------------------------------------------------
\* The book as its writes see it.  A write is the set of rows it may leave:
\* empty when it is refused.

Context(row) ==
  [actor |-> "staff", now |-> now, startAt |-> row.startAt, endAt |-> row.startAt + 1,
   cutoff |-> Cutoff, reason |-> TRUE]

OnOffer(p, t, v) ==
  \A w \in Stored \ {v} :
    visit[w].status \in Active => visit[w].provider # p \/ visit[w].startAt # t

Written(row, guard) == IF guard THEN {[row EXCEPT !.version = @ + 1]} ELSE {}

transitionAppointment(row, to) ==
  Written([row EXCEPT !.status = to], canTransition(row.status, to, Context(row)))

cancelAppointment(row) == transitionAppointment(row, staffCancellationStatus(row.status, Context(row)))

rescheduleAppointment(v, row, p, t) ==
  Written([row EXCEPT !.startAt = t, !.provider = p],
          canReschedule(row.status, Context(row)) /\ t # row.startAt /\ t > now /\ OnOffer(p, t, v))

\* Only the constraint says whether the stylist is free; she may have the visit
\* already, and then nothing is written.
reassignAppointment(v, row, p) ==
  IF row.status \in Active /\ p = row.provider THEN {row}
  ELSE Written([row EXCEPT !.provider = p], row.status \in Active /\ OnOffer(p, row.startAt, v))

bookAppointment(v, p, t) ==
  IF t > now /\ OnOffer(p, t, v)
  THEN {[status |-> "booked", provider |-> p, startAt |-> t, version |-> 1]} ELSE {}

\* Mutant: the row is read without FOR UPDATE.
MutFree(v) == TRUE

\* A row the API holds FOR UPDATE makes everybody else wait.
Free(v) == api.at = "locked" => api.visit # v

Others == UNCHANGED <<proposal, call, api, landed, replaced, reads>>

Puts(v, row) == visit' = [visit EXCEPT ![v] = row]

DeskTaps(v) ==
  /\ deskTaps < MaxDeskTaps /\ deskTaps' = deskTaps + 1 /\ v \in Stored /\ Free(v)
  /\ \/ \E to \in AppointmentStatus : \E row \in transitionAppointment(visit[v], to) : Puts(v, row)
     \/ \E p \in Stylist : \E row \in reassignAppointment(v, visit[v], p) : Puts(v, row)
     \/ \E p \in Stylist, t \in Starts : \E row \in rescheduleAppointment(v, visit[v], p, t) : Puts(v, row)
  /\ visit' # visit
  /\ UNCHANGED now /\ Others

Tick == now < MaxNow /\ now' = now + 1 /\ UNCHANGED <<visit, deskTaps>> /\ Others
-----------------------------------------------------------------------------
\* prepare_*: every check the commit will run, and nothing written.  shown is
\* what its summary tells the human.

createProposal(who, action, args, shown) ==
  /\ Len(proposal) < MaxProposals
  /\ proposal' = Append(proposal,
       [by |-> who, action |-> action, args |-> args, shown |-> shown,
        expiresAt |-> now + TTL, usedAt |-> Never, outcome |-> "none"])
  /\ UNCHANGED <<now, visit, call, api, landed, replaced, deskTaps, reads>>

prepareBooking(who, p, t) ==
  \E v \in Visit \ Stored :
    /\ bookAppointment(v, p, t) # {}
    /\ v = CHOOSE w \in Visit \ Stored : TRUE
    /\ createProposal(who, "book", [provider |-> p, startAt |-> t], [provider |-> p, startAt |-> t])

prepareStatus(who, v, to) ==
  /\ v \in Stored /\ to \in {"checked_in", "in_progress", "completed", "no_show"}
  /\ transitionAppointment(visit[v], to) # {}
  /\ createProposal(who, "status", [visit |-> v, to |-> to, from |-> visit[v].status],
                    [from |-> visit[v].status, to |-> to])

prepareCancel(who, v) ==
  /\ v \in Stored /\ cancelAppointment(visit[v]) # {}
  /\ createProposal(who, "cancel", [visit |-> v, from |-> visit[v].status],
                    [from |-> visit[v].status, late |-> staffCancellationStatus(visit[v].status, Context(visit[v]))])

prepareReschedule(who, v, p, t) ==
  /\ v \in Stored /\ canReschedule(visit[v].status, Context(visit[v]))
  /\ t > now /\ OnOffer(p, t, v) /\ (p # visit[v].provider \/ t # visit[v].startAt)
  /\ createProposal(who, "move",
       [visit |-> v, startAt |-> t, provider |-> {p} \ {visit[v].provider}],
       [visit |-> v, from |-> visit[v].startAt, startAt |-> t, with |-> visit[v].provider, to |-> p])

Prepare ==
  \E who \in Person :
    \/ \E p \in Stylist, t \in Starts : prepareBooking(who, p, t)
    \/ \E v \in Visit :
         \/ \E to \in AppointmentStatus : prepareStatus(who, v, to)
         \/ prepareCancel(who, v)
         \/ \E p \in Stylist, t \in Starts : prepareReschedule(who, v, p, t)
-----------------------------------------------------------------------------
\* commit_proposal: the claim, the domain function and the outcome are three
\* commits, and the process may die between them.

\* Mutant: the claim does not ask whether the proposal was used.
Mutclaimable(id, who) == proposal[id].by = who /\ proposal[id].expiresAt > now

claimable(id, who) ==
  proposal[id].by = who /\ proposal[id].usedAt = Never /\ proposal[id].expiresAt > now

claimProposal(c, who, id) ==
  /\ call[c] = Idle /\ id \in DOMAIN proposal /\ claimable(id, who)
  /\ proposal' = [proposal EXCEPT ![id].usedAt = now]
  /\ call' = [call EXCEPT ![c] = [at |-> "claimed", id |-> id]]
  /\ UNCHANGED <<now, visit, api, landed, replaced, deskTaps, reads>>

\* Where the new row of a booking is put.
Place(pr) == IF pr.action = "book" THEN CHOOSE v \in Visit \ Stored : TRUE ELSE pr.args.visit
Room(pr) == pr.action = "book" => Visit \ Stored # {}

\* Mutant: the stored move is a reassignment whenever it names a stylist.
MutcommitMove(v, row, c, saw) ==
  IF c.provider # {} THEN UNION {reassignAppointment(v, row, p) : p \in c.provider}
  ELSE rescheduleAppointment(v, row, row.provider, c.startAt)

\* At an unchanged instant a move to another stylist is a reassignment; the
\* instant it had is a read of its own.
commitMove(v, row, c, saw) ==
  IF c.provider = {} THEN rescheduleAppointment(v, row, row.provider, c.startAt)
  ELSE UNION { IF saw = c.startAt THEN reassignAppointment(v, row, p)
               ELSE rescheduleAppointment(v, row, p, c.startAt) : p \in c.provider }

\* Mutant: the status it was previewed from is forgotten.
MutcommitStatus(row, c) == transitionAppointment(row, c.to)

commitStatus(row, c) == IF row.status = c.from THEN transitionAppointment(row, c.to) ELSE {}

commitCancel(row, c) == IF row.status = c.from THEN cancelAppointment(row) ELSE {}

\* The rows the stored arguments lead to.
commit(pr, v, saw) ==
  CASE pr.action = "book" -> bookAppointment(v, pr.args.provider, pr.args.startAt)
    [] pr.action = "status" -> commitStatus(visit[v], pr.args)
    [] pr.action = "cancel" -> commitCancel(visit[v], pr.args)
    [] pr.action = "move" -> commitMove(v, visit[v], pr.args, saw)

\* The move's commit reads where the visit is; the other actions' domain
\* functions read for themselves, and write only over what they read.
Reads(c) ==
  /\ call[c].at = "claimed" /\ proposal[call[c].id].action = "move"
  /\ call' = [call EXCEPT ![c] =
       [at |-> "read", id |-> call[c].id, saw |-> visit[proposal[call[c].id].args.visit].startAt]]
  /\ UNCHANGED <<now, visit, proposal, api, landed, replaced, deskTaps, reads>>

Ready(c) == call[c].at = "read" \/ (call[c].at = "claimed" /\ proposal[call[c].id].action # "move")
Saw(c) == IF call[c].at = "read" THEN call[c].saw ELSE 0

Writes(c) ==
  /\ Ready(c)
  /\ LET id == call[c].id  v == Place(proposal[id]) IN
     /\ Room(proposal[id]) /\ Free(v)
     /\ \E row \in commit(proposal[id], v, Saw(c)) :
          /\ Puts(v, row)
          /\ landed' = Append(landed, [id |-> id, was |-> visit[v], is |-> row, saw |-> Saw(c)])
     /\ call' = [call EXCEPT ![c] = [at |-> "settled", id |-> id, outcome |-> "ok"]]
  /\ UNCHANGED <<now, proposal, api, replaced, deskTaps, reads>>

\* The claim stands: a refused proposal is prepared again, not retried.
Refused(c) ==
  /\ Ready(c)
  /\ LET pr == proposal[call[c].id] IN
       Room(pr) /\ Free(Place(pr)) /\ commit(pr, Place(pr), Saw(c)) = {}
  /\ call' = [call EXCEPT ![c] = [at |-> "settled", id |-> call[c].id, outcome |-> "refused"]]
  /\ UNCHANGED <<now, visit, proposal, api, landed, replaced, deskTaps, reads>>

\* An error that mapDomainError does not know ends as INTERNAL: before the
\* write, or after it has committed, where the result is read back and its own
\* outcome is stored inside the same try.
Breaks(c) ==
  /\ call[c].at \in {"claimed", "read"} \/ (call[c].at = "settled" /\ call[c].outcome = "ok")
  /\ call' = [call EXCEPT ![c] = [at |-> "settled", id |-> call[c].id, outcome |-> "internal"]]
  /\ UNCHANGED <<now, visit, proposal, api, landed, replaced, deskTaps, reads>>

recordOutcome(c) ==
  /\ call[c].at = "settled"
  /\ proposal' = [proposal EXCEPT ![call[c].id].outcome = call[c].outcome]
  /\ call' = [call EXCEPT ![c] = Idle]
  /\ UNCHANGED <<now, visit, api, landed, replaced, deskTaps, reads>>

Dies(c) ==
  /\ call[c] # Idle /\ call' = [call EXCEPT ![c] = Idle]
  /\ UNCHANGED <<now, visit, proposal, api, landed, replaced, deskTaps, reads>>
-----------------------------------------------------------------------------
\* The API: a view is read in two queries, the row and then its version; a
\* write locks the row, compares If-Match and asks the domain function.

Request == UNCHANGED <<now, proposal, call, landed, deskTaps>>

appointmentView(v) ==
  /\ api = Idle /\ reads < MaxReads /\ reads' = reads + 1 /\ v \in Stored
  /\ api' = [at |-> "read", visit |-> v, saw |-> visit[v]]
  /\ UNCHANGED <<visit, replaced>> /\ Request

versionOf ==
  /\ api.at = "read"
  /\ api' = [at |-> "has", visit |-> api.visit, saw |-> api.saw, version |-> visit[api.visit].version]
  /\ UNCHANGED <<visit, replaced, reads>> /\ Request

lockForWrite(ifMatch) ==
  /\ api.at = "has"
  /\ api' = IF ifMatch /\ visit[api.visit].version # api.version THEN Idle
            ELSE [api EXCEPT !.at = "locked", !.version = IF ifMatch THEN {@} ELSE {}]
  /\ UNCHANGED <<visit, replaced, reads>> /\ Request

\* A move names a stylist only when it is not the one she has.
moveTo(row, p, t) == [startAt |-> t, provider |-> {p} \ {row.provider}]

ApiWrites(v) ==
  \/ \E to \in {"checked_in", "in_progress", "completed", "no_show"} :
       \E row \in transitionAppointment(visit[v], to) : Puts(v, row)
  \/ \E row \in cancelAppointment(visit[v]) : Puts(v, row)
  \/ \E p \in Stylist, t \in Starts :
       \E row \in commitMove(v, visit[v], moveTo(visit[v], p, t), visit[v].startAt) : Puts(v, row)

Work ==
  /\ api.at = "locked" /\ ApiWrites(api.visit)
  /\ replaced' = replaced \cup
       {[saw |-> api.saw, was |-> visit[api.visit], torn |-> n # api.saw.version] : n \in api.version}
  /\ api' = Idle /\ UNCHANGED reads /\ Request

Fails == api.at = "locked" /\ api' = Idle /\ UNCHANGED <<visit, replaced, reads>> /\ Request
-----------------------------------------------------------------------------
ProposalsNext ==
  \/ Tick \/ Prepare
  \/ \E v \in Visit : DeskTaps(v) \/ appointmentView(v)
  \/ \E c \in Commit :
       \/ \E who \in Person, id \in DOMAIN proposal : claimProposal(c, who, id)
       \/ Reads(c) \/ Writes(c) \/ Refused(c) \/ Breaks(c) \/ recordOutcome(c) \/ Dies(c)
  \/ versionOf \/ (\E ifMatch \in BOOLEAN : lockForWrite(ifMatch)) \/ Work \/ Fails

ProposalsSpec == ProposalsInit /\ [][ProposalsNext]_proposalVars
-----------------------------------------------------------------------------
\* "Each proposal commits once": two calls, a retry after a lost answer and a
\* process that died leave at most one write of a proposal, and the audit's "ok"
\* and its named refusals are what happened to the book.  Its "internal" says
\* nothing of the book: the write may have committed before the error.
CarriedOutOnce ==
  /\ \A i, j \in DOMAIN landed : landed[i].id = landed[j].id => i = j
  /\ \A id \in DOMAIN proposal :
       LET written == {i \in DOMAIN landed : landed[i].id = id} IN
       /\ proposal[id].outcome = "ok" => written # {}
       /\ proposal[id].outcome = "refused" => written = {}

\* Whatever the desk did since the preview, a proposal that is carried out
\* leaves the book with what its summary named: a visit at the time and with
\* the stylist it names (if nobody moved it between the commit's read and its
\* write), and a status moved from the one the human was shown.
DoneAsShown ==
  \A i \in DOMAIN landed :
    LET pr == proposal[landed[i].id]  is == landed[i].is  was == landed[i].was IN
    /\ pr.action = "book" => is.startAt = pr.shown.startAt /\ is.provider = pr.shown.provider
    /\ pr.action = "move" /\ was.startAt = landed[i].saw =>
         is.startAt = pr.shown.startAt /\ (pr.args.provider # {} => is.provider = pr.shown.to)
    /\ pr.action \in {"status", "cancel"} => was.status = pr.shown.from

\* "No desk write can land between the check and the domain function's own
\* write": what a request with If-Match replaces is what its caller read, unless
\* the row changed between the two reads its view is made of.
NothingUnseenIsReplaced == \A r \in replaced : ~r.torn => r.was = r.saw

WhatIsProposedIsDone == CarriedOutOnce /\ DoneAsShown /\ NothingUnseenIsReplaced

\* The summary's whole sentence: also where the visit was, and how it counts.
TheWholeSentence ==
  \A i \in DOMAIN landed :
    LET pr == proposal[landed[i].id]  is == landed[i].is  was == landed[i].was IN
    /\ pr.action = "move" => was.startAt = pr.shown.from /\ is.provider = pr.shown.to
    /\ pr.action = "cancel" => is.status = pr.shown.late
=============================================================================
